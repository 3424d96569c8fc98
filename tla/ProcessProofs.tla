--------------------------- MODULE ProcessProofs ----------------------------
(***************************************************************************)
(* Proofs about what a process has and hands on: its environment and its   *)
(* children.                                                               *)
(*                                                                         *)
(* The children of module ChildProcess start as they should, for any       *)
(* threads, children and descriptors: until calls overlap one thread at a  *)
(* time has the signals changed and knows the program's own (OneChanger,   *)
(* SavedInv), a call has the mask it found (MaskInv), and the table of a   *)
(* child of posix_spawn differs from what its actions ask for only where   *)
(* an open left its descriptor (TableInv).                                 *)
(*                                                                         *)
(* Module Environment implements AbstractEnv, for any names, values and    *)
(* arrays the process starts with.  The map is read off the first entry of *)
(* each name; it rests on a name that was not there twice at the start     *)
(* never being there twice (EnvInv), since unsetenv moves the last entry   *)
(* into the place it empties.                                              *)
(***************************************************************************)
EXTENDS Environment, ChildProcess, Integers, FiniteSetTheorems, WellFoundedInduction, TLAPS

(* A leaf is left to Zenon for thirty seconds, or to the prover it names.  *)
USE ZenonT(30)

(* A set of numbers that is not empty has a least one. *)
LEMMA LeastNat ==
  ASSUME NEW S, S \subseteq Nat, S # {}
  PROVE  \E m \in S : \A k \in S : m <= k
<1>1. PICK m \in S : \A k \in S : ~(<<k, m>> \in OpToRel(<, Nat))
  BY NatLessThanWellFounded, WFMin
<1>2. ASSUME NEW k \in S
      PROVE  m <= k
  <2>1. ~(<<k, m>> \in OpToRel(<, Nat))
    BY <1>1
  <2>2. k \in Nat /\ m \in Nat
    OBVIOUS
  <2>3. ~(k < m)
    BY <2>1, <2>2 DEF OpToRel
  <2> QED
    BY SMTT(30), <2>2, <2>3
<1> QED
  BY <1>2

-----------------------------------------------------------------------------
(* system and popen *)

ChildLabels == {"idle", "block", "pipe", "fork", "wait", "restore", "unblock", "pclose"}
Dispositions == {"orig", "ign"}
Children == 1..MaxChildren

CallFields == [pc : ChildLabels, call : {"none", "system", "popen"},
               saved : Dispositions, mask : BOOLEAN, pipe : Nat, child : Nat,
               failed : BOOLEAN]
ProcFields == [state : {"none", "running", "exited", "reaped"},
               kind : {"none", "system", "popen"}, pipe : Nat, holds : SUBSET Nat,
               ignores : BOOLEAN, blocks : BOOLEAN]

ChildTypeOK ==
  /\ sigint \in Dispositions
  /\ blocked \in [ProcThreads -> BOOLEAN]
  /\ cp \in [ProcThreads -> CallFields]
  /\ procs \in [Children -> ProcFields]
  /\ pipes \in Nat /\ writing \subseteq Nat
  /\ overlapped \in BOOLEAN
  /\ leaked \subseteq ProcThreads

(* A thread waits for a child there is. *)
WaitInv == \A t \in ProcThreads : CpAt(t, "wait") => cp[t].child \in Children

(* Until two calls overlap one thread at a time changes the dispositions,  *)
(* and until a popen finds no pipe either as well it has saved those of    *)
(* the program, which are in force again once it has restored them.        *)
OneChanger ==
  overlapped \/ \A t, u \in ProcThreads : Changing(t) /\ Changing(u) => t = u

SavedInv ==
  overlapped \/ leaked # {} \/
    \A t \in ProcThreads : Changing(t) =>
      cp[t].saved = "orig" /\ (CpAt(t, "unblock") => sigint = "orig")

(* The mask a call gives back has SIGCHLD only after a popen without pipe. *)
SavedMask(t) == IF cp[t].pc = "block" THEN blocked[t] ELSE cp[t].mask

MaskInv == \A t \in ProcThreads : Changing(t) /\ SavedMask(t) => t \in leaked

ChildInv ==
  /\ ChildTypeOK /\ WaitInv /\ OneChanger /\ SavedInv /\ MaskInv
  /\ DispositionsRestored /\ MaskRestored /\ ChildDispositions

LEMMA ForkedCount ==
  IsFiniteSet(Forked) /\ Cardinality(Forked) \in Nat
<1>1. IsFiniteSet(1..MaxChildren)
  BY SMTT(30), FS_Interval, ChildConstants
<1>2. Forked \subseteq 1..MaxChildren
  BY DEF Forked
<1> QED
  BY <1>1, <1>2, FS_Subset, FS_CardinalityType

LEMMA ChildInitInv == ChildInit => ChildInv
<1> SUFFICES ASSUME ChildInit
             PROVE  ChildInv
  OBVIOUS
<1>1. ChildTypeOK
  <2>1. pipes \in Nat /\ writing \subseteq Nat
    BY SMTT(30) DEF ChildInit
  <2>2. 0 \in Nat
    BY SMTT(30)
  <2> QED
    BY <2>1, <2>2 DEF ChildInit, ChildTypeOK, IdleCall, CallFields, ProcFields, ChildLabels,
                      Dispositions, Children
<1>2. \A t \in ProcThreads : cp[t].pc = "idle" /\ ~blocked[t]
  BY DEF ChildInit, IdleCall
<1>3. sigint = "orig" /\ \A c \in Children : procs[c].state = "none"
  BY DEF ChildInit, Children
<1> QED
  BY <1>1, <1>2, <1>3
     DEF ChildInv, WaitInv, OneChanger, SavedInv, MaskInv, DispositionsRestored,
         MaskRestored, ChildDispositions, CpAt, Changing, Forked, Children

(* A call goes from one of its steps to the next, between the first change *)
(* of the dispositions and their restoration.                              *)
LEMMA CallGoesOn ==
  ASSUME ChildInv, NEW t \in ProcThreads,
         Changing(t), cp[t].pc # "unblock",
         cp' \in [ProcThreads -> CallFields], procs' \in [Children -> ProcFields],
         blocked' \in [ProcThreads -> BOOLEAN],
         \A u \in ProcThreads : u # t => cp'[u] = cp[u] /\ blocked'[u] = blocked[u],
         cp'[t].pc \in {"pipe", "fork", "wait", "restore"}, cp'[t].saved = cp[t].saved,
         SavedMask(t)' = SavedMask(t),
         cp'[t].pc = "wait" => cp'[t].child \in Children,
         \A c \in Forked' :
           /\ procs'[c].ignores => (c \in Forked /\ procs[c].ignores) \/ cp[t].saved = "ign"
           /\ procs'[c].blocks => (c \in Forked /\ procs[c].blocks) \/ SavedMask(t),
         pipes' \in Nat, writing' \subseteq Nat,
         sigint' = sigint, overlapped' = overlapped, leaked' = leaked
  PROVE  ChildInv'
<1>1. /\ ChildTypeOK /\ WaitInv /\ OneChanger /\ SavedInv /\ MaskInv
      /\ DispositionsRestored /\ MaskRestored /\ ChildDispositions
  BY DEF ChildInv
<1>2. /\ Changing(t)' /\ \A u \in ProcThreads : Changing(u)' <=> Changing(u)
      /\ \A u \in ProcThreads : cp'[u].saved = cp[u].saved
  BY DEF Changing
<1>3. ChildTypeOK'
  BY <1>1 DEF ChildTypeOK
<1>4. WaitInv'
  BY <1>1 DEF WaitInv, CpAt
<1>5. OneChanger'
  BY <1>1, <1>2 DEF OneChanger
<1>6. SavedInv'
  BY <1>1, <1>2 DEF SavedInv, CpAt
<1>10. MaskInv'
  BY <1>1, <1>2 DEF MaskInv, SavedMask
<1>7. DispositionsRestored'
  BY <1>2 DEF DispositionsRestored
<1>8. MaskRestored'
  BY <1>1, <1>2 DEF MaskRestored
<1>9. ChildDispositions'
  <2>1. cp[t].saved = "ign" => overlapped \/ leaked # {}
    BY <1>1 DEF SavedInv
  <2>2. SavedMask(t) => leaked # {}
    BY <1>1 DEF MaskInv
  <2> QED
    BY <1>1, <2>1, <2>2 DEF ChildDispositions
<1> QED
  BY <1>3, <1>4, <1>5, <1>6, <1>7, <1>8, <1>9, <1>10 DEF ChildInv

(* Nobody begins or ends to change dispositions: pclose, the children and  *)
(* the program around them.                                                *)
LEMMA OthersGoOn ==
  ASSUME ChildInv,
         cp' \in [ProcThreads -> CallFields], procs' \in [Children -> ProcFields],
         \A u \in ProcThreads :
           \/ cp'[u] = cp[u]
           \/ ~Changing(u) /\ cp'[u].pc \in {"idle", "pclose"},
         \A c \in Forked' : /\ c \in Forked /\ procs'[c].ignores = procs[c].ignores
                            /\ procs'[c].blocks = procs[c].blocks,
         pipes' \in Nat, writing' \subseteq Nat,
         sigint' = sigint, blocked' = blocked, overlapped' = overlapped, leaked' = leaked
  PROVE  ChildInv'
<1>1. /\ ChildTypeOK /\ WaitInv /\ OneChanger /\ SavedInv /\ MaskInv
      /\ DispositionsRestored /\ MaskRestored /\ ChildDispositions
  BY DEF ChildInv
<1>2. \A u \in ProcThreads : /\ Changing(u)' <=> Changing(u)
                             /\ Changing(u)' => cp'[u] = cp[u]
  BY DEF Changing
<1>3. ChildTypeOK'
  BY <1>1 DEF ChildTypeOK
<1>4. WaitInv'
  BY <1>1 DEF WaitInv, CpAt
<1>5. OneChanger'
  BY <1>1, <1>2 DEF OneChanger
<1>6. SavedInv'
  BY <1>1, <1>2 DEF SavedInv, CpAt
<1>10. MaskInv'
  BY <1>1, <1>2 DEF MaskInv, SavedMask
<1>7. DispositionsRestored'
  BY <1>1, <1>2 DEF DispositionsRestored
<1>8. MaskRestored'
  BY <1>1, <1>2 DEF MaskRestored
<1>9. ChildDispositions'
  BY <1>1 DEF ChildDispositions
<1> QED
  BY <1>3, <1>4, <1>5, <1>6, <1>7, <1>8, <1>9, <1>10 DEF ChildInv

LEMMA IgnoreKeeps ==
  ASSUME ChildInv, NEW t \in ProcThreads, NEW call \in {"system", "popen"},
         ignore_signals(t, call)
  PROVE  ChildInv'
<1>1. /\ ChildTypeOK /\ WaitInv /\ OneChanger /\ SavedInv /\ MaskInv
      /\ DispositionsRestored /\ MaskRestored /\ ChildDispositions
  BY DEF ChildInv
<1>2. /\ cp' \in [ProcThreads -> CallFields]
      /\ \A u \in ProcThreads : u # t => cp'[u] = cp[u]
      /\ cp'[t].pc = "block" /\ cp'[t].saved = sigint
  BY <1>1 DEF ignore_signals, ChildTypeOK, CallFields, ChildLabels, Dispositions
<1>3. /\ sigint' = "ign"
      /\ overlapped' = (overlapped \/ \E u \in ProcThreads : Changing(u))
      /\ blocked' = blocked /\ procs' = procs /\ leaked' = leaked
      /\ pipes' = pipes /\ writing' = writing /\ ~Changing(t)
  BY DEF ignore_signals, ends, CpAt, Changing
<1>4. /\ Changing(t)'
      /\ \A u \in ProcThreads : u # t => (Changing(u)' <=> Changing(u))
  BY <1>2 DEF Changing
<1>5. ChildTypeOK'
  BY <1>1, <1>2, <1>3 DEF ChildTypeOK, Dispositions
<1>6. WaitInv'
  BY <1>1, <1>2 DEF WaitInv, CpAt
<1>7. OneChanger'
  BY <1>3, <1>4 DEF OneChanger
<1>8. SavedInv'
  <2> SUFFICES ASSUME ~overlapped', leaked = {}
               PROVE  \A u \in ProcThreads : Changing(u)' =>
                        cp'[u].saved = "orig" /\ ~CpAt(u, "unblock")'
    BY <1>3 DEF SavedInv
  <2>1. ~overlapped /\ \A u \in ProcThreads : ~Changing(u)
    BY <1>3
  <2>2. sigint = "orig"
    BY <1>1, <2>1 DEF DispositionsRestored
  <2> QED
    BY <1>2, <1>4, <2>1, <2>2 DEF CpAt
<1>9. DispositionsRestored'
  BY <1>4 DEF DispositionsRestored
<1>10. MaskRestored'
  BY <1>1, <1>3, <1>4 DEF MaskRestored
<1>11. ChildDispositions'
  BY <1>1, <1>3 DEF ChildDispositions, Forked
<1>12. MaskInv'
  BY <1>1, <1>2, <1>3, <1>4 DEF MaskInv, MaskRestored, SavedMask
<1> QED
  BY <1>5, <1>6, <1>7, <1>8, <1>9, <1>10, <1>11, <1>12 DEF ChildInv

LEMMA IdleTyped == IdleCall \in CallFields /\ IdleCall.pc = "idle"
<1>1. 0 \in Nat
  BY SMTT(30)
<1> QED
  BY <1>1 DEF IdleCall, CallFields, ChildLabels, Dispositions

LEMMA PipeFailsKeeps ==
  ASSUME ChildInv, NEW t \in ProcThreads, pipe_fails_(t)
  PROVE  ChildInv'
<1>1. /\ ChildTypeOK /\ WaitInv /\ OneChanger /\ SavedInv /\ MaskInv
      /\ DispositionsRestored /\ MaskRestored /\ ChildDispositions
  BY DEF ChildInv
<1>2. /\ cp' \in [ProcThreads -> CallFields]
      /\ \A u \in ProcThreads : u # t => cp'[u] = cp[u]
      /\ cp'[t].pc = "idle"
  BY <1>1, IdleTyped DEF pipe_fails_, ChildTypeOK
<1>3. /\ leaked' = leaked \cup {t}
      /\ sigint' = sigint /\ blocked' = blocked /\ procs' = procs
      /\ overlapped' = overlapped /\ pipes' = pipes /\ writing' = writing
  BY DEF pipe_fails_, ends
<1>4. \A u \in ProcThreads : Changing(u)' => Changing(u) /\ u # t
  BY <1>2 DEF Changing
<1>5. \A u \in ProcThreads : u # t => (Changing(u)' <=> Changing(u))
  BY <1>2 DEF Changing
<1>6. ChildTypeOK'
  BY <1>1, <1>2, <1>3 DEF ChildTypeOK
<1>7. WaitInv'
  BY <1>1, <1>2 DEF WaitInv, CpAt
<1>8. OneChanger'
  BY <1>1, <1>3, <1>4 DEF OneChanger
<1>9. SavedInv' /\ DispositionsRestored' /\ ChildDispositions'
  BY <1>3 DEF SavedInv, DispositionsRestored, ChildDispositions
<1>10. MaskRestored'
  BY <1>1, <1>3, <1>5 DEF MaskRestored
<1>11. MaskInv'
  BY <1>1, <1>2, <1>3, <1>4 DEF MaskInv, SavedMask
<1> QED
  BY <1>6, <1>7, <1>8, <1>9, <1>10, <1>11 DEF ChildInv

(* A call goes to another label. *)
LEMMA GoesTo ==
  ASSUME ChildTypeOK, NEW t \in ProcThreads, NEW pc \in ChildLabels, CpGo(t, pc)
  PROVE  /\ cp' \in [ProcThreads -> CallFields]
         /\ \A u \in ProcThreads : u # t => cp'[u] = cp[u]
         /\ cp'[t].pc = pc /\ cp'[t].saved = cp[t].saved /\ cp'[t].mask = cp[t].mask
<1>1. cp[t] \in CallFields /\ cp \in [ProcThreads -> CallFields]
  BY DEF ChildTypeOK
<1>2. cp' = [cp EXCEPT ![t] = [cp[t] EXCEPT !.pc = pc]]
  BY DEF CpGo
<1>3. /\ [cp[t] EXCEPT !.pc = pc] \in CallFields
      /\ [cp[t] EXCEPT !.pc = pc].pc = pc /\ [cp[t] EXCEPT !.pc = pc].saved = cp[t].saved
      /\ [cp[t] EXCEPT !.pc = pc].mask = cp[t].mask
  BY <1>1 DEF CallFields
<1> QED
  BY <1>1, <1>2, <1>3

LEMMA RestoreKeeps ==
  ASSUME ChildInv, NEW t \in ProcThreads, restore_signals(t)
  PROVE  ChildInv'
<1>1. /\ ChildTypeOK /\ WaitInv /\ OneChanger /\ SavedInv /\ MaskInv
      /\ DispositionsRestored /\ MaskRestored /\ ChildDispositions
  BY DEF ChildInv
<1>2. /\ cp' \in [ProcThreads -> CallFields]
      /\ \A u \in ProcThreads : u # t => cp'[u] = cp[u]
      /\ cp[t].pc = "restore" /\ cp'[t].pc = "unblock" /\ cp'[t].saved = cp[t].saved
      /\ cp[t].saved \in Dispositions /\ cp'[t].mask = cp[t].mask
  BY <1>1, GoesTo DEF restore_signals, CpAt, ChildTypeOK, CallFields, ChildLabels
<1>3. /\ sigint' = cp[t].saved
      /\ blocked' = blocked /\ procs' = procs /\ overlapped' = overlapped
      /\ leaked' = leaked /\ pipes' = pipes /\ writing' = writing
  BY DEF restore_signals, ends
<1>4. \A u \in ProcThreads : Changing(u)' <=> Changing(u)
  BY <1>2 DEF Changing
<1>5. Changing(t)
  BY <1>2 DEF Changing
<1>6. ChildTypeOK'
  BY <1>1, <1>2, <1>3 DEF ChildTypeOK
<1>7. WaitInv'
  BY <1>1, <1>2 DEF WaitInv, CpAt
<1>8. OneChanger'
  BY <1>1, <1>3, <1>4 DEF OneChanger
<1>9. SavedInv'
  <2> SUFFICES ASSUME ~overlapped, leaked = {}, NEW u \in ProcThreads, Changing(u)
               PROVE  cp'[u].saved = "orig" /\ sigint' = "orig"
    BY <1>3, <1>4 DEF SavedInv
  <2>1. u = t
    BY <1>1, <1>5 DEF OneChanger
  <2>2. cp[t].saved = "orig"
    BY <1>1, <1>5 DEF SavedInv
  <2> QED
    BY <1>2, <1>3, <2>1, <2>2
<1>10. DispositionsRestored'
  BY <1>4, <1>5 DEF DispositionsRestored
<1>11. MaskRestored'
  BY <1>1, <1>3, <1>4 DEF MaskRestored
<1>12. ChildDispositions'
  BY <1>1, <1>3 DEF ChildDispositions, Forked
<1>13. MaskInv'
  BY <1>1, <1>2, <1>3, <1>4 DEF MaskInv, SavedMask
<1> QED
  BY <1>6, <1>7, <1>8, <1>9, <1>10, <1>11, <1>12, <1>13 DEF ChildInv

LEMMA UnblockKeeps ==
  ASSUME ChildInv, NEW t \in ProcThreads, unblock(t)
  PROVE  ChildInv'
<1>1. /\ ChildTypeOK /\ WaitInv /\ OneChanger /\ SavedInv /\ MaskInv
      /\ DispositionsRestored /\ MaskRestored /\ ChildDispositions
  BY DEF ChildInv
<1>2. /\ cp' \in [ProcThreads -> CallFields]
      /\ \A u \in ProcThreads : u # t => cp'[u] = cp[u]
      /\ CpAt(t, "unblock") /\ Changing(t) /\ cp'[t].pc = "idle"
  BY <1>1, IdleTyped DEF unblock, CpAt, Changing, ChildTypeOK
<1>3. /\ blocked' = [blocked EXCEPT ![t] = cp[t].mask] /\ cp[t].mask \in BOOLEAN
      /\ pipes' = pipes /\ writing' = writing
      /\ sigint' = sigint /\ procs' = procs /\ overlapped' = overlapped
      /\ leaked' = leaked
  BY <1>1 DEF unblock, ends, ChildTypeOK, CallFields
<1>4. ~Changing(t)' /\ \A u \in ProcThreads : u # t => (Changing(u)' <=> Changing(u))
  BY <1>2 DEF Changing
<1>5. ChildTypeOK'
  BY <1>1, <1>2, <1>3 DEF ChildTypeOK
<1>6. WaitInv'
  BY <1>1, <1>2 DEF WaitInv, CpAt
<1>7. OneChanger'
  BY <1>1, <1>3, <1>4 DEF OneChanger
<1>8. SavedInv'
  BY <1>1, <1>2, <1>3, <1>4 DEF SavedInv, CpAt
<1>9. DispositionsRestored'
  BY <1>1, <1>2, <1>3 DEF DispositionsRestored, SavedInv
<1>10. MaskRestored'
  BY <1>1, <1>2, <1>3, <1>4 DEF MaskRestored, MaskInv, SavedMask, CpAt, ChildTypeOK
<1>11. ChildDispositions'
  BY <1>1, <1>3 DEF ChildDispositions, Forked
<1>12. MaskInv'
  BY <1>1, <1>2, <1>3, <1>4 DEF MaskInv, SavedMask, ChildTypeOK
<1> QED
  BY <1>5, <1>6, <1>7, <1>8, <1>9, <1>10, <1>11, <1>12 DEF ChildInv

LEMMA BlockKeeps ==
  ASSUME ChildInv, NEW t \in ProcThreads, block_child(t)
  PROVE  ChildInv'
<1> DEFINE q == IF cp[t].call = "popen" THEN "pipe" ELSE "fork"
           f == [cp[t] EXCEPT !.pc = q, !.mask = blocked[t]]
<1>1. ChildTypeOK /\ cp[t] \in CallFields /\ blocked[t] \in BOOLEAN
  BY DEF ChildInv, ChildTypeOK
<1>2. /\ cp[t].pc = "block" /\ Changing(t)
      /\ cp' = [cp EXCEPT ![t] = f]
      /\ blocked' = [blocked EXCEPT ![t] = TRUE]
      /\ procs' = procs /\ sigint' = sigint /\ overlapped' = overlapped
      /\ leaked' = leaked /\ pipes' = pipes /\ writing' = writing
  BY DEF block_child, CpAt, Changing, ends
<1>3. /\ f \in CallFields /\ f.pc = q /\ q \in {"pipe", "fork"}
      /\ f.saved = cp[t].saved /\ f.mask = blocked[t]
  BY <1>1 DEF CallFields, ChildLabels
<1> HIDE DEF f, q
<1>4. /\ cp' \in [ProcThreads -> CallFields]
      /\ \A u \in ProcThreads : u # t => cp'[u] = cp[u]
      /\ cp'[t] = f
  BY <1>1, <1>2, <1>3 DEF ChildTypeOK
<1>5. /\ blocked' \in [ProcThreads -> BOOLEAN]
      /\ \A u \in ProcThreads : u # t => blocked'[u] = blocked[u]
  BY <1>1, <1>2 DEF ChildTypeOK
<1>6. procs' \in [Children -> ProcFields] /\ Forked' = Forked
  BY <1>1, <1>2 DEF ChildTypeOK, Forked
<1>7. SavedMask(t)' = SavedMask(t)
  BY <1>2, <1>3, <1>4 DEF SavedMask
<1>8. pipes' \in Nat /\ writing' \subseteq Nat
  BY <1>1, <1>2 DEF ChildTypeOK
<1> QED
  BY <1>2, <1>3, <1>4, <1>5, <1>6, <1>7, <1>8, CallGoesOn

LEMMA OpenPipeKeeps ==
  ASSUME ChildInv, NEW t \in ProcThreads, open_pipe(t)
  PROVE  ChildInv'
<1> DEFINE f == [cp[t] EXCEPT !.pc = "fork", !.pipe = pipes + 1]
<1>1. ChildTypeOK /\ cp[t] \in CallFields
  BY DEF ChildInv, ChildTypeOK
<1>2. /\ cp[t].pc = "pipe" /\ Changing(t)
      /\ cp' = [cp EXCEPT ![t] = f]
      /\ pipes' = pipes + 1 /\ writing' = writing \cup {pipes + 1}
      /\ blocked' = blocked /\ procs' = procs /\ sigint' = sigint
      /\ overlapped' = overlapped /\ leaked' = leaked
  BY DEF open_pipe, CpAt, Changing
<1>3. pipes + 1 \in Nat
  BY SMTT(30), <1>1 DEF ChildTypeOK
<1>4. pipes' \in Nat /\ writing' \subseteq Nat
  BY <1>1, <1>2, <1>3 DEF ChildTypeOK
<1>5. f \in CallFields /\ f.pc = "fork" /\ f.saved = cp[t].saved /\ f.mask = cp[t].mask
  BY <1>1, <1>3 DEF CallFields, ChildLabels
<1> HIDE DEF f
<1>6. /\ cp' \in [ProcThreads -> CallFields]
      /\ \A u \in ProcThreads : u # t => cp'[u] = cp[u]
      /\ cp'[t] = f
  BY <1>1, <1>2, <1>5 DEF ChildTypeOK
<1>7. SavedMask(t)' = SavedMask(t)
  BY <1>2, <1>5, <1>6 DEF SavedMask
<1>8. procs' \in [Children -> ProcFields] /\ Forked' = Forked
      /\ blocked' \in [ProcThreads -> BOOLEAN]
  BY <1>1, <1>2 DEF ChildTypeOK, Forked
<1> QED
  BY <1>2, <1>4, <1>5, <1>6, <1>7, <1>8, CallGoesOn

LEMMA ForkFailsKeeps ==
  ASSUME ChildInv, NEW t \in ProcThreads, fork_fails_(t) \/ fork_bound(t)
  PROVE  ChildInv'
<1>1. ChildTypeOK
  BY DEF ChildInv
<1>2. /\ cp[t].pc = "fork" /\ Changing(t) /\ CpGo(t, "restore")
      /\ writing' = writing \ {cp[t].pipe} /\ pipes' = pipes
      /\ blocked' = blocked /\ procs' = procs /\ sigint' = sigint
      /\ overlapped' = overlapped /\ leaked' = leaked
  BY DEF fork_fails_, fork_bound, CpAt, Changing
<1>3. /\ cp' \in [ProcThreads -> CallFields]
      /\ \A u \in ProcThreads : u # t => cp'[u] = cp[u]
      /\ cp'[t].pc = "restore" /\ cp'[t].saved = cp[t].saved /\ cp'[t].mask = cp[t].mask
  BY <1>1, <1>2, GoesTo DEF ChildLabels
<1>4. SavedMask(t)' = SavedMask(t)
  BY <1>2, <1>3 DEF SavedMask
<1>5. procs' \in [Children -> ProcFields] /\ Forked' = Forked
      /\ blocked' \in [ProcThreads -> BOOLEAN]
      /\ pipes' \in Nat /\ writing' \subseteq Nat
  BY <1>1, <1>2 DEF ChildTypeOK, Forked
<1> QED
  BY <1>2, <1>3, <1>4, <1>5, CallGoesOn

LEMMA WaitFailsKeeps ==
  ASSUME ChildInv, NEW t \in ProcThreads, wait_fails(t)
  PROVE  ChildInv'
<1>1. ChildTypeOK /\ WaitInv /\ cp[t] \in CallFields
  BY DEF ChildInv, ChildTypeOK
<1>2. /\ cp[t].pc = "wait" /\ Changing(t) /\ cp[t].child \in Children
      /\ cp' = [cp EXCEPT ![t] = [cp[t] EXCEPT !.failed = TRUE]]
      /\ blocked' = blocked /\ procs' = procs /\ sigint' = sigint
      /\ overlapped' = overlapped /\ leaked' = leaked
      /\ pipes' = pipes /\ writing' = writing
  BY <1>1 DEF wait_fails, ends, CpAt, Changing, WaitInv
<1>3. LET f == [cp[t] EXCEPT !.failed = TRUE]
      IN  f \in CallFields /\ f.pc = cp[t].pc /\ f.saved = cp[t].saved /\ f.child = cp[t].child
          /\ f.mask = cp[t].mask
  BY <1>1 DEF CallFields
<1>4. /\ cp' \in [ProcThreads -> CallFields]
      /\ \A u \in ProcThreads : u # t => cp'[u] = cp[u]
      /\ cp'[t].pc = "wait" /\ cp'[t].saved = cp[t].saved /\ cp'[t].child = cp[t].child
      /\ cp'[t].mask = cp[t].mask
  BY <1>1, <1>2, <1>3 DEF ChildTypeOK
<1>5. procs' \in [Children -> ProcFields] /\ Forked' = Forked
      /\ blocked' \in [ProcThreads -> BOOLEAN]
      /\ pipes' \in Nat /\ writing' \subseteq Nat
  BY <1>1, <1>2 DEF ChildTypeOK, Forked
<1>6. SavedMask(t)' = SavedMask(t)
  BY <1>2, <1>4 DEF SavedMask
<1> QED
  BY <1>2, <1>4, <1>5, <1>6, CallGoesOn

(* What another wait, by the call or by the program, does to a child. *)
LEMMA StateChange ==
  ASSUME ChildTypeOK, NEW c, NEW s \in {"exited", "reaped"}, c \in Forked \/ c \notin Children,
         StateOf(c, s)
  PROVE  /\ procs' \in [Children -> ProcFields] /\ Forked' = Forked
         /\ \A d \in Children : /\ procs'[d].ignores = procs[d].ignores
                                /\ procs'[d].blocks = procs[d].blocks
         /\ c \in Children => procs'[c].state = s
<1>1. procs \in [Children -> ProcFields] /\ procs' = [procs EXCEPT ![c].state = s]
  BY DEF ChildTypeOK, StateOf
<1>2. \A d \in Children : /\ procs[d] \in ProcFields
                          /\ [procs[d] EXCEPT !.state = s] \in ProcFields
                          /\ [procs[d] EXCEPT !.state = s].state = s
                          /\ [procs[d] EXCEPT !.state = s].ignores = procs[d].ignores
                          /\ [procs[d] EXCEPT !.state = s].blocks = procs[d].blocks
  BY <1>1 DEF ProcFields
<1>3. \A d \in Children : procs'[d] = IF d = c THEN [procs[d] EXCEPT !.state = s] ELSE procs[d]
  BY <1>1
<1>4. procs' \in [Children -> ProcFields]
  BY <1>1, <1>2
<1>5. Forked' = Forked
  BY <1>2, <1>3 DEF Forked, Children
<1> QED
  BY <1>2, <1>3, <1>4, <1>5

LEMMA WaitChildKeeps ==
  ASSUME ChildInv, NEW t \in ProcThreads, wait_child(t)
  PROVE  ChildInv'
<1>1. ChildTypeOK /\ WaitInv
  BY DEF ChildInv
<1>2. /\ cp[t].pc = "wait" /\ Changing(t) /\ cp[t].child \in Forked
      /\ StateOf(cp[t].child, "reaped")
  BY <1>1 DEF wait_child, CpAt, Changing, WaitInv, Forked, Children
<1>3. /\ cp' \in [ProcThreads -> CallFields]
      /\ \A u \in ProcThreads : u # t => cp'[u] = cp[u]
      /\ cp'[t].pc = "restore" /\ cp'[t].saved = cp[t].saved
      /\ cp'[t].mask = cp[t].mask
  BY <1>1, GoesTo DEF wait_child, ChildLabels
<1>6. /\ blocked' = blocked /\ pipes' = pipes /\ writing' = writing
      /\ sigint' = sigint /\ overlapped' = overlapped /\ leaked' = leaked
  BY DEF wait_child, ends
<1>4. /\ procs' \in [Children -> ProcFields] /\ Forked' = Forked
      /\ \A d \in Children : /\ procs'[d].ignores = procs[d].ignores
                             /\ procs'[d].blocks = procs[d].blocks
  BY <1>1, <1>2, StateChange
<1>5. Forked \subseteq Children
  BY DEF Forked, Children
<1>7. SavedMask(t)' = SavedMask(t)
  BY <1>2, <1>3 DEF SavedMask
<1>8. /\ blocked' \in [ProcThreads -> BOOLEAN] /\ pipes' \in Nat /\ writing' \subseteq Nat
  BY <1>1, <1>6 DEF ChildTypeOK
<1> QED
  BY <1>2, <1>3, <1>4, <1>5, <1>6, <1>7, <1>8, CallGoesOn

LEMMA ForkChildKeeps ==
  ASSUME ChildInv, NEW t \in ProcThreads, fork_child(t)
  PROVE  ChildInv'
<1> DEFINE c == Cardinality(Forked) + 1
           f == [cp[t] EXCEPT !.child = IF cp[t].call = "popen" THEN 0 ELSE c,
                              !.pc = IF cp[t].call = "popen" THEN "restore" ELSE "wait"]
<1>1. ChildTypeOK /\ cp[t] \in CallFields
  BY DEF ChildInv, ChildTypeOK
<1>2. c \in Children /\ c \in Nat /\ 0 \in Nat
  <2>1. Cardinality(Forked) < MaxChildren
    BY DEF fork_child
  <2> QED
    BY SMTT(30), <2>1, ForkedCount, ChildConstants DEF Children
<1>3. /\ cp[t].pc = "fork" /\ Changing(t)
      /\ procs' = [procs EXCEPT ![c] = ChildOf(t)] /\ cp' = [cp EXCEPT ![t] = f]
      /\ blocked' = blocked /\ pipes' = pipes /\ writing' = writing
      /\ sigint' = sigint /\ overlapped' = overlapped /\ leaked' = leaked
  BY DEF fork_child, CpAt, Changing, ends
<1> HIDE DEF c
<1>4. /\ f \in CallFields /\ f.pc \in {"wait", "restore"} /\ f.saved = cp[t].saved
      /\ f.mask = cp[t].mask /\ (f.pc = "wait" => f.child = c)
  BY <1>1, <1>2 DEF CallFields, ChildLabels
<1> HIDE DEF f
<1>5. /\ cp' \in [ProcThreads -> CallFields]
      /\ \A u \in ProcThreads : u # t => cp'[u] = cp[u]
      /\ cp'[t] = f
  BY <1>1, <1>3, <1>4 DEF ChildTypeOK
<1>6. /\ ChildOf(t) \in ProcFields
      /\ ChildOf(t).ignores = (cp[t].saved = "ign") /\ ChildOf(t).blocks = cp[t].mask
  <2>1. writing \ {cp[t].pipe} \in SUBSET Nat
    BY <1>1 DEF ChildTypeOK
  <2> QED
    BY <1>1, <2>1 DEF ProcFields, CallFields, ChildOf
<1>7. procs' \in [Children -> ProcFields]
  BY <1>1, <1>2, <1>3, <1>6 DEF ChildTypeOK
<1>8. \A d \in Forked' :
        /\ procs'[d].ignores => (d \in Forked /\ procs[d].ignores) \/ cp[t].saved = "ign"
        /\ procs'[d].blocks => (d \in Forked /\ procs[d].blocks) \/ SavedMask(t)
  BY <1>1, <1>2, <1>3, <1>6 DEF Forked, Children, ChildTypeOK, SavedMask
<1>9. SavedMask(t)' = SavedMask(t)
  BY <1>3, <1>4, <1>5 DEF SavedMask
<1>10. /\ blocked' \in [ProcThreads -> BOOLEAN] /\ pipes' \in Nat /\ writing' \subseteq Nat
  BY <1>1, <1>3 DEF ChildTypeOK
<1> QED
  BY <1>2, <1>3, <1>4, <1>5, <1>7, <1>8, <1>9, <1>10, CallGoesOn

LEMMA PcloseKeeps ==
  ASSUME ChildInv, NEW t \in ProcThreads,
         \/ pclose_ends(t) \/ pclose_interrupted(t)
         \/ \E c \in Forked : pclose(t, c)
  PROVE  ChildInv'
<1>1. ChildTypeOK
  BY DEF ChildInv
<1>2. /\ ~Changing(t)
      /\ sigint' = sigint /\ blocked' = blocked /\ overlapped' = overlapped
      /\ leaked' = leaked /\ pipes' = pipes /\ writing' \subseteq writing
  BY DEF pclose_ends, pclose_interrupted, pclose, CpAt, Changing, ends
<1>3. \E f \in CallFields : f.pc \in {"idle", "pclose"} /\ cp' = [cp EXCEPT ![t] = f]
  <2>1. CASE pclose_ends(t) \/ pclose_interrupted(t)
    BY <2>1, IdleTyped DEF pclose_ends, pclose_interrupted
  <2>2. ASSUME NEW c \in Forked, pclose(t, c)
        PROVE  \E f \in CallFields : f.pc \in {"idle", "pclose"} /\ cp' = [cp EXCEPT ![t] = f]
    <3> DEFINE f == [cp[t] EXCEPT !.pc = "pclose", !.child = c]
    <3>1. cp' = [cp EXCEPT ![t] = f]
      BY <2>2 DEF pclose
    <3>2. c \in Nat /\ cp[t] \in CallFields
      <4>1. c \in Nat
        BY SMTT(30), ChildConstants DEF Forked
      <4> QED
        BY <1>1, <4>1 DEF ChildTypeOK
    <3>3. f \in CallFields /\ f.pc = "pclose"
      BY <3>2 DEF CallFields, ChildLabels
    <3> QED
      BY <3>1, <3>3
  <2> QED
    BY <2>1, <2>2
<1>4. /\ cp' \in [ProcThreads -> CallFields]
      /\ \A u \in ProcThreads : u # t => cp'[u] = cp[u]
      /\ cp'[t].pc \in {"idle", "pclose"}
  BY <1>1, <1>3 DEF ChildTypeOK
<1>5. /\ procs' \in [Children -> ProcFields]
      /\ \A c \in Forked' : /\ c \in Forked /\ procs'[c].ignores = procs[c].ignores
                            /\ procs'[c].blocks = procs[c].blocks
  <2>1. CASE pclose_ends(t)
    <3>1. StateOf(cp[t].child, "reaped") /\ (cp[t].child \in Forked \/ cp[t].child \notin Children)
      BY <2>1 DEF pclose_ends, Forked, Children
    <3>2. Forked \subseteq Children
      BY DEF Forked, Children
    <3> QED
      BY <1>1, <3>1, <3>2, StateChange
  <2>2. CASE procs' = procs
    BY <1>1, <2>2 DEF Forked, ChildTypeOK
  <2> QED
    BY <2>1, <2>2 DEF pclose_interrupted, pclose
<1>6. pipes' \in Nat /\ writing' \subseteq Nat
  BY <1>1, <1>2 DEF ChildTypeOK
<1> QED
  BY <1>2, <1>4, <1>5, <1>6, OthersGoOn

LEMMA ProgramKeeps ==
  ASSUME ChildInv, NEW c \in Forked, child_exits(c) \/ child_stops(c) \/ program_waits(c)
  PROVE  ChildInv'
<1>1. ChildTypeOK
  BY DEF ChildInv
<1>2. /\ cp' = cp /\ sigint' = sigint /\ blocked' = blocked /\ overlapped' = overlapped
      /\ leaked' = leaked /\ pipes' = pipes /\ writing' = writing
      /\ (StateOf(c, "exited") \/ StateOf(c, "reaped"))
  BY DEF child_exits, child_stops, program_waits, ends
<1>3. /\ procs' \in [Children -> ProcFields] /\ Forked' = Forked
      /\ \A d \in Children : /\ procs'[d].ignores = procs[d].ignores
                             /\ procs'[d].blocks = procs[d].blocks
  BY <1>1, <1>2, StateChange
<1>4. Forked \subseteq Children
  BY DEF Forked, Children
<1> QED
  BY <1>1, <1>2, <1>3, <1>4, OthersGoOn DEF ChildTypeOK

LEMMA WaitInterruptedKeeps ==
  ASSUME ChildInv, NEW t \in ProcThreads, wait_interrupted(t)
  PROVE  ChildInv'
<1>1. ChildTypeOK
  BY DEF ChildInv
<1>2. /\ cp' = cp /\ procs' = procs /\ sigint' = sigint /\ blocked' = blocked
      /\ overlapped' = overlapped /\ leaked' = leaked
      /\ pipes' = pipes /\ writing' = writing
  BY DEF wait_interrupted, ends
<1> QED
  BY <1>1, <1>2, OthersGoOn DEF ChildTypeOK, Forked

LEMMA ChildNextInv == ChildInv /\ [ChildNext]_childVars => ChildInv'
<1> SUFFICES ASSUME ChildInv, [ChildNext]_childVars
             PROVE  ChildInv'
  OBVIOUS
<1>1. CASE UNCHANGED childVars
  <2>1. /\ cp' = cp /\ procs' = procs /\ sigint' = sigint /\ blocked' = blocked
        /\ overlapped' = overlapped /\ leaked' = leaked
        /\ pipes' = pipes /\ writing' = writing
    BY <1>1 DEF childVars
  <2> QED
    BY <2>1, OthersGoOn DEF ChildInv, ChildTypeOK, Forked
<1>2. ASSUME NEW t \in ProcThreads, ChildStep(t)
      PROVE  ChildInv'
  BY <1>2, BlockKeeps, OpenPipeKeeps, ForkFailsKeeps, ForkChildKeeps, WaitChildKeeps, RestoreKeeps, UnblockKeeps,
     PcloseKeeps DEF ChildStep
<1>3. ASSUME NEW t \in ProcThreads,
             \/ pipe_fails_(t) \/ fork_fails_(t) \/ wait_interrupted(t) \/ wait_fails(t)
             \/ pclose_interrupted(t)
             \/ \E c \in Forked : pclose(t, c)
             \/ \E call \in {"system", "popen"} : ignore_signals(t, call)
      PROVE  ChildInv'
  BY <1>3, PipeFailsKeeps, ForkFailsKeeps, WaitFailsKeeps, WaitInterruptedKeeps, PcloseKeeps,
     IgnoreKeeps
<1>4. ASSUME NEW c \in Forked, child_exits(c) \/ child_stops(c) \/ program_waits(c)
      PROVE  ChildInv'
  BY <1>4, ProgramKeeps
<1> QED
  BY <1>1, <1>2, <1>3, <1>4 DEF ChildNext

(* The wait of system ends only with its child: no other step moves the    *)
(* thread, and this one has waited for it.                                 *)
LEMMA WaitsForChild ==
  ASSUME ChildInv, [ChildNext]_childVars, NEW t \in ProcThreads,
         cp[t].pc = "wait", cp'[t].pc # "wait"
  PROVE  procs'[cp[t].child].state = "reaped"
<1>1. ChildTypeOK /\ WaitInv /\ cp[t].child \in Children
  BY DEF ChildInv, WaitInv, CpAt
<1>2. CASE wait_child(t)
  <2>1. StateOf(cp[t].child, "reaped") /\ cp[t].child \in Forked
    BY <1>1, <1>2 DEF wait_child, Forked, Children
  <2> QED
    BY <1>1, <2>1, StateChange
<1>3. ASSUME NEW u \in ProcThreads, ChildStep(u), ~wait_child(t)
      PROVE  cp'[t] = cp[t]
  BY <1>1, <1>3 DEF ChildStep, block_child, open_pipe, fork_child, fork_bound, wait_child, restore_signals,
                    unblock, pclose_ends, CpAt, CpGo, ChildTypeOK
<1>4. ASSUME NEW u \in ProcThreads,
             \/ pipe_fails_(u) \/ fork_fails_(u) \/ wait_interrupted(u)
             \/ pclose_interrupted(u)
             \/ \E c \in Forked : pclose(u, c)
             \/ \E call \in {"system", "popen"} : ignore_signals(u, call)
      PROVE  cp'[t] = cp[t]
  BY <1>1, <1>4
     DEF pipe_fails_, fork_fails_, wait_interrupted, pclose_interrupted, pclose, ignore_signals,
         CpAt, CpGo, ChildTypeOK
<1>5. ASSUME NEW u \in ProcThreads, wait_fails(u)
      PROVE  cp'[t].pc = cp[t].pc
  <2>1. cp' = [cp EXCEPT ![u] = [cp[u] EXCEPT !.failed = TRUE]] /\ cp[u] \in CallFields
    BY <1>1, <1>5 DEF wait_fails, ChildTypeOK
  <2>2. [cp[u] EXCEPT !.failed = TRUE].pc = cp[u].pc
    BY <2>1 DEF CallFields
  <2> QED
    BY <1>1, <2>1, <2>2 DEF ChildTypeOK
<1>6. ASSUME NEW c \in Forked, child_exits(c) \/ child_stops(c) \/ program_waits(c)
      PROVE  cp' = cp
  BY <1>6 DEF child_exits, child_stops, program_waits
<1>7. UNCHANGED childVars => cp' = cp
  BY DEF childVars
<1> QED
  BY <1>2, <1>3, <1>4, <1>5, <1>6, <1>7 DEF ChildNext

(* system and popen give the program its signals back and hand their own   *)
(* settings to no child, for any threads and children; system returns only *)
(* with its child waited for.                                              *)
THEOREM SignalsSafe == ChildSpec => SignalsPutBack
<1>1. ChildInv => DispositionsRestored /\ MaskRestored /\ ChildDispositions
  BY DEF ChildInv
<1>2. ChildInv /\ [ChildNext]_childVars =>
        [\A t \in ProcThreads : cp[t].pc = "wait" /\ cp'[t].pc # "wait" =>
                                  procs'[cp[t].child].state = "reaped"]_childVars
  BY WaitsForChild
<1> QED
  BY <1>1, <1>2, ChildInitInv, ChildNextInv, PTL DEF ChildSpec, SignalsPutBack, SystemReaps

-----------------------------------------------------------------------------
(* posix_spawn *)

SpawnTypeOK ==
  /\ actions \in Seq(SpawnActionSet)
  /\ room \in Nat /\ outside \in BOOLEAN /\ itself \in BOOLEAN
  /\ spawned \in [pc : {"none", "actions", "exit", "refused", "program"}, i : Nat \ {0}]
  /\ table \in [SpawnFds -> Nat] /\ wanted \in [SpawnFds -> Nat]
  /\ opened \subseteq SpawnFds

(* The array has the room of its first allocation. *)
RoomInv ==
  /\ actions = <<>> => ~outside
  /\ actions # <<>> => room = SpawnBlock

(* While the child works on the actions its table differs from what is     *)
(* asked for only where an open left its descriptor, which is then open.   *)
TableInv ==
  spawned.pc \in {"none", "actions", "program"} =>
    \A f \in SpawnFds : /\ table[f] = wanted[f] \/ f \in opened
                        /\ f \in opened => table[f] # Nothing

SpawnInv == SpawnTypeOK /\ RoomInv /\ ActionsFit /\ TableInv /\ GivenUpOnlyFor

LEMMA SpawnInitInv == SpawnInit => SpawnInv
<1> SUFFICES ASSUME SpawnInit
             PROVE  SpawnInv
  OBVIOUS
<1>1. table \in [SpawnFds -> Nat] /\ wanted = table
  BY SMTT(30), SpawnConstants DEF SpawnInit, OldFile, Nothing
<1>2. actions \in Seq(SpawnActionSet) /\ room \in Nat /\ opened \subseteq SpawnFds
  BY SMTT(30) DEF SpawnInit
<1>3. outside \in BOOLEAN /\ itself \in BOOLEAN
  BY DEF SpawnInit
<1>4. spawned \in [pc : {"none", "actions", "exit", "refused", "program"}, i : Nat \ {0}]
  BY SMTT(30) DEF SpawnInit
<1>5. SpawnTypeOK
  BY <1>1, <1>2, <1>3, <1>4 DEF SpawnTypeOK
<1> QED
  BY <1>1, <1>5 DEF SpawnInv, SpawnInit, RoomInv, ActionsFit, TableInv, GivenUpOnlyFor

LEMMA AddActionKeeps ==
  ASSUME SpawnInv, NEW a \in SpawnActionSet, add_action(a)
  PROVE  SpawnInv'
<1>1. SpawnTypeOK /\ RoomInv /\ ActionsFit /\ TableInv /\ spawned.pc = "none"
  BY DEF SpawnInv, add_action
<1>2. /\ actions' \in Seq(SpawnActionSet) /\ actions' # <<>>
      /\ Len(actions') = Len(actions) + 1 /\ Len(actions) \in Nat
  BY SMTT(30), <1>1 DEF add_action, SpawnTypeOK
<1>3. Grown = SpawnBlock /\ room' = SpawnBlock
  BY <1>1 DEF Grown, RoomInv, add_action
<1>4. /\ outside' = (outside \/ Len(actions) + 1 > SpawnBlock)
      /\ spawned' = spawned /\ table' = table /\ wanted' = wanted /\ opened' = opened
      /\ itself' = itself
  BY <1>3 DEF add_action
<1>5. SpawnTypeOK'
  BY <1>1, <1>2, <1>3, <1>4, SpawnConstants DEF SpawnTypeOK
<1>6. RoomInv'
  BY <1>2, <1>3 DEF RoomInv
<1>7. ActionsFit'
  <2>1. Len(actions) > SpawnBlock => Len(actions) + 1 > SpawnBlock
    BY SMTT(30), <1>2, SpawnConstants
  <2>2. outside' => Len(actions) + 1 > SpawnBlock
    BY <1>1, <1>4, <2>1 DEF ActionsFit
  <2> QED
    BY <1>2, <2>2 DEF ActionsFit
<1>8. TableInv' /\ GivenUpOnlyFor'
  BY <1>1, <1>4 DEF TableInv, GivenUpOnlyFor
<1> QED
  BY <1>5, <1>6, <1>7, <1>8 DEF SpawnInv

(* The action the child is at. *)
LEMMA ActionAt ==
  ASSUME SpawnInv, NEW type, InChild(type)
  PROVE  /\ spawned.pc = "actions" /\ SpAction \in SpawnActionSet
         /\ SpAction.type = type /\ SpAction.fd \in SpawnFds
         /\ type = "dup2" => SpAction.new_fd \in SpawnFds
         /\ table \in [SpawnFds -> Nat] /\ wanted \in [SpawnFds -> Nat]
         /\ opened \subseteq SpawnFds
         /\ \A f \in SpawnFds : /\ table[f] = wanted[f] \/ f \in opened
                                /\ f \in opened => table[f] # Nothing
BY SMTT(30) DEF SpawnInv, SpawnTypeOK, TableInv, InChild, SpAction, SpawnActionSet

(* A step of the child on its table, after which it goes on. *)
LEMMA TableKeeps ==
  ASSUME SpawnInv, spawned.pc = "actions", Advance,
         table' \in [SpawnFds -> Nat], wanted' \in [SpawnFds -> Nat], opened' \subseteq SpawnFds,
         itself' \in BOOLEAN,
         \A f \in SpawnFds : /\ table'[f] = wanted'[f] \/ f \in opened'
                             /\ f \in opened' => table'[f] # Nothing,
         actions' = actions, room' = room, outside' = outside
  PROVE  SpawnInv'
<1>1. SpawnTypeOK /\ RoomInv /\ ActionsFit
  BY DEF SpawnInv
<1>2. /\ spawned'.pc = "actions"
      /\ spawned' \in [pc : {"none", "actions", "exit", "refused", "program"}, i : Nat \ {0}]
  <2>1. /\ spawned' = [spawned EXCEPT !.i = spawned.i + 1] /\ spawned.i + 1 \in Nat \ {0}
        /\ spawned \in [pc : {"none", "actions", "exit", "refused", "program"}, i : Nat \ {0}]
    BY SMTT(30), <1>1 DEF Advance, SpawnTypeOK
  <2> QED
    BY <2>1
<1>3. SpawnTypeOK'
  BY <1>1, <1>2 DEF SpawnTypeOK
<1> QED
  BY <1>1, <1>2, <1>3 DEF SpawnInv, RoomInv, ActionsFit, TableInv, GivenUpOnlyFor

(* A step after which it is given up. *)
LEMMA FailKeeps ==
  ASSUME SpawnInv, Fail,
         table' \in [SpawnFds -> Nat], wanted' \in [SpawnFds -> Nat], opened' \subseteq SpawnFds,
         itself' \in BOOLEAN, itself' \/ wanted'[SpAction.new_fd] = Nothing,
         actions' = actions, room' = room, outside' = outside
  PROVE  SpawnInv'
<1>1. SpawnTypeOK /\ RoomInv /\ ActionsFit
  BY DEF SpawnInv
<1>2. /\ spawned'.pc = "exit" /\ spawned'.i = spawned.i
      /\ spawned' \in [pc : {"none", "actions", "exit", "refused", "program"}, i : Nat \ {0}]
  BY <1>1 DEF Fail, SpawnTypeOK
<1>3. SpawnTypeOK'
  BY <1>1, <1>2 DEF SpawnTypeOK
<1>4. SpAction' = SpAction
  BY <1>2 DEF SpAction
<1> QED
  BY <1>1, <1>2, <1>3, <1>4 DEF SpawnInv, RoomInv, ActionsFit, TableInv, GivenUpOnlyFor

LEMMA OpenKeeps ==
  ASSUME SpawnInv, child_open
  PROVE  SpawnInv'
<1> DEFINE d == SpAction.fd
           closed == [table EXCEPT ![d] = Nothing]
           Free == {g \in SpawnFds : closed[g] = Nothing}
           f == CHOOSE g \in SpawnFds : /\ closed[g] = Nothing
                                        /\ \A h \in SpawnFds : closed[h] = Nothing => g <= h
           filed == [closed EXCEPT ![f] = NewFile(d)]
<1>1. /\ spawned.pc = "actions" /\ d \in SpawnFds
      /\ table \in [SpawnFds -> Nat] /\ wanted \in [SpawnFds -> Nat] /\ opened \subseteq SpawnFds
      /\ \A g \in SpawnFds : /\ table[g] = wanted[g] \/ g \in opened
                             /\ g \in opened => table[g] # Nothing
  BY ActionAt DEF child_open
<1>2. closed \in [SpawnFds -> Nat] /\ closed[d] = Nothing
      /\ \A g \in SpawnFds : g # d => closed[g] = table[g]
  BY <1>1 DEF Nothing
<1>3. NewFile(d) \in Nat /\ NewFile(d) # Nothing
  <2> HIDE DEF d
  <2>1. d \in Nat
    BY <1>1, SpawnConstants
  <2> QED
    BY SMTT(30), <2>1 DEF NewFile, Nothing
<1>4. /\ wanted' = [wanted EXCEPT ![d] = NewFile(d)]
      /\ itself' = (itself \/ f = d)
      /\ IF f = d
           THEN Fail /\ table' = filed /\ opened' = opened
           ELSE Advance /\ table' = CopiedOnto(filed, f, d) /\ opened' = (opened \ {d}) \cup {f}
      /\ actions' = actions /\ room' = room /\ outside' = outside
  BY DEF child_open
<1> HIDE DEF closed
<1> HIDE DEF d
<1>5. f \in SpawnFds /\ closed[f] = Nothing
  <2>1. Free # {} /\ Free \subseteq Nat
    BY <1>1, <1>2, SpawnConstants
  <2>2. \E g \in Free : \A h \in Free : g <= h
    BY <2>1, LeastNat
  <2> QED
    BY <2>2
<1> HIDE DEF f
<1>6. /\ filed \in [SpawnFds -> Nat] /\ filed[f] = NewFile(d)
      /\ \A g \in SpawnFds : g # f => filed[g] = closed[g]
  BY <1>2, <1>3, <1>5
<1>7. /\ wanted' \in [SpawnFds -> Nat] /\ wanted'[d] = NewFile(d)
      /\ \A g \in SpawnFds : g # d => wanted'[g] = wanted[g]
  BY <1>1, <1>3, <1>4
<1>8. itself' \in BOOLEAN
  BY <1>4 DEF SpawnInv, SpawnTypeOK
<1> HIDE DEF filed
<1>9. CASE f = d
  BY <1>1, <1>4, <1>6, <1>7, <1>8, <1>9, FailKeeps
<1>10. CASE f # d
  <2>1. /\ table' \in [SpawnFds -> Nat] /\ table'[d] = NewFile(d) /\ table'[f] = NewFile(d)
        /\ \A g \in SpawnFds : g # d /\ g # f => table'[g] = table[g]
    BY SMTT(30), <1>1, <1>2, <1>3, <1>4, <1>5, <1>6, <1>10 DEF CopiedOnto
  <2>2. \A g \in SpawnFds : /\ table'[g] = wanted'[g] \/ g \in opened'
                            /\ g \in opened' => table'[g] # Nothing
    BY SMTT(30), <1>1, <1>3, <1>4, <1>7, <1>10, <2>1
  <2>3. opened' \subseteq SpawnFds
    BY <1>1, <1>4, <1>5, <1>10
  <2> QED
    BY <1>1, <1>4, <1>7, <1>8, <1>10, <2>1, <2>2, <2>3, TableKeeps
<1> QED
  BY <1>9, <1>10

LEMMA CloseKeeps ==
  ASSUME SpawnInv, child_close
  PROVE  SpawnInv'
<1>1. /\ spawned.pc = "actions" /\ SpAction.fd \in SpawnFds
      /\ table \in [SpawnFds -> Nat] /\ wanted \in [SpawnFds -> Nat] /\ opened \subseteq SpawnFds
      /\ \A g \in SpawnFds : /\ table[g] = wanted[g] \/ g \in opened
                             /\ g \in opened => table[g] # Nothing
  BY ActionAt DEF child_close
<1>2. /\ table' = [table EXCEPT ![SpAction.fd] = Nothing]
      /\ wanted' = [wanted EXCEPT ![SpAction.fd] = Nothing]
      /\ opened' = opened \ {SpAction.fd} /\ Advance
      /\ actions' = actions /\ room' = room /\ outside' = outside /\ itself' = itself
  BY DEF child_close
<1>3. table' \in [SpawnFds -> Nat] /\ wanted' \in [SpawnFds -> Nat]
  BY <1>1, <1>2 DEF Nothing
<1>4. \A f \in SpawnFds : /\ table'[f] = wanted'[f] \/ f \in opened'
                          /\ f \in opened' => table'[f] # Nothing
  BY <1>1, <1>2
<1>5. itself' \in BOOLEAN
  BY <1>2 DEF SpawnInv, SpawnTypeOK
<1> QED
  BY <1>1, <1>2, <1>3, <1>4, <1>5, TableKeeps

LEMMA Dup2Keeps ==
  ASSUME SpawnInv, child_dup2
  PROVE  SpawnInv'
<1> DEFINE d == SpAction.fd  e == SpAction.new_fd
<1>1. /\ spawned.pc = "actions" /\ d \in SpawnFds /\ e \in SpawnFds
      /\ table \in [SpawnFds -> Nat] /\ wanted \in [SpawnFds -> Nat] /\ opened \subseteq SpawnFds
      /\ \A g \in SpawnFds : /\ table[g] = wanted[g] \/ g \in opened
                             /\ g \in opened => table[g] # Nothing
  BY ActionAt DEF child_dup2
<1>2. /\ wanted' = [wanted EXCEPT ![e] = wanted[d]]
      /\ itself' = (itself \/ d = e)
      /\ IF table[d] = Nothing \/ d = e
           THEN Fail /\ table' = table /\ opened' = opened
           ELSE /\ table' = [table EXCEPT ![e] = table[d]]
                /\ opened' = IF d \in opened THEN opened \cup {e} ELSE opened \ {e}
                /\ Advance
      /\ actions' = actions /\ room' = room /\ outside' = outside
  BY DEF child_dup2, CopiedOnto
<1>3. wanted' \in [SpawnFds -> Nat] /\ wanted'[e] = wanted[d]
  BY <1>1, <1>2
<1>4. itself' \in BOOLEAN
  BY <1>2 DEF SpawnInv, SpawnTypeOK
<1>5. CASE table[d] = Nothing \/ d = e
  <2>1. itself' \/ wanted'[e] = Nothing
    BY <1>1, <1>2, <1>3, <1>5
  <2> QED
    BY <1>1, <1>2, <1>3, <1>4, <1>5, <2>1, FailKeeps
<1>6. CASE ~(table[d] = Nothing \/ d = e)
  <2> HIDE DEF d, e
  <2>1. table' \in [SpawnFds -> Nat] /\ opened' \subseteq SpawnFds
    BY <1>1, <1>2, <1>6
  <2>2. \A f \in SpawnFds : /\ table'[f] = wanted'[f] \/ f \in opened'
                            /\ f \in opened' => table'[f] # Nothing
    BY <1>1, <1>2, <1>6
  <2> QED
    BY <1>1, <1>2, <1>3, <1>4, <1>6, <2>1, <2>2, TableKeeps
<1> QED
  BY <1>5, <1>6

(* The steps that change nothing but where the child is. *)
LEMMA SpawnMoves ==
  ASSUME SpawnInv, posix_spawn \/ child_refused \/ child_execve \/ UNCHANGED spawnVars
  PROVE  SpawnInv'
<1>1. SpawnTypeOK /\ RoomInv /\ ActionsFit /\ TableInv /\ GivenUpOnlyFor
  BY DEF SpawnInv
<1>2. /\ actions' = actions /\ room' = room /\ outside' = outside /\ table' = table
      /\ wanted' = wanted /\ opened' = opened /\ itself' = itself
      /\ \/ spawned' = spawned
         \/ /\ spawned.pc \in {"none", "actions"}
            /\ \E pc \in {"actions", "refused", "program"} : spawned' = [spawned EXCEPT !.pc = pc]
  BY DEF posix_spawn, child_refused, child_execve, spawnVars
<1>3. /\ spawned' \in [pc : {"none", "actions", "exit", "refused", "program"}, i : Nat \ {0}]
      /\ spawned'.i = spawned.i
      /\ spawned' = spawned \/ (spawned.pc \in {"none", "actions"} /\ spawned'.pc # "exit")
  BY <1>1, <1>2 DEF SpawnTypeOK
<1>4. SpawnTypeOK'
  BY <1>1, <1>2, <1>3 DEF SpawnTypeOK
<1>5. SpAction' = SpAction
  BY <1>2, <1>3 DEF SpAction
<1> QED
  BY <1>1, <1>2, <1>3, <1>4, <1>5 DEF SpawnInv, RoomInv, ActionsFit, TableInv, GivenUpOnlyFor

(* posix_spawn gives the program it starts the descriptors that its file   *)
(* actions ask for, for any descriptors and any list of actions.           *)
THEOREM SpawnSafe == SpawnSpec => []SpawnedAsAsked
<1>1. SpawnInv => SpawnedAsAsked
  BY DEF SpawnInv, SpawnedAsAsked, TableInv, StartsWithWanted
<1>2. SpawnInv /\ [SpawnNext]_spawnVars => SpawnInv'
  BY AddActionKeeps, OpenKeeps, CloseKeeps, Dup2Keeps, SpawnMoves DEF SpawnNext
<1> QED
  BY <1>1, <1>2, SpawnInitInv, PTL DEF SpawnSpec

(* The children of system, popen and posix_spawn start with the signals    *)
(* and the descriptors they should have, and the parent gets its own back. *)
THEOREM ChildrenClean == ChildSpec /\ SpawnSpec => ChildrenStartClean
BY SignalsSafe, SpawnSafe, PTL DEF ChildrenStartClean

-----------------------------------------------------------------------------
(* The environment *)

(* An entry of ENV. *)
Entry == [name : EnvNames, val : EnvValues, str : Nat]

(* The operators of the module for an environment e. *)
PlacesOf(e, n) == {i \in DOMAIN e : e[i].name = n}
FirstOf(e, n) == CHOOSE i \in PlacesOf(e, n) : \A j \in PlacesOf(e, n) : i <= j
ValueOf(e, n) == IF PlacesOf(e, n) = {} THEN Unset ELSE e[FirstOf(e, n)].val

(* The entry getenv takes is the first of the name. *)
LEMMA First ==
  ASSUME NEW e \in Seq(Entry), NEW n, PlacesOf(e, n) # {}
  PROVE  /\ FirstOf(e, n) \in PlacesOf(e, n)
         /\ FirstOf(e, n) \in 1..Len(e) /\ e[FirstOf(e, n)].name = n
         /\ \A j \in PlacesOf(e, n) : FirstOf(e, n) <= j
<1>1. PlacesOf(e, n) \subseteq Nat /\ PlacesOf(e, n) \subseteq 1..Len(e)
  BY SMTT(30) DEF PlacesOf
<1>2. \E i \in PlacesOf(e, n) : \A j \in PlacesOf(e, n) : i <= j
  BY <1>1, LeastNat
<1>3. FirstOf(e, n) \in PlacesOf(e, n) /\ \A j \in PlacesOf(e, n) : FirstOf(e, n) <= j
  BY <1>2 DEF FirstOf
<1>4. e[FirstOf(e, n)].name = n
  BY <1>3 DEF PlacesOf
<1> QED
  BY <1>1, <1>3, <1>4

(* There is only one first entry. *)
LEMMA FirstUnique ==
  ASSUME NEW e \in Seq(Entry), NEW n, NEW i \in PlacesOf(e, n),
         \A j \in PlacesOf(e, n) : i <= j
  PROVE  FirstOf(e, n) = i
<1>1. FirstOf(e, n) \in PlacesOf(e, n) /\ \A j \in PlacesOf(e, n) : FirstOf(e, n) <= j
  BY First
<1>2. i \in Nat /\ FirstOf(e, n) \in Nat
  BY SMTT(30), <1>1 DEF PlacesOf
<1>3. i <= FirstOf(e, n) /\ FirstOf(e, n) <= i
  BY <1>1
<1> QED
  BY SMTT(30), <1>2, <1>3

(* A name has a value exactly when it has an entry. *)
LEMMA ValueType ==
  ASSUME NEW e \in Seq(Entry), NEW n
  PROVE  /\ ValueOf(e, n) \in EnvValues \cup {Unset}
         /\ ValueOf(e, n) = Unset <=> PlacesOf(e, n) = {}
<1>1. CASE PlacesOf(e, n) = {}
  BY <1>1 DEF ValueOf
<1>2. CASE PlacesOf(e, n) # {}
  <2>1. e[FirstOf(e, n)] \in Entry
    BY SMTT(30), <1>2, First
  <2>2. ValueOf(e, n) \in EnvValues
    BY <1>2, <2>1 DEF ValueOf, Entry
  <2> QED
    BY <1>2, <2>2, StartupAssumption
<1> QED
  BY <1>1, <1>2

(* f is e with the first entry of n replaced, or with one added behind. *)
PutsOver(e, n, x, f) ==
  /\ f \in Seq(Entry) /\ Len(f) = Len(e)
  /\ f[FirstOf(e, n)] = x
  /\ \A k \in 1..Len(e) : k # FirstOf(e, n) => f[k] = e[k]
  /\ \A m : PlacesOf(f, m) = PlacesOf(e, m)
  /\ ValueOf(f, n) = x.val
  /\ \A m : m # n => ValueOf(f, m) = ValueOf(e, m)

(* f is e with an entry for n added behind, where there was none. *)
PutsBehind(e, n, x, f) ==
  /\ f \in Seq(Entry) /\ Len(f) = Len(e) + 1
  /\ f[Len(e) + 1] = x
  /\ \A k \in 1..Len(e) : f[k] = e[k]
  /\ PlacesOf(f, n) = {Len(e) + 1}
  /\ \A m : m # n => PlacesOf(f, m) = PlacesOf(e, m)
  /\ ValueOf(f, n) = x.val
  /\ \A m : m # n => ValueOf(f, m) = ValueOf(e, m)

(* Replacing the first entry of a name changes the value of this name. *)
LEMMA PutOver ==
  ASSUME NEW e \in Seq(Entry), NEW n \in EnvNames, NEW x \in Entry, x.name = n,
         PlacesOf(e, n) # {}, NEW f, f = [e EXCEPT ![FirstOf(e, n)] = x]
  PROVE  PutsOver(e, n, x, f)
<1> DEFINE i == FirstOf(e, n)
<1>1. i \in 1..Len(e) /\ e[i].name = n
  BY First
<1>2. /\ f \in Seq(Entry) /\ Len(f) = Len(e) /\ f[i] = x
      /\ \A k \in 1..Len(e) : k # i => f[k] = e[k]
  BY SMTT(30), <1>1
<1>3. ASSUME NEW m
      PROVE  PlacesOf(f, m) = PlacesOf(e, m)
  BY <1>1, <1>2 DEF PlacesOf
<1>4. ASSUME NEW m
      PROVE  FirstOf(f, m) = FirstOf(e, m)
  BY <1>3 DEF FirstOf
<1>5. ValueOf(f, n) = x.val
  BY <1>2, <1>3, <1>4 DEF ValueOf
<1>6. ASSUME NEW m, m # n
      PROVE  ValueOf(f, m) = ValueOf(e, m)
  <2>1. CASE PlacesOf(e, m) = {}
    BY <1>3, <2>1 DEF ValueOf
  <2>2. CASE PlacesOf(e, m) # {}
    <3>1. FirstOf(e, m) \in 1..Len(e) /\ e[FirstOf(e, m)].name = m
      BY <2>2, First
    <3>2. f[FirstOf(e, m)] = e[FirstOf(e, m)]
      BY <1>1, <1>2, <1>6, <3>1
    <3>3. ValueOf(f, m) = f[FirstOf(f, m)].val /\ ValueOf(e, m) = e[FirstOf(e, m)].val
      BY <1>3, <2>2 DEF ValueOf
    <3>4. FirstOf(f, m) = FirstOf(e, m)
      BY <1>4
    <3> QED
      BY <3>2, <3>3, <3>4
  <2> QED
    BY <2>1, <2>2
<1> QED
  BY <1>2, <1>3, <1>5, <1>6 DEF PutsOver

(* So does adding an entry behind. *)
LEMMA PutBehind ==
  ASSUME NEW e \in Seq(Entry), NEW n \in EnvNames, NEW x \in Entry, x.name = n,
         PlacesOf(e, n) = {}, NEW f, f = Append(e, x)
  PROVE  PutsBehind(e, n, x, f)
<1>1. /\ f \in Seq(Entry) /\ Len(f) = Len(e) + 1 /\ f[Len(e) + 1] = x
      /\ \A k \in 1..Len(e) : f[k] = e[k]
      /\ DOMAIN f = 1..(Len(e) + 1) /\ DOMAIN e = 1..Len(e) /\ Len(e) \in Nat
  BY SMTT(30)
<1>2. PlacesOf(f, n) = {Len(e) + 1}
  <2>1. Len(e) + 1 \in PlacesOf(f, n)
    BY SMTT(30), <1>1 DEF PlacesOf
  <2>2. ASSUME NEW k \in PlacesOf(f, n)
        PROVE  k = Len(e) + 1
    <3>1. k \in 1..(Len(e) + 1) /\ f[k].name = n
      BY <1>1 DEF PlacesOf
    <3>2. k \in 1..Len(e) => e[k].name = n /\ k \in PlacesOf(e, n)
      BY <1>1, <3>1 DEF PlacesOf
    <3> QED
      BY SMTT(30), <1>1, <3>1, <3>2
  <2> QED
    BY <2>1, <2>2
<1>3. ASSUME NEW m, m # n
      PROVE  PlacesOf(f, m) = PlacesOf(e, m)
  BY SMTT(30), <1>1, <1>3 DEF PlacesOf
<1>4. FirstOf(f, n) = Len(e) + 1
  <2>1. Len(e) + 1 \in PlacesOf(f, n) /\ \A j \in PlacesOf(f, n) : Len(e) + 1 <= j
    BY SMTT(30), <1>1, <1>2
  <2> QED
    BY <1>1, <2>1, FirstUnique
<1>5. ValueOf(f, n) = x.val
  BY <1>1, <1>2, <1>4 DEF ValueOf
<1>6. ASSUME NEW m, m # n
      PROVE  ValueOf(f, m) = ValueOf(e, m)
  <2>0. PlacesOf(f, m) = PlacesOf(e, m) /\ FirstOf(f, m) = FirstOf(e, m)
    BY <1>3, <1>6 DEF FirstOf
  <2>1. CASE PlacesOf(e, m) = {}
    BY <2>0, <2>1 DEF ValueOf
  <2>2. CASE PlacesOf(e, m) # {}
    <3>1. FirstOf(e, m) \in 1..Len(e)
      BY <2>2, First
    <3> QED
      BY <1>1, <2>0, <2>2, <3>1 DEF ValueOf
  <2> QED
    BY <2>1, <2>2
<1> QED
  BY <1>1, <1>2, <1>3, <1>5, <1>6 DEF PutsBehind

(* f is e without the entry at i, the last one having moved to its place. *)
DropsTo(e, i, f) ==
  /\ f \in Seq(Entry) /\ Len(f) = Len(e) - 1
  /\ \A k \in 1..(Len(e) - 1) : f[k] = IF k = i THEN e[Len(e)] ELSE e[k]

(* What unsetenv makes of the vector. *)
LEMMA Dropped ==
  ASSUME NEW e \in Seq(Entry), NEW i \in 1..Len(e), NEW f,
         f = SubSeq([e EXCEPT ![i] = e[Len(e)]], 1, Len(e) - 1)
  PROVE  DropsTo(e, i, f)
<1> DEFINE g == [e EXCEPT ![i] = e[Len(e)]]
<1>1. Len(e) \in Nat \ {0}
  BY SMTT(30)
<1>2. /\ g \in Seq(Entry) /\ Len(g) = Len(e)
      /\ \A k \in 1..Len(e) : g[k] = IF k = i THEN e[Len(e)] ELSE e[k]
  BY SMTT(30), <1>1
<1>3. f = SubSeq(g, 1, Len(g) - 1)
  BY <1>2
<1> HIDE DEF g
<1>4. /\ SubSeq(g, 1, Len(g) - 1) \in Seq(Entry) /\ Len(SubSeq(g, 1, Len(g) - 1)) = Len(g) - 1
      /\ \A k \in 1..(Len(g) - 1) : SubSeq(g, 1, Len(g) - 1)[k] = g[k]
  BY SMTT(30), <1>1, <1>2
<1>5. ASSUME NEW k \in 1..(Len(e) - 1)
      PROVE  f[k] = IF k = i THEN e[Len(e)] ELSE e[k]
  <2>1. k \in 1..Len(e) /\ k \in 1..(Len(g) - 1)
    BY SMTT(30), <1>1, <1>2
  <2>2. f[k] = g[k]
    BY <1>3, <1>4, <2>1
  <2> QED
    BY <1>2, <2>1, <2>2
<1>6. f \in Seq(Entry) /\ Len(f) = Len(e) - 1
  BY <1>2, <1>3, <1>4
<1> QED
  BY <1>5, <1>6 DEF DropsTo

(* No two of S. *)
AtMostOne(S) == \A j, k \in S : j = k

(* Dropping an entry takes away the value of its name and moves no other,  *)
(* for names with one entry at most.                                       *)
LEMMA DropOne ==
  ASSUME NEW e \in Seq(Entry), NEW i \in 1..Len(e), NEW f, DropsTo(e, i, f),
         NEW m, AtMostOne(PlacesOf(e, m))
  PROVE  /\ AtMostOne(PlacesOf(f, m))
         /\ e[i].name = m => PlacesOf(f, m) = {}
         /\ e[i].name # m => ValueOf(f, m) = ValueOf(e, m)
<1>1. /\ f \in Seq(Entry) /\ Len(f) = Len(e) - 1 /\ Len(e) \in Nat
      /\ \A k \in 1..(Len(e) - 1) : f[k] = IF k = i THEN e[Len(e)] ELSE e[k]
  BY SMTT(30) DEF DropsTo
<1>2. /\ DOMAIN f = 1..(Len(e) - 1) /\ DOMAIN e = 1..Len(e) /\ i \in Nat /\ Len(e) >= 1
  BY SMTT(30), <1>1
<1>3. ASSUME NEW k \in PlacesOf(f, m)
      PROVE  /\ k \in 1..(Len(e) - 1)
             /\ k = i => Len(e) \in PlacesOf(e, m)
             /\ k # i => k \in PlacesOf(e, m)
             /\ k \in Nat /\ k # Len(e)
  <2>1. k \in 1..(Len(e) - 1) /\ f[k].name = m
    BY <1>2 DEF PlacesOf
  <2>2. k \in 1..Len(e) /\ Len(e) \in 1..Len(e) /\ k \in Nat /\ k # Len(e)
    BY SMTT(30), <1>1, <1>2, <2>1
  <2>3. k = i => e[Len(e)].name = m
    BY <1>1, <2>1
  <2>4. k # i => e[k].name = m
    BY <1>1, <2>1
  <2> QED
    BY <1>2, <2>1, <2>2, <2>3, <2>4 DEF PlacesOf
<1>4. AtMostOne(PlacesOf(f, m))
  <2> SUFFICES ASSUME NEW j \in PlacesOf(f, m), NEW k \in PlacesOf(f, m)
               PROVE  j = k
    BY DEF AtMostOne
  <2>2. j # Len(e) /\ k # Len(e)
    BY <1>3
  <2> QED
    BY <1>3, <2>2 DEF AtMostOne
<1>5. ASSUME e[i].name = m
      PROVE  PlacesOf(f, m) = {}
  <2> SUFFICES ASSUME NEW k \in PlacesOf(f, m)
               PROVE  FALSE
    OBVIOUS
  <2>1. i \in PlacesOf(e, m)
    BY <1>2, <1>5 DEF PlacesOf
  <2>2. k # Len(e) /\ k \in Nat
    BY <1>3
  <2>3. k = i => Len(e) = i
    BY <1>3, <2>1 DEF AtMostOne
  <2>4. k # i => k = i
    BY <1>3, <2>1 DEF AtMostOne
  <2> QED
    BY <2>2, <2>3, <2>4
<1>6. ASSUME e[i].name # m
      PROVE  ValueOf(f, m) = ValueOf(e, m)
  <2>1. CASE PlacesOf(e, m) = {}
    <3>1. PlacesOf(f, m) = {}
      BY <1>3, <2>1
    <3> QED
      BY <2>1, <3>1 DEF ValueOf
  <2>2. CASE PlacesOf(e, m) # {}
    <3>1. PICK k \in PlacesOf(e, m) : TRUE
      BY <2>2
    <3>2. k \in 1..Len(e) /\ e[k].name = m /\ k # i
      BY <1>2, <1>6 DEF PlacesOf
    <3> DEFINE p == IF k = Len(e) THEN i ELSE k
    <3>3. p \in 1..(Len(e) - 1) /\ f[p] = e[k]
      <4>1. CASE k = Len(e)
        <5>1. p = i /\ i \in 1..(Len(e) - 1)
          BY SMTT(30), <1>1, <1>2, <3>2, <4>1
        <5> QED
          BY <1>1, <4>1, <5>1
      <4>2. CASE k # Len(e)
        <5>1. p = k
          BY <4>2
        <5>2. k \in 1..(Len(e) - 1)
          <6>1. Len(e) \in Nat /\ k \in 1..Len(e) /\ k # Len(e)
            BY SMTT(30), <3>2, <4>2
          <6> QED
            BY SMTT(30), <6>1
        <5> QED
          BY <1>1, <3>2, <5>1, <5>2
      <4> QED
        BY <4>1, <4>2
    <3>4. p \in PlacesOf(f, m)
      BY <1>2, <3>2, <3>3 DEF PlacesOf
    <3> HIDE DEF p
    <3>5. \A j \in PlacesOf(f, m) : p <= j
      <4>1. p \in Nat
        BY <1>3, <3>4
      <4>2. \A j \in PlacesOf(f, m) : p = j
        BY <1>4, <3>4 DEF AtMostOne
      <4> QED
        BY SMTT(30), <4>1, <4>2
    <3>6. FirstOf(f, m) = p
      BY <1>1, <3>4, <3>5, FirstUnique
    <3>7. k \in Nat /\ \A j \in PlacesOf(e, m) : k <= j
      BY SMTT(30), <3>1, <3>2 DEF AtMostOne
    <3>8. FirstOf(e, m) = k
      BY <3>1, <3>7, FirstUnique
    <3>9. ValueOf(f, m) = f[p].val /\ ValueOf(e, m) = e[k].val
      BY <2>2, <3>4, <3>6, <3>8 DEF ValueOf
    <3> QED
      BY <3>3, <3>9
  <2> QED
    BY <2>1, <2>2
<1> QED
  BY <1>4, <1>5, <1>6

-----------------------------------------------------------------------------

(* The types of the variables. *)
EnvTypeOK ==
  /\ env \in Seq(Entry) /\ allocated \in [EnvNames -> Nat] /\ strings \in Nat
  /\ doubled \subseteq EnvNames

(* The inductive invariant: a name that was not there twice at the start   *)
(* never is, and no entry dangles.                                         *)
EnvInv ==
  /\ EnvTypeOK
  /\ \A n \in EnvNames \ doubled : AtMostOne(PlacesOf(env, n))
  /\ NoDanglingEntry

(* The operators for ENV before a step and after it. *)
LEMMA Named ==
  ASSUME NEW n
  PROVE  /\ Places(n) = PlacesOf(env, n) /\ Place(n) = FirstOf(env, n)
         /\ getenv(n) = ValueOf(env, n)
<1>1. Places(n) = PlacesOf(env, n)
  BY DEF Places, PlacesOf
<1>2. Place(n) = FirstOf(env, n)
  BY <1>1 DEF Place, FirstOf
<1> QED
  BY <1>1, <1>2 DEF getenv, ValueOf

(* The same, after a step. *)
LEMMA NamedNext ==
  ASSUME NEW n
  PROVE  getenv(n)' = ValueOf(env', n)
<1>1. Places(n)' = PlacesOf(env', n)
  BY DEF Places, PlacesOf
<1>2. Place(n)' = FirstOf(env', n)
  BY <1>1 DEF Place, FirstOf
<1> QED
  BY <1>1, <1>2 DEF getenv, ValueOf

(* What Put does to the invariant and to the values. *)
LEMMA PutKeeps ==
  ASSUME EnvInv, NEW n \in EnvNames, NEW v \in EnvValues, NEW s \in Nat, env' = Put(n, v, s),
         doubled' = doubled, allocated' \in [EnvNames -> Nat], strings' \in Nat,
         \A m \in EnvNames : m # n => allocated'[m] = allocated[m],
         s # 0 => allocated'[n] = s, s = 0 => allocated'[n] = allocated[n]
  PROVE  /\ EnvInv'
         /\ ValueOf(env', n) = v
         /\ \A m : m # n => ValueOf(env', m) = ValueOf(env, m)
<1> DEFINE x == [name |-> n, val |-> v, str |-> s]
<1>1. x \in Entry /\ x.name = n /\ x.val = v /\ x.str = s
  BY DEF Entry
<1>2. env \in Seq(Entry)
  BY DEF EnvInv, EnvTypeOK
<1>3. env' = IF PlacesOf(env, n) = {} THEN Append(env, x) ELSE [env EXCEPT ![FirstOf(env, n)] = x]
  <2>1. Places(n) = PlacesOf(env, n) /\ Place(n) = FirstOf(env, n)
    BY Named
  <2> QED
    BY <2>1 DEF Put
<1> HIDE DEF x
<1>4. CASE PlacesOf(env, n) = {}
  <2>1. /\ env' \in Seq(Entry) /\ Len(env') = Len(env) + 1
        /\ env'[Len(env) + 1] = x
        /\ \A k \in 1..Len(env) : env'[k] = env[k]
        /\ PlacesOf(env', n) = {Len(env) + 1}
        /\ \A m : m # n => PlacesOf(env', m) = PlacesOf(env, m)
        /\ ValueOf(env', n) = x.val
        /\ \A m : m # n => ValueOf(env', m) = ValueOf(env, m)
    <3>1. env' = Append(env, x)
      BY <1>3, <1>4
    <3>2. PutsBehind(env, n, x, env')
      BY <1>1, <1>2, <1>4, <3>1, PutBehind
    <3> QED
      BY <3>2 DEF PutsBehind
  <2>2. \A m \in EnvNames \ doubled' : AtMostOne(PlacesOf(env', m))
    BY SMTT(30), <2>1 DEF EnvInv, AtMostOne
  <2>3. NoDanglingEntry'
    <3> SUFFICES ASSUME NEW i \in DOMAIN env', env'[i].str # 0, env'[i].name \notin doubled
                 PROVE  allocated'[env'[i].name] = env'[i].str
      BY DEF NoDanglingEntry
    <3>1. Len(env) \in Nat /\ i \in 1..(Len(env) + 1) /\ DOMAIN env = 1..Len(env)
      BY SMTT(30), <1>2, <2>1
    <3>2. CASE i = Len(env) + 1
      BY <1>1, <2>1, <3>2
    <3>3. CASE i # Len(env) + 1
      <4>1. i \in DOMAIN env /\ env'[i] = env[i]
        BY SMTT(30), <2>1, <3>1, <3>3
      <4>2. env[i].name # n
        BY <1>4, <4>1 DEF PlacesOf
      <4>3. env[i].name \in EnvNames
        <5>1. env[i] \in Entry
          BY SMTT(30), <1>2, <3>1, <4>1
        <5> QED
          BY <5>1 DEF Entry
      <4> QED
        BY SMTT(30), <4>1, <4>2, <4>3 DEF EnvInv, NoDanglingEntry
    <3> QED
      BY <3>2, <3>3
  <2> QED
    BY <1>1, <2>1, <2>2, <2>3 DEF EnvInv, EnvTypeOK
<1>5. CASE PlacesOf(env, n) # {}
  <2> DEFINE p == FirstOf(env, n)
  <2>1. /\ env' \in Seq(Entry) /\ Len(env') = Len(env)
        /\ env'[p] = x
        /\ \A k \in 1..Len(env) : k # p => env'[k] = env[k]
        /\ \A m : PlacesOf(env', m) = PlacesOf(env, m)
        /\ ValueOf(env', n) = x.val
        /\ \A m : m # n => ValueOf(env', m) = ValueOf(env, m)
    <3>1. env' = [env EXCEPT ![FirstOf(env, n)] = x]
      BY <1>3, <1>5
    <3>2. PutsOver(env, n, x, env')
      BY <1>1, <1>2, <1>5, <3>1, PutOver
    <3> QED
      BY <3>2 DEF PutsOver
  <2>2. p \in PlacesOf(env, n)
    BY <1>2, <1>5, First
  <2> HIDE DEF p
  <2>3. \A m \in EnvNames \ doubled' : AtMostOne(PlacesOf(env', m))
    BY <2>1 DEF EnvInv
  <2>4. NoDanglingEntry'
    <3> SUFFICES ASSUME NEW i \in DOMAIN env', env'[i].str # 0, env'[i].name \notin doubled
                 PROVE  allocated'[env'[i].name] = env'[i].str
      BY DEF NoDanglingEntry
    <3>1. i \in 1..Len(env) /\ DOMAIN env = 1..Len(env)
      BY SMTT(30), <1>2, <2>1
    <3>2. CASE i = p
      BY <1>1, <2>1, <3>2
    <3>3. CASE i # p
      <4>1. env'[i] = env[i]
        BY <2>1, <3>1, <3>3
      <4>2. env[i].name \in EnvNames
        <5>1. env[i] \in Entry
          BY SMTT(30), <1>2, <3>1
        <5> QED
          BY <5>1 DEF Entry
      <4>3. env[i].name # n
        <5> SUFFICES ASSUME env[i].name = n
                     PROVE  FALSE
          OBVIOUS
        <5>1. i \in PlacesOf(env, n) /\ n \notin doubled
          BY <3>1, <4>1 DEF PlacesOf
        <5> QED
          BY <2>2, <3>3, <5>1 DEF EnvInv, AtMostOne
      <4> QED
        BY SMTT(30), <3>1, <4>1, <4>2, <4>3 DEF EnvInv, NoDanglingEntry
    <3> QED
      BY <3>2, <3>3
  <2> QED
    BY <1>1, <2>1, <2>3, <2>4 DEF EnvInv, EnvTypeOK
<1> QED
  BY <1>4, <1>5

(* The map the abstract specification is about. *)
Values == [n \in EnvNames |-> getenv(n)]

(* The map, before a step and after it. *)
LEMMA ValuesAre ==
  ASSUME EnvTypeOK
  PROVE  /\ Values \in [EnvNames -> EnvValues \cup {Unset}]
         /\ \A n \in EnvNames : Values[n] = ValueOf(env, n)
<1>1. \A n \in EnvNames : Values[n] = ValueOf(env, n)
  BY Named DEF Values
<1>2. \A n \in EnvNames : ValueOf(env, n) \in EnvValues \cup {Unset}
  BY ValueType DEF EnvTypeOK
<1> QED
  BY <1>1, <1>2 DEF Values

(* The same, after a step. *)
LEMMA ValuesNext == \A n \in EnvNames : Values'[n] = ValueOf(env', n)
BY NamedNext DEF Values

(* The value of n is v now, those of the other names are as they were. *)
LEMMA ValuesSet ==
  ASSUME EnvTypeOK, NEW n \in EnvNames, NEW v, ValueOf(env', n) = v,
         \A m : m # n => ValueOf(env', m) = ValueOf(env, m)
  PROVE  Values' = [Values EXCEPT ![n] = v]
<1>1. \A m \in EnvNames : Values'[m] = IF m = n THEN v ELSE Values[m]
  BY ValuesAre, ValuesNext
<1>2. Values' = [m \in EnvNames |-> Values'[m]] /\ DOMAIN Values = EnvNames
  BY DEF Values
<1> QED
  BY <1>1, <1>2

(* setenv sets the value, or keeps it. *)
LEMMA SetenvKeeps ==
  ASSUME EnvInv, NEW n \in EnvNames, NEW v \in EnvValues, NEW overwrite \in BOOLEAN,
         setenv(n, v, overwrite)
  PROVE  EnvInv' /\ (EnvMap!Set(n, v) \/ EnvMap!Keep(n, v))
<1>0. EnvTypeOK /\ doubled' = doubled
  BY DEF EnvInv, setenv
<1>1. CASE overwrite \/ PlacesOf(env, n) = {}
  <2>1. /\ strings' = strings + 1 /\ allocated' = [allocated EXCEPT ![n] = strings + 1]
        /\ env' = Put(n, v, strings + 1)
    BY <1>1, Named DEF setenv
  <2>2. /\ strings + 1 \in Nat /\ strings' \in Nat /\ strings + 1 # 0
        /\ allocated' \in [EnvNames -> Nat] /\ allocated'[n] = strings + 1
        /\ \A m \in EnvNames : m # n => allocated'[m] = allocated[m]
    BY SMTT(30), <1>0, <2>1 DEF EnvTypeOK
  <2>3. /\ EnvInv' /\ ValueOf(env', n) = v
        /\ \A m : m # n => ValueOf(env', m) = ValueOf(env, m)
    BY <1>0, <2>1, <2>2, PutKeeps
  <2>4. Values' = [Values EXCEPT ![n] = v]
    BY <1>0, <2>3, ValuesSet
  <2>5. CASE overwrite
    <3>1. env_call' = <<"set", n, v>>
      BY <2>5 DEF setenv
    <3> QED
      BY <1>0, <2>3, <2>4, <3>1 DEF EnvMap!Set, Values
  <2>6. CASE ~overwrite
    <3>1. env_call' = <<"keep", n, v>>
      BY <2>6 DEF setenv
    <3>2. Values[n] = Unset
      BY <1>0, <1>1, <2>6, ValuesAre, ValueType DEF EnvTypeOK
    <3> QED
      BY <1>0, <2>3, <2>4, <3>1, <3>2 DEF EnvMap!Keep, Values
  <2> QED
    BY <2>5, <2>6
<1>2. CASE ~(overwrite \/ PlacesOf(env, n) = {})
  <2>1. /\ env' = env /\ allocated' = allocated /\ strings' = strings
        /\ env_call' = <<"keep", n, v>>
    BY <1>2, Named DEF setenv
  <2>2. Values[n] # Unset
    BY <1>0, <1>2, ValuesAre, ValueType DEF EnvTypeOK
  <2>3. Values' = Values
    BY SMTT(30), <2>1 DEF Values, getenv, Places, Place
  <2>4. EnvInv'
    BY <1>0, <2>1 DEF EnvInv, EnvTypeOK, NoDanglingEntry
  <2> QED
    BY <1>0, <2>1, <2>2, <2>3, <2>4 DEF EnvMap!Keep, Values
<1> QED
  BY <1>1, <1>2

(* putenv sets the value. *)
LEMMA PutenvKeeps ==
  ASSUME EnvInv, NEW n \in EnvNames, NEW v \in EnvValues, putenv(n, v)
  PROVE  EnvInv' /\ EnvMap!Set(n, v)
<1>1. /\ EnvTypeOK /\ env' = Put(n, v, 0) /\ allocated' = allocated /\ strings' = strings
      /\ doubled' = doubled /\ env_call' = <<"set", n, v>>
  BY DEF EnvInv, putenv
<1>2. /\ EnvInv' /\ ValueOf(env', n) = v
      /\ \A m : m # n => ValueOf(env', m) = ValueOf(env, m)
  <2>1. allocated' \in [EnvNames -> Nat] /\ strings' \in Nat /\ 0 \in Nat
    BY <1>1 DEF EnvTypeOK
  <2> QED
    BY <1>1, <2>1, PutKeeps
<1>3. Values' = [Values EXCEPT ![n] = v]
  BY <1>1, <1>2, ValuesSet
<1> QED
  BY <1>1, <1>2, <1>3 DEF EnvMap!Set, Values

(* clearenv takes all values away. *)
LEMMA ClearenvKeeps ==
  ASSUME EnvInv, clearenv
  PROVE  EnvInv' /\ EnvMap!Clear
<1>1. /\ EnvTypeOK /\ env' = <<>> /\ allocated' = allocated /\ strings' = strings
      /\ doubled' = doubled /\ env_call' = <<"clear">>
  BY DEF EnvInv, clearenv
<1>2. \A n : PlacesOf(env', n) = {}
  BY SMTT(30), <1>1 DEF PlacesOf
<1>3. Values' = [n \in EnvNames |-> Unset]
  <2>1. \A n \in EnvNames : Values'[n] = Unset
    BY <1>2, ValuesNext DEF ValueOf
  <2> QED
    BY <2>1 DEF Values
<1>4. EnvInv'
  <2>1. EnvTypeOK'
    BY SMTT(30), <1>1 DEF EnvTypeOK
  <2>2. NoDanglingEntry'
    BY SMTT(30), <1>1 DEF NoDanglingEntry
  <2> QED
    BY <1>2, <2>1, <2>2 DEF EnvInv, AtMostOne
<1> QED
  BY <1>1, <1>3, <1>4 DEF EnvMap!Clear, Values

(* unsetenv takes one value away, and may change that of names that were   *)
(* there twice.                                                            *)
LEMMA UnsetenvKeeps ==
  ASSUME EnvInv, NEW n \in EnvNames, unsetenv(n)
  PROVE  EnvInv' /\ EnvMap!Remove(n)
<1>0. /\ EnvTypeOK /\ env \in Seq(Entry) /\ doubled' = doubled /\ strings' = strings
      /\ env_call' = <<"unset", n>>
  BY DEF EnvInv, EnvTypeOK, unsetenv
<1>1. CASE PlacesOf(env, n) = {}
  <2>1. env' = env /\ allocated' = allocated
    BY <1>1, Named DEF unsetenv
  <2>2. Values' = Values
    BY SMTT(30), <2>1 DEF Values, getenv, Places, Place
  <2>3. Values \in [EnvNames -> EnvValues \cup {Unset}] /\ Values[n] = Unset
    BY <1>0, <1>1, ValuesAre DEF ValueOf
  <2>4. EnvInv'
    BY <1>0, <2>1 DEF EnvInv, EnvTypeOK, NoDanglingEntry
  <2> QED
    BY <1>0, <2>2, <2>3, <2>4 DEF EnvMap!Remove, Values
<1>2. CASE PlacesOf(env, n) # {}
  <2> DEFINE p == FirstOf(env, n)
  <2>1. /\ env' = SubSeq([env EXCEPT ![p] = env[Len(env)]], 1, Len(env) - 1)
        /\ allocated' = [allocated EXCEPT ![n] = 0]
    BY <1>2, Named DEF unsetenv, Without
  <2>2. p \in 1..Len(env) /\ env[p].name = n
    BY <1>0, <1>2, First
  <2> HIDE DEF p
  <2>3. DropsTo(env, p, env')
    BY <1>0, <2>1, <2>2, Dropped
  <2>4. EnvTypeOK'
    BY <1>0, <2>1, <2>3 DEF EnvTypeOK, DropsTo
  <2>5. \A m \in EnvNames \ doubled :
          /\ AtMostOne(PlacesOf(env', m))
          /\ m = n => PlacesOf(env', m) = {}
          /\ m # n => ValueOf(env', m) = ValueOf(env, m)
    <3> TAKE m \in EnvNames \ doubled
    <3>1. AtMostOne(PlacesOf(env, m))
      BY DEF EnvInv
    <3> QED
      BY SMTT(30), <1>0, <2>2, <2>3, <3>1, DropOne
  <2>6. NoDanglingEntry'
    <3> SUFFICES ASSUME NEW k \in DOMAIN env', env'[k].str # 0, env'[k].name \notin doubled
                 PROVE  allocated'[env'[k].name] = env'[k].str
      BY <1>0 DEF NoDanglingEntry
    <3>1. /\ k \in 1..(Len(env) - 1) /\ Len(env) \in Nat
          /\ env'[k] = IF k = p THEN env[Len(env)] ELSE env[k]
      BY SMTT(30), <1>0, <2>3 DEF DropsTo
    <3>2. PICK j \in 1..Len(env) : env'[k] = env[j]
      BY SMTT(30), <2>2, <3>1
    <3>3. env[j] \in Entry /\ j \in DOMAIN env
      BY SMTT(30), <1>0, <3>2
    <3>4. env[j].name \in EnvNames
      BY <3>3 DEF Entry
    <3>5. env[j].name # n
      <4> SUFFICES ASSUME env'[k].name = n
                   PROVE  FALSE
        BY <3>2
      <4>1. k \in PlacesOf(env', n)
        BY DEF PlacesOf
      <4>2. PlacesOf(env', n) = {}
        BY <2>5
      <4> QED
        BY <4>1, <4>2
    <3>6. allocated[env[j].name] = env[j].str
      BY <3>2, <3>3 DEF EnvInv, NoDanglingEntry
    <3>7. allocated'[env[j].name] = allocated[env[j].name]
      BY <1>0, <2>1, <3>4, <3>5 DEF EnvTypeOK
    <3> QED
      BY <3>2, <3>6, <3>7
  <2>7. EnvInv'
    BY <1>0, <2>4, <2>5, <2>6 DEF EnvInv
  <2>8. Values' \in [EnvNames -> EnvValues \cup {Unset}]
    <3>1. \A m \in EnvNames : ValueOf(env', m) \in EnvValues \cup {Unset}
      BY <2>4, ValueType DEF EnvTypeOK
    <3> QED
      BY <3>1, ValuesNext DEF Values
  <2>9. Values'[n] = Unset \/ n \in doubled
    BY <2>5, ValuesNext DEF ValueOf
  <2>10. \A m \in EnvNames \ (doubled \cup {n}) : Values'[m] = Values[m]
    BY <1>0, <2>5, ValuesNext, ValuesAre
  <2> QED
    BY <1>0, <2>7, <2>8, <2>9, <2>10 DEF EnvMap!Remove, Values
<1> QED
  BY <1>1, <1>2

(* The environment the process starts with. *)
LEMMA EnvInitHolds ==
  ASSUME EnvInit
  PROVE  EnvInv /\ EnvMap!EnvMapInit
<1>1. /\ env \in Startups /\ allocated = [n \in EnvNames |-> 0] /\ strings = 0
      /\ env_call = <<"none">>
      /\ doubled = {n \in EnvNames : Cardinality({i \in DOMAIN env : env[i].name = n}) > 1}
  BY DEF EnvInit
<1>2. env \in Seq([name : EnvNames, val : EnvValues, str : {0}])
  BY <1>1, StartupAssumption
<1>3. env \in Seq(Entry) /\ \A i \in DOMAIN env : env[i].str = 0
  <2> DEFINE S == [name : EnvNames, val : EnvValues, str : {0}]
  <2>0. env \in Seq(S)
    BY <1>2
  <2>2. \A x \in S : x \in Entry /\ x.str = 0
    BY SMTT(30) DEF Entry
  <2> HIDE DEF S
  <2>1. \A i \in DOMAIN env : env[i] \in S
    BY SMTT(30), <2>0
  <2>3. \A i \in DOMAIN env : env[i] \in Entry /\ env[i].str = 0
    BY <2>1, <2>2
  <2>4. Len(env) \in Nat /\ env = [i \in 1..Len(env) |-> env[i]] /\ DOMAIN env = 1..Len(env)
    BY SMTT(30), <1>2
  <2> QED
    BY SMTT(30), <2>3, <2>4
<1>4. EnvTypeOK
  BY <1>1, <1>3 DEF EnvTypeOK
<1>5. ASSUME NEW n \in EnvNames \ doubled
      PROVE  AtMostOne(PlacesOf(env, n))
  <2> SUFFICES ASSUME NEW j \in PlacesOf(env, n), NEW k \in PlacesOf(env, n), j # k
               PROVE  FALSE
    BY DEF AtMostOne
  <2>1. IsFiniteSet(1..Len(env)) /\ PlacesOf(env, n) \subseteq 1..Len(env)
    BY SMTT(30), <1>3, FS_Interval DEF PlacesOf
  <2>2. IsFiniteSet(PlacesOf(env, n)) /\ Cardinality(PlacesOf(env, n)) \in Nat
    BY <2>1, FS_Subset, FS_CardinalityType
  <2>3. {j, k} \subseteq PlacesOf(env, n)
    OBVIOUS
  <2>4. Cardinality({j, k}) <= Cardinality(PlacesOf(env, n))
    BY <2>2, <2>3, FS_Subset
  <2>5. Cardinality({j, k}) = 2
    <3>1. IsFiniteSet({j}) /\ Cardinality({j}) = 1
      BY FS_Singleton
    <3>2. Cardinality({j} \cup {k}) = Cardinality({j}) + 1
      BY <3>1, FS_AddElement
    <3>3. {j} \cup {k} = {j, k}
      OBVIOUS
    <3> QED
      BY SMTT(30), <3>1, <3>2, <3>3
  <2>6. ~(Cardinality(PlacesOf(env, n)) > 1)
    BY <1>1 DEF PlacesOf
  <2> QED
    BY SMTT(30), <2>2, <2>4, <2>5, <2>6
<1>6. NoDanglingEntry
  BY <1>3 DEF NoDanglingEntry
<1>7. EnvInv
  BY <1>4, <1>5, <1>6 DEF EnvInv
<1>8. EnvMap!EnvMapInit
  BY <1>1, <1>4, ValuesAre DEF EnvMap!EnvMapInit, Values, EnvTypeOK
<1> QED
  BY <1>7, <1>8

(* What getenv gives is the map of AbstractEnv, and every entry that       *)
(* setenv made points to a string ALLOCATED_ENV still owns: for any names  *)
(* and values, any environment at the start and any calls of setenv,       *)
(* putenv, unsetenv and clearenv (posix/stdlib.cpp).                       *)
THEOREM EnvironmentRefines == EnvSpec => EnvironmentSound
<1>1. EnvInit => EnvInv /\ EnvMap!EnvMapInit
  BY EnvInitHolds
<1>2. EnvInv /\ [EnvNext]_envVars
      => EnvInv' /\ [EnvMap!EnvMapNext]_<<[n \in EnvNames |-> getenv(n)], env_call, doubled>>
  <2> SUFFICES ASSUME EnvInv, [EnvNext]_envVars
               PROVE  EnvInv' /\ [EnvMap!EnvMapNext]_<<[n \in EnvNames |-> getenv(n)], env_call, doubled>>
    OBVIOUS
  <2>1. ASSUME NEW n \in EnvNames, NEW v \in EnvValues, putenv(n, v)
        PROVE  EnvInv' /\ EnvMap!EnvMapNext
    BY <2>1, PutenvKeeps DEF EnvMap!EnvMapNext
  <2>2. ASSUME NEW n \in EnvNames, NEW v \in EnvValues, NEW b \in BOOLEAN, setenv(n, v, b)
        PROVE  EnvInv' /\ EnvMap!EnvMapNext
    BY <2>2, SetenvKeeps DEF EnvMap!EnvMapNext
  <2>3. ASSUME NEW n \in EnvNames, unsetenv(n)
        PROVE  EnvInv' /\ EnvMap!EnvMapNext
    BY <2>3, UnsetenvKeeps DEF EnvMap!EnvMapNext
  <2>4. CASE clearenv
    BY <2>4, ClearenvKeeps DEF EnvMap!EnvMapNext
  <2>5. CASE UNCHANGED envVars
    BY SMTT(30), <2>5 DEF envVars, EnvInv, EnvTypeOK, NoDanglingEntry, getenv, Places, Place
  <2> QED
    BY <2>1, <2>2, <2>3, <2>4, <2>5 DEF EnvNext
<1>3. EnvInv => NoDanglingEntry
  BY DEF EnvInv
<1> QED
  BY <1>1, <1>2, <1>3, PTL DEF EnvSpec, EnvironmentSound, EnvIsMap, EnvMap!EnvMapSpec

==============================================================================

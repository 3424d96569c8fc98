---------------------------- MODULE LoaderProofs -----------------------------
(***************************************************************************)
(* Proofs about two parts of the dynamic linker: its locks (LoaderLocks),  *)
(* for any set of threads and any depth of calls made from callbacks, and  *)
(* what it relocates (Relocation), for tables of any length.               *)
(*                                                                         *)
(* LocksGiveWay speaks of who waits for whom.  LockInv ties that to the    *)
(* code: a thread holds exactly what its calls have taken and not given    *)
(* back by where they are, and the outer ones are where the program was    *)
(* called from.  Every entry point takes the locks in the order LockOrder, *)
(* so of any set of threads the one that waits for the last lock waits for *)
(* nobody else in the set.                                                 *)
(*                                                                         *)
(* RelocatedOnce speaks of the end of the work.  WordsInv says of every    *)
(* stage what a word holds, by whether its object has been relocated, has  *)
(* been relocated late, or neither; AddendsSaved that the C library's      *)
(* addends are found again at the places they were saved at; CopyInv that  *)
(* a copy has what its definition had when it was made.                    *)
(***************************************************************************)
EXTENDS LoaderLocks, Relocation, Integers, FiniteSetTheorems, TLAPS

(* A leaf is left to Zenon for thirty seconds, or to the prover it names.  *)
USE ZenonT(30)

------------------------------------------------------------------------------
(* The locks of the dynamic linker. *)

(* What each entry point holds before each of its steps and at its end.    *)
(* dlsym with RTLD_NEXT asks for the list of objects while it holds it and *)
(* gets no further.                                                        *)
HeldDuring(op) ==
  CASE op = "open"    -> <<{}, {"objects"}, {}, {"storage"},
                           {"storage", "objects"},
                           {"storage", "objects", "tls"},
                           {"storage", "objects"}, {"storage"},
                           {"storage", "objects"}, {"storage"}, {},
                           {"objects"}, {}, {}>>
    [] op = "sym"     -> <<{}, {"objects"}, {}>>
    [] op = "next"    -> <<{}, {"objects"}>>
    [] op = "addr"    -> <<{}, {"objects"}, {}>>
    [] op = "iterate" -> <<{}, {"objects"}, {"objects"}, {}>>
    [] op = "tls"     -> <<{}, {"tls"}, {}>>
    [] op = "create"  -> <<{}, {"storage"}, {"storage", "objects"},
                           {"storage"}, {}>>
    [] op = "join"    -> <<{}, {"storage"}, {}>>
    [] op = "exit"    -> <<{}, {"storage"}, {"storage"}, {}, {"objects"}, {}>>

LockCalls == {c \in [op : Ops, at : Nat] : c.at \in 1..Len(HeldDuring(c.op))}

HeldAt(op, i) == HeldDuring(op)[i]
HeldBy(c, l) == l \in HeldAt(c.op, c.at)

(* Where a call is while the program makes another one. *)
SuspendedAt(op, i) == \/ op = "open" /\ i = 14
                      \/ op \in {"iterate", "exit"} /\ i = 3
Suspended(c) == SuspendedAt(c.op, c.at)

LockOrder(l) == CASE l = "storage" -> 1 [] l = "objects" -> 2 [] l = "tls" -> 3

LockTypeOK ==
  /\ holder \in [Locks -> LockThreads \cup {NoHolder}]
  /\ calls \in [LockThreads -> Seq(LockCalls)]
  /\ lock_over \in BOOLEAN

(* What a thread is in, and what it holds because of it. *)
OuterSuspended(t) ==
  \A k \in DOMAIN calls[t] : k < Len(calls[t]) => Suspended(calls[t][k])
HoldsByCalls(t) ==
  \A l \in Locks :
    holder[l] = t <=> \E k \in DOMAIN calls[t] : HeldBy(calls[t][k], l)
HoldsOnce(t) ==
  \A k, m \in DOMAIN calls[t] : \A l \in Locks :
    HeldBy(calls[t][k], l) /\ HeldBy(calls[t][m], l) => k = m
ExitOnce(t) ==
  \A k \in DOMAIN calls[t] : calls[t][k].op = "exit" =>
    lock_over /\ \A m \in DOMAIN calls[t] : calls[t][m].op = "exit" => k = m

LockInv ==
  /\ LockTypeOK
  /\ \A t \in LockThreads :
       OuterSuspended(t) /\ HoldsByCalls(t) /\ HoldsOnce(t) /\ ExitOnce(t)

(* What a step of an entry point does to what its call holds: __dlapi_open *)
(* and the others release what they hold, each lock once, and ask for the  *)
(* locks in one order.                                                     *)
StepRight(op, i) ==
  LET s == Steps(op)[i]
      goesOn == i + 1 \in 1..Len(HeldDuring(op))
  IN /\ i <= Len(Steps(op)) =>
          /\ s.do \in {"lock", "unlock", "program"}
          /\ s.do = "program" =>
               goesOn /\ SuspendedAt(op, i + 1) /\ HeldAt(op, i + 1) = HeldAt(op, i)
          /\ s.do = "lock" =>
               /\ s.lock \in Locks
               /\ s.lock \notin HeldAt(op, i) =>
                    goesOn /\ HeldAt(op, i + 1) = HeldAt(op, i) \cup {s.lock}
               /\ \A m \in HeldAt(op, i) :
                    \/ LockOrder(m) < LockOrder(s.lock)
                    \/ op = "next" /\ m = s.lock
               /\ s.lock = "storage" => op \in {"open", "create", "join", "exit"}
          /\ s.do = "unlock" =>
               /\ s.lock \in Locks /\ s.lock \in HeldAt(op, i)
               /\ goesOn /\ HeldAt(op, i + 1) = HeldAt(op, i) \ {s.lock}
     /\ i > Len(Steps(op)) => HeldAt(op, i) = {}

(* The call one step further. *)
Onward(c) == [c EXCEPT !.at = @ + 1]

LEMMA OnwardField ==
  ASSUME NEW c \in [op : Ops, at : Nat]
  PROVE  /\ Onward(c) \in [op : Ops, at : Nat]
         /\ Onward(c).op = c.op /\ Onward(c).at = c.at + 1
BY SMTT(30) DEF Onward

LEMMA LockOrders ==
  LockOrder("storage") = 1 /\ LockOrder("objects") = 2 /\ LockOrder("tls") = 3
BY DEF LockOrder

LEMMA OpenStepsRight == \A i \in 1..Len(HeldDuring("open")) : StepRight("open", i)
<1>1. Len(HeldDuring("open")) = 14
  BY DEF HeldDuring
<1>2. \A i \in 1..4 : StepRight("open", i)
  BY SMTT(30), LockOrders
     DEF StepRight, HeldAt, HeldDuring, Steps, OpenSteps, L, U, Program, Locks, SuspendedAt
<1>3. \A i \in 5..9 : StepRight("open", i)
  BY SMTT(30), LockOrders
     DEF StepRight, HeldAt, HeldDuring, Steps, OpenSteps, L, U, Program, Locks, SuspendedAt
<1>4. \A i \in 10..12 : StepRight("open", i)
  BY SMTT(30), LockOrders
     DEF StepRight, HeldAt, HeldDuring, Steps, OpenSteps, L, U, Program, Locks, SuspendedAt
<1>5. StepRight("open", 13)
  BY SMTT(30), LockOrders
     DEF StepRight, HeldAt, HeldDuring, Steps, OpenSteps, L, U, Program, Locks, SuspendedAt
<1>6. StepRight("open", 14)
  BY SMTT(30), LockOrders
     DEF StepRight, HeldAt, HeldDuring, Steps, OpenSteps, L, U, Program, Locks, SuspendedAt
<1> QED
  <2> SUFFICES ASSUME NEW i \in 1..14
               PROVE  StepRight("open", i)
    BY <1>1
  <2>1. i \in 1..4 \/ i \in 5..9 \/ i \in 10..12 \/ i = 13 \/ i = 14
    BY SMTT(30)
  <2> QED
    BY <1>2, <1>3, <1>4, <1>5, <1>6, <2>1

LEMMA SymStepsRight == \A i \in 1..Len(HeldDuring("sym")) : StepRight("sym", i)
<1>1. Len(HeldDuring("sym")) = 3
  BY DEF HeldDuring
<1>2. \A i \in 1..3 : StepRight("sym", i)
  BY SMTT(30), LockOrders
     DEF StepRight, HeldAt, HeldDuring, Steps, Objects, L, U, Program, Locks, SuspendedAt
<1> QED
  BY <1>1, <1>2

LEMMA NextStepsRight == \A i \in 1..Len(HeldDuring("next")) : StepRight("next", i)
<1>1. Len(HeldDuring("next")) = 2
  BY DEF HeldDuring
<1>2. \A i \in 1..2 : StepRight("next", i)
  BY SMTT(30), LockOrders
     DEF StepRight, HeldAt, HeldDuring, Steps, Objects, L, U, Program, Locks, SuspendedAt
<1> QED
  BY <1>1, <1>2

LEMMA AddrStepsRight == \A i \in 1..Len(HeldDuring("addr")) : StepRight("addr", i)
<1>1. Len(HeldDuring("addr")) = 3
  BY DEF HeldDuring
<1>2. \A i \in 1..3 : StepRight("addr", i)
  BY SMTT(30), LockOrders
     DEF StepRight, HeldAt, HeldDuring, Steps, Objects, L, U, Program, Locks, SuspendedAt
<1> QED
  BY <1>1, <1>2

LEMMA IterateStepsRight == \A i \in 1..Len(HeldDuring("iterate")) : StepRight("iterate", i)
<1>1. Len(HeldDuring("iterate")) = 4
  BY DEF HeldDuring
<1>2. \A i \in 1..2 : StepRight("iterate", i)
  BY SMTT(30), LockOrders
     DEF StepRight, HeldAt, HeldDuring, Steps, Objects, L, U, Program, Locks, SuspendedAt
<1>3. StepRight("iterate", 3)
  BY SMTT(30), LockOrders
     DEF StepRight, HeldAt, HeldDuring, Steps, Objects, L, U, Program, Locks, SuspendedAt
<1>4. StepRight("iterate", 4)
  <2>1. Len(Steps("iterate")) = 3 /\ HeldAt("iterate", 4) = {}
    BY DEF Steps, HeldAt, HeldDuring
  <2> QED
    BY SMTT(30), <2>1 DEF StepRight
<1> QED
  <2> SUFFICES ASSUME NEW i \in 1..4
               PROVE  StepRight("iterate", i)
    BY <1>1
  <2>1. i \in 1..2 \/ i = 3 \/ i = 4
    BY SMTT(30)
  <2> QED
    BY <1>2, <1>3, <1>4, <2>1

LEMMA TlsStepsRight == \A i \in 1..Len(HeldDuring("tls")) : StepRight("tls", i)
<1>1. Len(HeldDuring("tls")) = 3
  BY DEF HeldDuring
<1>2. \A i \in 1..3 : StepRight("tls", i)
  BY SMTT(30), LockOrders
     DEF StepRight, HeldAt, HeldDuring, Steps, Objects, L, U, Program, Locks, SuspendedAt
<1> QED
  BY <1>1, <1>2

LEMMA CreateStepsRight == \A i \in 1..Len(HeldDuring("create")) : StepRight("create", i)
<1>1. Len(HeldDuring("create")) = 5
  BY DEF HeldDuring
<1>2. \A i \in 1..5 : StepRight("create", i)
  BY SMTT(30), LockOrders
     DEF StepRight, HeldAt, HeldDuring, Steps, Objects, L, U, Program, Locks, SuspendedAt
<1> QED
  BY <1>1, <1>2

LEMMA JoinStepsRight == \A i \in 1..Len(HeldDuring("join")) : StepRight("join", i)
<1>1. Len(HeldDuring("join")) = 3
  BY DEF HeldDuring
<1>2. \A i \in 1..3 : StepRight("join", i)
  BY SMTT(30), LockOrders
     DEF StepRight, HeldAt, HeldDuring, Steps, Objects, L, U, Program, Locks, SuspendedAt
<1> QED
  BY <1>1, <1>2

LEMMA ExitStepsRight == \A i \in 1..Len(HeldDuring("exit")) : StepRight("exit", i)
<1>1. Len(HeldDuring("exit")) = 6
  BY DEF HeldDuring
<1>2. \A i \in 1..6 : StepRight("exit", i)
  BY SMTT(30), LockOrders
     DEF StepRight, HeldAt, HeldDuring, Steps, Objects, L, U, Program, Locks, SuspendedAt
<1> QED
  BY <1>1, <1>2

(* Every entry point of src/rtld/rtld.cpp that the model has holds to it. *)
LEMMA StepsRight ==
  ASSUME NEW op \in Ops, NEW i \in 1..Len(HeldDuring(op))
  PROVE  StepRight(op, i)
BY OpenStepsRight, SymStepsRight, NextStepsRight, AddrStepsRight, IterateStepsRight,
   TlsStepsRight, CreateStepsRight, JoinStepsRight, ExitStepsRight DEF Ops

(* The same of a call that a thread is in. *)
CallRight(c) ==
  LET s == Steps(c.op)[c.at]
  IN /\ c.at <= Len(Steps(c.op)) =>
          /\ s.do = "program" =>
               /\ Onward(c) \in LockCalls /\ Suspended(Onward(c))
               /\ \A l \in Locks : HeldBy(Onward(c), l) <=> HeldBy(c, l)
          /\ s.do = "lock" =>
               /\ s.lock \in Locks
               /\ ~HeldBy(c, s.lock) =>
                    /\ Onward(c) \in LockCalls
                    /\ \A l \in Locks :
                         HeldBy(Onward(c), l) <=> HeldBy(c, l) \/ l = s.lock
               /\ \A l \in Locks :
                    HeldBy(c, l) => \/ LockOrder(l) < LockOrder(s.lock)
                                    \/ c.op = "next" /\ l = s.lock
               /\ s.lock = "storage" => c.op \in {"open", "create", "join", "exit"}
          /\ s.do = "unlock" =>
               /\ s.lock \in Locks /\ HeldBy(c, s.lock)
               /\ Onward(c) \in LockCalls
               /\ \A l \in Locks :
                    HeldBy(Onward(c), l) <=> HeldBy(c, l) /\ l # s.lock
     /\ c.at > Len(Steps(c.op)) => \A l \in Locks : ~HeldBy(c, l)

LEMMA CallsRight ==
  ASSUME NEW c \in LockCalls
  PROVE  CallRight(c)
<1>1. /\ c \in [op : Ops, at : Nat] /\ c.at \in 1..Len(HeldDuring(c.op))
      /\ Onward(c) \in [op : Ops, at : Nat]
      /\ Onward(c).op = c.op /\ Onward(c).at = c.at + 1
  BY OnwardField DEF LockCalls
<1>2. StepRight(c.op, c.at)
  BY <1>1, StepsRight
<1>3. c.at + 1 \in 1..Len(HeldDuring(c.op)) => Onward(c) \in LockCalls
  BY <1>1 DEF LockCalls
<1>4. Suspended(Onward(c)) <=> SuspendedAt(c.op, c.at + 1)
  BY <1>1 DEF Suspended
<1>5. \A l : HeldBy(Onward(c), l) <=> l \in HeldAt(c.op, c.at + 1)
  BY <1>1 DEF HeldBy
<1> QED
  BY <1>2, <1>3, <1>4, <1>5 DEF StepRight, CallRight, HeldBy

LEMMA TopOfStack ==
  ASSUME NEW s \in Seq(LockCalls), s # <<>>
  PROVE  /\ Len(s) \in Nat \ {0} /\ DOMAIN s = 1..Len(s)
         /\ Len(s) \in DOMAIN s /\ s[Len(s)] \in LockCalls
         /\ \A k \in DOMAIN s : k \in 1..Len(s) /\ s[k] \in LockCalls
BY SMTT(30)

LEMMA OuterStack ==
  ASSUME NEW s \in Seq(LockCalls), s # <<>>
  PROVE  /\ OuterCalls(s) \in Seq(LockCalls)
         /\ Len(OuterCalls(s)) = Len(s) - 1 /\ DOMAIN OuterCalls(s) = 1..(Len(s) - 1)
         /\ \A k \in 1..(Len(s) - 1) : OuterCalls(s)[k] = s[k]
<1>1. OuterCalls(s) = [k \in 1..(Len(s) - 1) |-> s[k]]
  BY SMTT(30) DEF OuterCalls
<1>2. \A k \in 1..(Len(s) - 1) : s[k] \in LockCalls
  BY SMTT(30)
<1>3. Len(s) - 1 \in Nat
  BY SMTT(30)
<1> QED
  BY SMTT(30), <1>1, <1>2, <1>3

LEMMA AdvancedStack ==
  ASSUME NEW s \in Seq(LockCalls), s # <<>>, Onward(s[Len(s)]) \in LockCalls
  PROVE  /\ Advanced(s) \in Seq(LockCalls)
         /\ Len(Advanced(s)) = Len(s) /\ DOMAIN Advanced(s) = DOMAIN s
         /\ Advanced(s)[Len(s)] = Onward(s[Len(s)])
         /\ \A k \in DOMAIN s : k # Len(s) => Advanced(s)[k] = s[k]
<1>1. Advanced(s) = [s EXCEPT ![Len(s)] = Onward(s[Len(s)])]
  BY DEF Advanced, Onward
<1>2. Len(s) \in DOMAIN s
  BY TopOfStack
<1> QED
  BY SMTT(30), <1>1, <1>2

LEMMA LockInitInv == LockInit => LockInv
<1> SUFFICES ASSUME LockInit PROVE LockInv
  OBVIOUS
<1>1. LockTypeOK
  <2>1. holder \in [Locks -> LockThreads \cup {NoHolder}]
    BY DEF LockInit
  <2>2. <<>> \in Seq(LockCalls)
    BY SMTT(30)
  <2>3. calls \in [LockThreads -> Seq(LockCalls)]
    BY <2>2 DEF LockInit
  <2> QED
    BY <2>1, <2>3 DEF LockInit, LockTypeOK
<1>2. ASSUME NEW t \in LockThreads
      PROVE  DOMAIN calls[t] = {} /\ \A l \in Locks : holder[l] # t
  BY SMTT(30), <1>2, NoHolderAssumption DEF LockInit
<1> QED
  BY <1>1, <1>2 DEF LockInv, OuterSuspended, HoldsByCalls, HoldsOnce, ExitOnce

(* A step within the call that a thread is in: what it does to the stack. *)
LEMMA LockAdvances ==
  ASSUME LockInv, NEW t \in LockThreads, Active(t), LockAdvance(t),
         Onward(TopCall(t)) \in LockCalls
  PROVE  /\ calls' \in [LockThreads -> Seq(LockCalls)]
         /\ DOMAIN calls'[t] = DOMAIN calls[t] /\ Len(calls'[t]) = Len(calls[t])
         /\ calls'[t][Len(calls[t])] = Onward(calls[t][Len(calls[t])])
         /\ \A k \in DOMAIN calls[t] : k # Len(calls[t]) => calls'[t][k] = calls[t][k]
         /\ \A u \in LockThreads : u # t => calls'[u] = calls[u]
<1>1. calls[t] \in Seq(LockCalls) /\ calls[t] # <<>> /\ calls \in [LockThreads -> Seq(LockCalls)]
  BY DEF LockInv, LockTypeOK, Active
<1>2. calls' = [calls EXCEPT ![t] = Advanced(calls[t])]
  BY DEF LockAdvance
<1> QED
  BY <1>1, <1>2, AdvancedStack DEF TopCall

(* Nothing changes for a thread that makes no step and holds what it held. *)
LEMMA LockOthers ==
  ASSUME NEW u \in LockThreads,
         OuterSuspended(u), HoldsByCalls(u), HoldsOnce(u), ExitOnce(u),
         calls'[u] = calls[u], lock_over => lock_over',
         \A l \in Locks : holder'[l] = u <=> holder[l] = u
  PROVE  OuterSuspended(u)' /\ HoldsByCalls(u)' /\ HoldsOnce(u)' /\ ExitOnce(u)'
<1>1. OuterSuspended(u)'
  BY DEF OuterSuspended
<1>2. HoldsByCalls(u)'
  BY DEF HoldsByCalls
<1>3. HoldsOnce(u)'
  BY DEF HoldsOnce
<1>4. ExitOnce(u)'
  BY DEF ExitOnce
<1> QED
  BY <1>1, <1>2, <1>3, <1>4

(* The top call of a thread that makes a step, and what is known of it. *)
LEMMA TopCallRight ==
  ASSUME LockInv, NEW t \in LockThreads, calls[t] # <<>>
  PROVE  /\ TopCall(t) = calls[t][Len(calls[t])] /\ TopCall(t) \in LockCalls
         /\ CallRight(TopCall(t)) /\ Steps(TopCall(t).op)[TopCall(t).at] = Step(t)
         /\ Len(calls[t]) \in DOMAIN calls[t]
         /\ DOMAIN calls[t] = 1..Len(calls[t]) /\ Len(calls[t]) \in Nat \ {0}
         /\ Active(t) <=> TopCall(t).at <= Len(Steps(TopCall(t).op))
<1>1. calls[t] \in Seq(LockCalls)
  BY DEF LockInv, LockTypeOK
<1>2. TopCall(t) = calls[t][Len(calls[t])] /\ TopCall(t) \in LockCalls
  BY <1>1, TopOfStack DEF TopCall
<1> QED
  BY <1>1, <1>2, TopOfStack, CallsRight DEF Step, Active

LEMMA LockTakeInv ==
  ASSUME LockInv, NEW t \in LockThreads, lock_take(t)
  PROVE  LockInv'
<1> DEFINE c == TopCall(t)  l == Step(t).lock  n == Len(calls[t])
<1>1. /\ Active(t) /\ calls[t] # <<>> /\ Step(t).do = "lock" /\ holder[l] = NoHolder
      /\ holder' = [holder EXCEPT ![l] = t] /\ LockAdvance(t) /\ lock_over' = lock_over
  BY DEF lock_take, Active
<1>2. /\ c = calls[t][n] /\ c \in LockCalls /\ CallRight(c) /\ Steps(c.op)[c.at] = Step(t)
      /\ n \in DOMAIN calls[t] /\ c.at <= Len(Steps(c.op))
      /\ DOMAIN calls[t] = 1..n /\ n \in Nat \ {0}
  BY <1>1, TopCallRight
<1>3. l \in Locks
  BY <1>1, <1>2 DEF CallRight
<1>4. OuterSuspended(t) /\ HoldsByCalls(t) /\ HoldsOnce(t) /\ ExitOnce(t) /\ LockTypeOK
  BY DEF LockInv
<1>5. \A k \in DOMAIN calls[t] : ~HeldBy(calls[t][k], l)
  BY <1>1, <1>3, <1>4, NoHolderAssumption DEF HoldsByCalls
<1>6. /\ Onward(c) \in LockCalls
      /\ \A m \in Locks : HeldBy(Onward(c), m) <=> HeldBy(c, m) \/ m = l
  BY <1>1, <1>2, <1>5 DEF CallRight
<1>7. /\ calls' \in [LockThreads -> Seq(LockCalls)]
      /\ DOMAIN calls'[t] = DOMAIN calls[t] /\ Len(calls'[t]) = n
      /\ calls'[t][n] = Onward(c)
      /\ \A k \in DOMAIN calls[t] : k # n => calls'[t][k] = calls[t][k]
      /\ \A u \in LockThreads : u # t => calls'[u] = calls[u]
  BY <1>1, <1>2, <1>6, LockAdvances
<1>8. holder' \in [Locks -> LockThreads \cup {NoHolder}] /\ holder'[l] = t
      /\ \A m \in Locks : m # l => holder'[m] = holder[m]
  BY <1>1, <1>3, <1>4 DEF LockTypeOK
<1>9. LockTypeOK'
  BY <1>1, <1>4, <1>7, <1>8 DEF LockTypeOK
<1>10. c.op = Onward(c).op
  BY <1>2, OnwardField DEF LockCalls
<1>11. ASSUME NEW u \in LockThreads, u # t
       PROVE  OuterSuspended(u)' /\ HoldsByCalls(u)' /\ HoldsOnce(u)' /\ ExitOnce(u)'
  <2>1. OuterSuspended(u) /\ HoldsByCalls(u) /\ HoldsOnce(u) /\ ExitOnce(u)
    BY DEF LockInv
  <2>2. \A m \in Locks : holder'[m] = u <=> holder[m] = u
    BY <1>1, <1>8, <1>11, NoHolderAssumption
  <2> QED
    BY <1>1, <1>7, <1>11, <2>1, <2>2, LockOthers
<1>12. OuterSuspended(t)'
  BY SMTT(30), <1>2, <1>4, <1>7 DEF OuterSuspended
<1>13. HoldsByCalls(t)'
  BY SMTT(30), <1>2, <1>4, <1>6, <1>7, <1>8 DEF HoldsByCalls
<1>14. HoldsOnce(t)'
  BY SMTT(30), <1>2, <1>4, <1>5, <1>6, <1>7 DEF HoldsOnce
<1>15. ExitOnce(t)'
  BY SMTT(30), <1>1, <1>2, <1>4, <1>7, <1>10 DEF ExitOnce
<1> QED
  BY <1>9, <1>11, <1>12, <1>13, <1>14, <1>15 DEF LockInv

LEMMA LockReleaseInv ==
  ASSUME LockInv, NEW t \in LockThreads, lock_release(t)
  PROVE  LockInv'
<1> DEFINE c == TopCall(t)  l == Step(t).lock  n == Len(calls[t])
<1>1. /\ Active(t) /\ calls[t] # <<>> /\ Step(t).do = "unlock"
      /\ holder' = [holder EXCEPT ![l] = NoHolder] /\ LockAdvance(t) /\ lock_over' = lock_over
  BY DEF lock_release, Active
<1>2. /\ c = calls[t][n] /\ c \in LockCalls /\ CallRight(c) /\ Steps(c.op)[c.at] = Step(t)
      /\ n \in DOMAIN calls[t] /\ c.at <= Len(Steps(c.op))
      /\ DOMAIN calls[t] = 1..n /\ n \in Nat \ {0}
  BY <1>1, TopCallRight
<1>3. l \in Locks /\ HeldBy(c, l)
  BY <1>1, <1>2 DEF CallRight
<1>4. OuterSuspended(t) /\ HoldsByCalls(t) /\ HoldsOnce(t) /\ ExitOnce(t) /\ LockTypeOK
  BY DEF LockInv
<1>5. holder[l] = t /\ \A k \in DOMAIN calls[t] : k # n => ~HeldBy(calls[t][k], l)
  BY SMTT(30), <1>2, <1>3, <1>4 DEF HoldsByCalls, HoldsOnce
<1>6. /\ Onward(c) \in LockCalls
      /\ \A m \in Locks : HeldBy(Onward(c), m) <=> HeldBy(c, m) /\ m # l
  BY <1>1, <1>2, <1>5 DEF CallRight
<1>7. /\ calls' \in [LockThreads -> Seq(LockCalls)]
      /\ DOMAIN calls'[t] = DOMAIN calls[t] /\ Len(calls'[t]) = n
      /\ calls'[t][n] = Onward(c)
      /\ \A k \in DOMAIN calls[t] : k # n => calls'[t][k] = calls[t][k]
      /\ \A u \in LockThreads : u # t => calls'[u] = calls[u]
  BY <1>1, <1>2, <1>6, LockAdvances
<1>8. holder' \in [Locks -> LockThreads \cup {NoHolder}] /\ holder'[l] = NoHolder
      /\ \A m \in Locks : m # l => holder'[m] = holder[m]
  BY <1>1, <1>3, <1>4 DEF LockTypeOK
<1>9. LockTypeOK'
  BY <1>1, <1>4, <1>7, <1>8 DEF LockTypeOK
<1>10. c.op = Onward(c).op
  BY <1>2, OnwardField DEF LockCalls
<1>11. ASSUME NEW u \in LockThreads, u # t
       PROVE  OuterSuspended(u)' /\ HoldsByCalls(u)' /\ HoldsOnce(u)' /\ ExitOnce(u)'
  <2>1. OuterSuspended(u) /\ HoldsByCalls(u) /\ HoldsOnce(u) /\ ExitOnce(u)
    BY DEF LockInv
  <2>2. \A m \in Locks : holder'[m] = u <=> holder[m] = u
    BY <1>5, <1>8, <1>11, NoHolderAssumption
  <2> QED
    BY <1>1, <1>7, <1>11, <2>1, <2>2, LockOthers
<1>12. OuterSuspended(t)'
  BY SMTT(30), <1>2, <1>4, <1>7 DEF OuterSuspended
<1>13. HoldsByCalls(t)'
  <2>1. holder'[l] # t /\ \A k \in DOMAIN calls'[t] : ~HeldBy(calls'[t][k], l)
    BY <1>3, <1>5, <1>6, <1>7, <1>8, NoHolderAssumption
  <2>2. ASSUME NEW m \in Locks, m # l
        PROVE  holder'[m] = t <=> \E k \in DOMAIN calls'[t] : HeldBy(calls'[t][k], m)
    <3>1. \A k \in DOMAIN calls[t] : HeldBy(calls'[t][k], m) <=> HeldBy(calls[t][k], m)
      BY <1>2, <1>6, <1>7, <2>2
    <3> QED
      BY <1>4, <1>7, <1>8, <2>2, <3>1 DEF HoldsByCalls
  <2> QED
    BY <2>1, <2>2 DEF HoldsByCalls
<1>14. HoldsOnce(t)'
  <2>1. \A k \in DOMAIN calls[t], m \in Locks : HeldBy(calls'[t][k], m) => HeldBy(calls[t][k], m)
    BY <1>2, <1>6, <1>7
  <2> QED
    BY <1>4, <1>7, <2>1 DEF HoldsOnce
<1>15. ExitOnce(t)'
  BY SMTT(30), <1>1, <1>2, <1>4, <1>7, <1>10 DEF ExitOnce
<1> QED
  BY <1>9, <1>11, <1>12, <1>13, <1>14, <1>15 DEF LockInv

LEMMA LockProgramInv ==
  ASSUME LockInv, NEW t \in LockThreads, lock_program(t)
  PROVE  LockInv'
<1> DEFINE c == TopCall(t)  n == Len(calls[t])
<1>1. /\ Active(t) /\ calls[t] # <<>> /\ Step(t).do = "program"
      /\ holder' = holder /\ LockAdvance(t) /\ lock_over' = lock_over
  BY DEF lock_program, Active
<1>2. /\ c = calls[t][n] /\ c \in LockCalls /\ CallRight(c) /\ Steps(c.op)[c.at] = Step(t)
      /\ n \in DOMAIN calls[t] /\ c.at <= Len(Steps(c.op))
      /\ DOMAIN calls[t] = 1..n /\ n \in Nat \ {0}
  BY <1>1, TopCallRight
<1>4. OuterSuspended(t) /\ HoldsByCalls(t) /\ HoldsOnce(t) /\ ExitOnce(t) /\ LockTypeOK
  BY DEF LockInv
<1>6. /\ Onward(c) \in LockCalls
      /\ \A m \in Locks : HeldBy(Onward(c), m) <=> HeldBy(c, m)
  BY <1>1, <1>2 DEF CallRight
<1>7. /\ calls' \in [LockThreads -> Seq(LockCalls)]
      /\ DOMAIN calls'[t] = DOMAIN calls[t] /\ Len(calls'[t]) = n
      /\ calls'[t][n] = Onward(c)
      /\ \A k \in DOMAIN calls[t] : k # n => calls'[t][k] = calls[t][k]
      /\ \A u \in LockThreads : u # t => calls'[u] = calls[u]
  BY <1>1, <1>2, <1>6, LockAdvances
<1>9. LockTypeOK'
  BY <1>1, <1>4, <1>7 DEF LockTypeOK
<1>10. c.op = Onward(c).op
  BY <1>2, OnwardField DEF LockCalls
<1>11. ASSUME NEW u \in LockThreads, u # t
       PROVE  OuterSuspended(u)' /\ HoldsByCalls(u)' /\ HoldsOnce(u)' /\ ExitOnce(u)'
  <2>1. OuterSuspended(u) /\ HoldsByCalls(u) /\ HoldsOnce(u) /\ ExitOnce(u)
    BY DEF LockInv
  <2> QED
    BY <1>1, <1>7, <1>11, <2>1, LockOthers
<1>12. OuterSuspended(t)'
  BY SMTT(30), <1>2, <1>4, <1>7 DEF OuterSuspended
<1>13. HoldsByCalls(t)'
  BY SMTT(30), <1>1, <1>2, <1>4, <1>6, <1>7 DEF HoldsByCalls
<1>14. HoldsOnce(t)'
  BY SMTT(30), <1>2, <1>4, <1>6, <1>7 DEF HoldsOnce
<1>15. ExitOnce(t)'
  BY SMTT(30), <1>1, <1>2, <1>4, <1>7, <1>10 DEF ExitOnce
<1> QED
  BY <1>9, <1>11, <1>12, <1>13, <1>14, <1>15 DEF LockInv

LEMMA LockReturnInv ==
  ASSUME LockInv, NEW t \in LockThreads, lock_return(t)
  PROVE  LockInv'
<1> DEFINE c == TopCall(t)  n == Len(calls[t])
<1>1. /\ ~Active(t) /\ calls[t] # <<>>
      /\ holder' = holder /\ calls' = [calls EXCEPT ![t] = OuterCalls(calls[t])]
      /\ lock_over' = lock_over
  BY DEF lock_return
<1>2. /\ c = calls[t][n] /\ c \in LockCalls /\ CallRight(c)
      /\ n \in DOMAIN calls[t] /\ ~(c.at <= Len(Steps(c.op)))
      /\ DOMAIN calls[t] = 1..n /\ n \in Nat \ {0}
  BY <1>1, TopCallRight
<1>3. Len(Steps(c.op)) \in Nat
  <2>1. c.op \in Ops
    BY <1>2 DEF LockCalls
  <2> QED
    BY <2>1 DEF Ops, Steps, OpenSteps, Objects
<1>4. OuterSuspended(t) /\ HoldsByCalls(t) /\ HoldsOnce(t) /\ ExitOnce(t) /\ LockTypeOK
  BY DEF LockInv
<1>5. \A l \in Locks : ~HeldBy(c, l)
  <2>1. c.at \in Nat
    BY <1>2 DEF LockCalls
  <2>2. c.at > Len(Steps(c.op))
    BY SMTT(30), <1>2, <1>3, <2>1
  <2> QED
    BY <1>2, <2>2 DEF CallRight
<1>7. /\ calls' \in [LockThreads -> Seq(LockCalls)]
      /\ DOMAIN calls'[t] = 1..(n - 1) /\ Len(calls'[t]) = n - 1
      /\ \A k \in 1..(n - 1) : calls'[t][k] = calls[t][k]
      /\ \A u \in LockThreads : u # t => calls'[u] = calls[u]
  <2>1. calls[t] \in Seq(LockCalls) /\ calls \in [LockThreads -> Seq(LockCalls)]
    BY <1>4 DEF LockTypeOK
  <2>2. /\ OuterCalls(calls[t]) \in Seq(LockCalls)
        /\ Len(OuterCalls(calls[t])) = n - 1 /\ DOMAIN OuterCalls(calls[t]) = 1..(n - 1)
        /\ \A k \in 1..(n - 1) : OuterCalls(calls[t])[k] = calls[t][k]
    BY <1>1, <2>1, OuterStack
  <2> QED
    BY <1>1, <2>1, <2>2
<1>8. \A k \in 1..(n - 1) : k \in DOMAIN calls[t] /\ k < n
  BY SMTT(30), <1>2
<1>9. LockTypeOK'
  BY <1>1, <1>4, <1>7 DEF LockTypeOK
<1>11. ASSUME NEW u \in LockThreads, u # t
       PROVE  OuterSuspended(u)' /\ HoldsByCalls(u)' /\ HoldsOnce(u)' /\ ExitOnce(u)'
  <2>1. OuterSuspended(u) /\ HoldsByCalls(u) /\ HoldsOnce(u) /\ ExitOnce(u)
    BY DEF LockInv
  <2> QED
    BY <1>1, <1>7, <1>11, <2>1, LockOthers
<1>12. OuterSuspended(t)'
  BY <1>4, <1>7, <1>8 DEF OuterSuspended
<1>13. HoldsByCalls(t)'
  <2> SUFFICES ASSUME NEW l \in Locks
               PROVE  holder[l] = t <=> \E k \in 1..(n - 1) : HeldBy(calls'[t][k], l)
    BY <1>1, <1>7 DEF HoldsByCalls
  <2>1. holder[l] = t <=> \E k \in 1..n : HeldBy(calls[t][k], l)
    BY <1>2, <1>4 DEF HoldsByCalls
  <2>2. ~HeldBy(calls[t][n], l)
    BY <1>2, <1>5
  <2>3. \A k \in 1..n : k = n \/ k \in 1..(n - 1)
    BY SMTT(30), <1>2
  <2>4. \A k \in 1..(n - 1) : k \in 1..n /\ calls'[t][k] = calls[t][k]
    BY SMTT(30), <1>2, <1>7
  <2> QED
    BY <2>1, <2>2, <2>3, <2>4
<1>14. HoldsOnce(t)'
  BY <1>4, <1>7, <1>8 DEF HoldsOnce
<1>15. ExitOnce(t)'
  <2>1. \A k \in DOMAIN calls'[t] : k \in DOMAIN calls[t] /\ calls'[t][k] = calls[t][k]
    BY <1>7, <1>8
  <2> QED
    BY <1>1, <1>4, <2>1 DEF ExitOnce
<1> QED
  BY <1>9, <1>11, <1>12, <1>13, <1>14, <1>15 DEF LockInv

LEMMA FreshCall ==
  ASSUME NEW op \in Ops
  PROVE  /\ [op |-> op, at |-> 1] \in LockCalls
         /\ \A l \in Locks : ~HeldBy([op |-> op, at |-> 1], l)
<1>1. Len(HeldDuring(op)) \in Nat \ {0} /\ HeldDuring(op)[1] = {}
  BY SMTT(30) DEF Ops, HeldDuring
<1>2. [op |-> op, at |-> 1] \in LockCalls
  BY SMTT(30), <1>1 DEF LockCalls
<1> QED
  BY <1>1, <1>2 DEF HeldBy, HeldAt

(* What a suspended call holds. *)
LEMMA SuspendedHolds ==
  ASSUME NEW c, Suspended(c), NEW l, HeldBy(c, l)
  PROVE  \/ c.op = "iterate" /\ l = "objects"
         \/ c.op = "exit" /\ l = "storage"
<1>1. CASE c.op = "open" /\ c.at = 14
  BY SMTT(30), <1>1 DEF HeldBy, HeldAt, HeldDuring
<1>2. CASE c.op = "iterate" /\ c.at = 3
  BY SMTT(30), <1>2 DEF HeldBy, HeldAt, HeldDuring
<1>3. CASE c.op = "exit" /\ c.at = 3
  BY SMTT(30), <1>3 DEF HeldBy, HeldAt, HeldDuring
<1> QED
  BY <1>1, <1>2, <1>3 DEF Suspended, SuspendedAt

(* What a new call does to the stack of its thread: the call that it is    *)
(* made from, if any, is suspended.                                        *)
LEMMA LockCallStack ==
  ASSUME LockInv, NEW t \in LockThreads, NEW op \in Ops, lock_call(t, op)
  PROVE  LET new == Len(calls[t]) + 1
         IN  /\ calls' \in [LockThreads -> Seq(LockCalls)]
             /\ DOMAIN calls'[t] = 1..new /\ Len(calls'[t]) = new
             /\ calls'[t][new] = [op |-> op, at |-> 1]
             /\ DOMAIN calls[t] = 1..Len(calls[t]) /\ Len(calls[t]) \in Nat
             /\ \A k \in DOMAIN calls[t] :
                  /\ calls'[t][k].op = calls[t][k].op
                  /\ Suspended(calls'[t][k])
                  /\ \A l \in Locks : HeldBy(calls'[t][k], l) <=> HeldBy(calls[t][k], l)
             /\ \A u \in LockThreads : u # t => calls'[u] = calls[u]
<1> DEFINE n == Len(calls[t])  call == [op |-> op, at |-> 1]
<1>1. /\ calls[t] \in Seq(LockCalls) /\ calls \in [LockThreads -> Seq(LockCalls)]
      /\ OuterSuspended(t) /\ call \in LockCalls
  BY FreshCall DEF LockInv, LockTypeOK
<1>2. CASE calls[t] = <<>> /\ calls' = [calls EXCEPT ![t] = <<call>>]
  <2>1. <<call>> \in Seq(LockCalls) /\ Len(<<call>>) = 1 /\ <<call>>[1] = call
    BY SMTT(30), <1>1
  <2>2. n = 0 /\ DOMAIN calls[t] = {} /\ DOMAIN <<call>> = 1..1
    BY SMTT(30), <1>2
  <2> QED
    BY SMTT(30), <1>1, <1>2, <2>1, <2>2
<1>3. CASE /\ Active(t) /\ Step(t).do = "program"
           /\ calls' = [calls EXCEPT ![t] = Append(Advanced(calls[t]), call)]
  <2> DEFINE c == TopCall(t)  a == Advanced(calls[t])
  <2>1. calls[t] # <<>>
    BY <1>3 DEF Active
  <2>2. /\ c = calls[t][n] /\ c \in LockCalls /\ CallRight(c) /\ Steps(c.op)[c.at] = Step(t)
        /\ n \in DOMAIN calls[t] /\ c.at <= Len(Steps(c.op))
        /\ DOMAIN calls[t] = 1..n /\ n \in Nat \ {0}
    BY <1>3, <2>1, TopCallRight
  <2>3. /\ Onward(c) \in LockCalls /\ Suspended(Onward(c))
        /\ \A l \in Locks : HeldBy(Onward(c), l) <=> HeldBy(c, l)
    BY <1>3, <2>2 DEF CallRight
  <2>4. Onward(c).op = c.op
    BY <2>2, OnwardField DEF LockCalls
  <2>5. /\ a \in Seq(LockCalls) /\ Len(a) = n /\ DOMAIN a = 1..n
        /\ a[n] = Onward(c) /\ \A k \in 1..n : k # n => a[k] = calls[t][k]
    BY <1>1, <2>1, <2>2, <2>3, AdvancedStack DEF TopCall
  <2>6. /\ Append(a, call) \in Seq(LockCalls) /\ Len(Append(a, call)) = n + 1
        /\ DOMAIN Append(a, call) = 1..(n + 1) /\ Append(a, call)[n + 1] = call
        /\ \A k \in 1..n : Append(a, call)[k] = a[k]
    <3>1. /\ Append(a, call) \in Seq(LockCalls) /\ Len(Append(a, call)) = Len(a) + 1
          /\ \A k \in 1..Len(a) : Append(a, call)[k] = a[k]
          /\ Append(a, call)[Len(a) + 1] = call
      BY SMTT(30), <1>1, <2>5
    <3>2. DOMAIN Append(a, call) = 1..(n + 1)
      BY SMTT(30), <2>5, <3>1
    <3> QED
      BY <2>5, <3>1, <3>2
  <2>7. calls'[t] = Append(a, call) /\ calls' \in [LockThreads -> Seq(LockCalls)]
        /\ \A u \in LockThreads : u # t => calls'[u] = calls[u]
    BY <1>1, <1>3, <2>6
  <2>8. ASSUME NEW k \in DOMAIN calls[t]
        PROVE  /\ calls'[t][k].op = calls[t][k].op
               /\ Suspended(calls'[t][k])
               /\ \A l \in Locks : HeldBy(calls'[t][k], l) <=> HeldBy(calls[t][k], l)
    <3>1. CASE k = n
      BY SMTT(30), <2>2, <2>3, <2>4, <2>5, <2>6, <2>7, <3>1
    <3>2. CASE k # n
      <4>1. calls'[t][k] = calls[t][k] /\ k < n
        BY SMTT(30), <2>2, <2>5, <2>6, <2>7, <3>2
      <4> QED
        BY <1>1, <4>1 DEF OuterSuspended
    <3> QED
      BY <3>1, <3>2
  <2> QED
    BY <2>2, <2>6, <2>7, <2>8
<1> QED
  BY <1>2, <1>3 DEF lock_call

LEMMA LockCallInv ==
  ASSUME LockInv, NEW t \in LockThreads, NEW op \in Ops, lock_call(t, op)
  PROVE  LockInv'
<1> DEFINE n == Len(calls[t])  call == [op |-> op, at |-> 1]
<1>1. /\ holder' = holder /\ lock_over' = (lock_over \/ op = "exit")
      /\ op = "exit" => ~lock_over
  BY DEF lock_call
<1>2. /\ calls' \in [LockThreads -> Seq(LockCalls)]
      /\ DOMAIN calls'[t] = 1..(n + 1) /\ Len(calls'[t]) = n + 1
      /\ calls'[t][n + 1] = call
      /\ DOMAIN calls[t] = 1..n /\ n \in Nat
      /\ \A k \in 1..n : /\ calls'[t][k].op = calls[t][k].op
                         /\ Suspended(calls'[t][k])
                         /\ \A l \in Locks : HeldBy(calls'[t][k], l) <=> HeldBy(calls[t][k], l)
      /\ \A u \in LockThreads : u # t => calls'[u] = calls[u]
  BY LockCallStack
<1>3. \A l \in Locks : ~HeldBy(call, l)
  BY FreshCall
<1>4. OuterSuspended(t) /\ HoldsByCalls(t) /\ HoldsOnce(t) /\ ExitOnce(t) /\ LockTypeOK
  BY DEF LockInv
<1>5. \A k \in 1..(n + 1) : k \in 1..n \/ k = n + 1
  BY SMTT(30), <1>2
<1>6. n + 1 \in 1..(n + 1) /\ \A k \in 1..n : k \in 1..(n + 1) /\ k # n + 1
  BY SMTT(30), <1>2
<1>9. LockTypeOK'
  BY <1>1, <1>2, <1>4 DEF LockTypeOK
<1>11. ASSUME NEW u \in LockThreads, u # t
       PROVE  OuterSuspended(u)' /\ HoldsByCalls(u)' /\ HoldsOnce(u)' /\ ExitOnce(u)'
  <2>1. OuterSuspended(u) /\ HoldsByCalls(u) /\ HoldsOnce(u) /\ ExitOnce(u)
    BY DEF LockInv
  <2> QED
    BY <1>1, <1>2, <1>11, <2>1, LockOthers
<1>12. OuterSuspended(t)'
  <2> SUFFICES ASSUME NEW k \in 1..(n + 1), k < n + 1
               PROVE  Suspended(calls'[t][k])
    BY <1>2 DEF OuterSuspended, Suspended
  <2> QED
    BY SMTT(30), <1>2, <1>5
<1>13. HoldsByCalls(t)'
  <2> SUFFICES ASSUME NEW l \in Locks
               PROVE  holder[l] = t <=> \E k \in 1..(n + 1) : HeldBy(calls'[t][k], l)
    BY <1>1, <1>2 DEF HoldsByCalls
  <2>1. holder[l] = t <=> \E k \in 1..n : HeldBy(calls[t][k], l)
    BY <1>2, <1>4 DEF HoldsByCalls
  <2>2. ~HeldBy(calls'[t][n + 1], l)
    BY <1>2, <1>3
  <2>3. \A k \in 1..n : HeldBy(calls'[t][k], l) <=> HeldBy(calls[t][k], l)
    BY <1>2
  <2> QED
    BY <1>5, <1>6, <2>1, <2>2, <2>3
<1>14. HoldsOnce(t)'
  BY SMTT(30), <1>2, <1>3, <1>4, <1>5 DEF HoldsOnce
<1>15. ExitOnce(t)'
  <2>1. call.op = op
    OBVIOUS
  <2>2. CASE op = "exit"
    BY <1>1, <1>2, <1>4, <1>5, <2>1, <2>2 DEF ExitOnce
  <2>3. CASE op # "exit"
    BY <1>1, <1>2, <1>4, <1>5, <2>1, <2>3 DEF ExitOnce
  <2> QED
    BY <2>2, <2>3
<1> QED
  BY <1>9, <1>11, <1>12, <1>13, <1>14, <1>15 DEF LockInv

LEMMA LockNextInv == LockInv /\ [LockNext]_lockVars => LockInv'
<1> SUFFICES ASSUME LockInv, [LockNext]_lockVars PROVE LockInv'
  OBVIOUS
<1>1. CASE UNCHANGED lockVars
  <2>1. holder' = holder /\ calls' = calls /\ lock_over' = lock_over
    BY <1>1 DEF lockVars
  <2> QED
    BY SMTT(30), <2>1 DEF LockInv, LockTypeOK, OuterSuspended, HoldsByCalls, HoldsOnce, ExitOnce
<1>2. CASE LockNext
  <2>1. PICK t \in LockThreads : LockStep(t) \/ \E op \in Ops : lock_call(t, op)
    BY <1>2 DEF LockNext
  <2> QED
    BY <2>1, LockTakeInv, LockReleaseInv, LockProgramInv, LockReturnInv, LockCallInv
       DEF LockStep
<1> QED
  BY <1>1, <1>2

(* A thread that waits for a lock holds only locks that come before it,    *)
(* but for the one that it waits for, unless it called from a callback of  *)
(* dl_iterate_phdr.                                                        *)
LEMMA WaitsUpward ==
  ASSUME LockInv, NEW t \in LockThreads, Waits(t), ~FromCallback(t),
         NEW l \in Locks, holder[l] = t
  PROVE  \/ LockOrder(l) < LockOrder(Step(t).lock)
         \/ l = Step(t).lock
<1> DEFINE c == TopCall(t)  n == Len(calls[t])
<1>1. Active(t) /\ calls[t] # <<>> /\ Step(t).do = "lock"
  BY DEF Waits, Active
<1>2. /\ c = calls[t][n] /\ c \in LockCalls /\ CallRight(c) /\ Steps(c.op)[c.at] = Step(t)
      /\ n \in DOMAIN calls[t] /\ c.at <= Len(Steps(c.op))
      /\ DOMAIN calls[t] = 1..n /\ n \in Nat \ {0}
  BY <1>1, TopCallRight
<1>3. Step(t).lock \in Locks
  BY <1>1, <1>2 DEF CallRight
<1>4. PICK k \in DOMAIN calls[t] : HeldBy(calls[t][k], l)
  BY DEF LockInv, HoldsByCalls
<1>5. CASE k = n
  BY <1>1, <1>2, <1>4, <1>5 DEF CallRight
<1>6. CASE k # n
  <2>1. k < n /\ n > 1
    BY SMTT(30), <1>2, <1>6
  <2>2. Suspended(calls[t][k])
    BY <2>1 DEF LockInv, OuterSuspended
  <2>3. calls[t][k].op # "iterate"
    BY <2>1 DEF FromCallback, Inside
  <2>4. l = "storage"
    BY <1>4, <2>2, <2>3, SuspendedHolds
  <2> QED
    BY SMTT(30), <1>3, <2>4 DEF LockOrder, Locks
<1> QED
  BY <1>5, <1>6

LEMMA LockedInOrder == LockInv => LocksOrdered
<1> SUFFICES ASSUME LockInv, \A u \in LockThreads : ~FromCallback(u),
                    NEW S \in (SUBSET LockThreads) \ {{}}
             PROVE  \E t \in S : Waits(t) => WaitsFor(t) \notin S \ {t}
  BY DEF LocksOrdered
<1> SUFFICES ASSUME ~\E t \in S : Waits(t) => WaitsFor(t) \notin S \ {t}
             PROVE  FALSE
  OBVIOUS
<1>0. S \in SUBSET LockThreads /\ S # {} /\ \A t \in S : Waits(t) /\ WaitsFor(t) \in S \ {t}
  <2>1. ASSUME NEW t \in S
        PROVE  Waits(t) /\ WaitsFor(t) \in S \ {t}
    <3>1. ~(Waits(t) => WaitsFor(t) \notin S \ {t})
      OBVIOUS
    <3> QED
      BY <3>1 DEF Waits
  <2>2. S \in SUBSET LockThreads /\ S # {}
    OBVIOUS
  <2> QED
    BY <2>1, <2>2
<1>1. ASSUME NEW t \in S
      PROVE  Step(t).lock \in Locks
  <2>1. Active(t) /\ calls[t] # <<>> /\ Step(t).do = "lock"
    BY <1>0 DEF Waits, Active
  <2> QED
    BY <1>0, <2>1, TopCallRight DEF CallRight
<1>2. ASSUME NEW t \in S
      PROVE  LockOrder(Step(t).lock) < LockOrder(Step(WaitsFor(t)).lock)
  <2> DEFINE u == WaitsFor(t)
  <2>1. u \in S /\ u # t /\ holder[Step(t).lock] = u
    BY <1>0 DEF WaitsFor
  <2>2. \/ LockOrder(Step(t).lock) < LockOrder(Step(u).lock)
        \/ Step(t).lock = Step(u).lock
    BY <1>0, <1>1, <2>1, WaitsUpward
  <2>3. WaitsFor(u) # u
    BY <1>0, <2>1
  <2>4. Step(t).lock # Step(u).lock
    BY <2>1, <2>3 DEF WaitsFor
  <2> QED
    BY <2>2, <2>4
<1>3. \A t \in S : WaitsFor(t) \in S
  BY <1>0
<1>4. \A t \in S : LockOrder(Step(t).lock) \in 1..3
  BY SMTT(30), <1>1 DEF LockOrder, Locks
<1>5. \A t \in S : LockOrder(Step(t).lock) \in 1..2
  BY SMTT(30), <1>2, <1>3, <1>4
<1>6. \A t \in S : LockOrder(Step(t).lock) = 1
  BY SMTT(30), <1>2, <1>3, <1>5
<1> QED
  BY SMTT(30), <1>0, <1>2, <1>3, <1>6

LEMMA WaitsForItself == LockInv => SelfWaits
<1> SUFFICES ASSUME LockInv, NEW t \in LockThreads, Stuck(t)
             PROVE  \/ TopCall(t).op = "next"
                    \/ Inside(t, "iterate") /\ Step(t).lock = "objects"
                    \/ /\ Inside(t, "exit") /\ Step(t).lock = "storage"
                       /\ TopCall(t).op \in {"open", "create", "join"}
  BY DEF SelfWaits
<1> DEFINE c == TopCall(t)  n == Len(calls[t])  l == Step(t).lock
<1>1. Active(t) /\ calls[t] # <<>> /\ Step(t).do = "lock" /\ holder[l] = t
  BY DEF Stuck, Waits, WaitsFor, Active
<1>2. /\ c = calls[t][n] /\ c \in LockCalls /\ CallRight(c) /\ Steps(c.op)[c.at] = Step(t)
      /\ n \in DOMAIN calls[t] /\ c.at <= Len(Steps(c.op))
      /\ DOMAIN calls[t] = 1..n /\ n \in Nat \ {0}
  BY <1>1, TopCallRight
<1>3. /\ l \in Locks
      /\ l = "storage" => c.op \in {"open", "create", "join", "exit"}
      /\ HeldBy(c, l) => LockOrder(l) < LockOrder(l) \/ c.op = "next"
  BY <1>1, <1>2 DEF CallRight
<1>4. PICK k \in DOMAIN calls[t] : HeldBy(calls[t][k], l)
  BY <1>1, <1>3 DEF LockInv, HoldsByCalls
<1>5. CASE k = n
  <2>1. LockOrder(l) \in Nat
    BY <1>3 DEF LockOrder, Locks
  <2> QED
    BY SMTT(30), <1>2, <1>3, <1>4, <1>5, <2>1
<1>6. CASE k # n
  <2>1. k < n
    BY SMTT(30), <1>2, <1>6
  <2>2. Suspended(calls[t][k])
    BY <2>1 DEF LockInv, OuterSuspended
  <2>3. \/ calls[t][k].op = "iterate" /\ l = "objects"
        \/ calls[t][k].op = "exit" /\ l = "storage"
    BY <1>4, <2>2, SuspendedHolds
  <2>4. calls[t][k].op = "exit" => c.op # "exit"
    BY <1>2, <1>6 DEF LockInv, ExitOnce
  <2> QED
    BY <1>3, <2>3, <2>4 DEF Inside
<1> QED
  BY <1>5, <1>6

(* No set of threads of any size waits in a circle for the loader's locks, *)
(* however deep its calls nest, unless one of them called from a callback  *)
(* of dl_iterate_phdr; and a thread waits for a lock that it holds only in *)
(* the three places that __dlapi_get_sym, __dlapi_iterate_phdr and         *)
(* __dlapi_exit have.                                                      *)
THEOREM LockOrderSafe == LockSpec => []LocksGiveWay
<1>1. LockInv => LocksGiveWay
  BY LockedInOrder, WaitsForItself DEF LocksGiveWay
<1> QED
  BY <1>1, LockInitInv, LockNextInv, PTL DEF LockSpec

------------------------------------------------------------------------------
(* Relocation. *)

(* The stages after which an object has been relocated, and has been       *)
(* relocated late.                                                         *)
AfterFirst(o) ==
  {"late_exe", "late_lib", "libc_again", "late_libc", "relocated"}
    \cup (IF o \in {"exe", "libc"} THEN {"lib"} ELSE {})
    \cup (IF o = "libc" THEN {"exe"} ELSE {})

AfterLate(o) ==
  IF o = "libc" THEN {"relocated"}
  ELSE {"libc_again", "late_libc", "relocated"} \cup (IF o = "exe" THEN {"late_lib"} ELSE {})

AllStages == {"mapped", "exe", "panic"} \cup AfterFirst("exe")

RelocTypeOK ==
  /\ stage \in AllStages
  /\ tables \in [RelocObjects -> [Words -> Entries \cup Copies]]
  /\ \A w \in Words : /\ tables["libc"][w] \in Entries /\ tables["libc"][w].sym # 3
                      /\ tables["lib"][w] \in Entries
  /\ bind \in [RelocObjects -> [Symbols -> {"no", "weak", "strong"}]]
  /\ \A y \in {1, 2} : bind["libc"][y] # "no"
  /\ \A w \in Words : tables["exe"][w].type = "copy" => bind["exe"][tables["exe"][w].sym] # "no"
  /\ \A o \in RelocObjects : memory[o] = [w \in Words |-> memory[o][w]]
  /\ memory = [o \in RelocObjects |-> memory[o]]

(* The definition the entries of o were resolved with last. *)
ResolvedTo(o, y) ==
  IF o = "libc" /\ stage \notin {"late_libc", "relocated"} THEN OwnDefiner(o, y) ELSE Definer(o, y)

(* Every word holds what was linked into it or, from the moment it is      *)
(* relocated, what its entry asks for.                                     *)
WordRight(o, w) ==
  LET e == tables[o][w]
  IN  /\ Early(e) =>
           memory[o][w] = IF stage \in AfterFirst(o)
                            THEN Relocated(o, e, Addend(w), ResolvedTo(o, e.sym))
                            ELSE Linked(e, w)
      /\ ~Early(e) /\ e.type # "copy" =>
           memory[o][w] = IF Late(e) /\ stage \in AfterLate(o) THEN Base[o] + Addend(w) + 500
                            ELSE Linked(e, w)

(* The addends of the words met are where the second pass finds them. *)
AddendsSaved ==
  stage \notin {"mapped", "panic"} =>
    \A w \in SavedWords : saved[SavedIndex(w)] = Addend(w)

(* What CopiesCurrent says holds from the late relocation of the           *)
(* executable on.                                                          *)
CopyInv ==
  stage \in AfterLate("exe") =>
    \A w \in Words :
      tables["exe"][w].type = "copy" =>
        LET y == tables["exe"][w].sym
            d == Definer("exe", y)
        IN  \/ d # "exe" /\ memory["exe"][w] = memory[d][y]
            \/ d = "libc" /\ Interposed(y)
            \/ d # "exe" /\ Late(tables[d][y])
            \/ d = "exe" /\ bind["exe"][y] = "strong"

WordsInv == stage # "panic" => \A o \in RelocObjects, w \in Words : WordRight(o, w)

RelocInv ==
  /\ RelocTypeOK /\ AddendsSaved /\ CopyInv /\ PanicsOnlyFor /\ WordsInv

-----------------------------------------------------------------------------
(* The search for a symbol *)

LEMMA FirstBoundFound ==
  ASSUME NEW o \in RelocObjects, NEW y \in Symbols, NEW b
  PROVE  IF \E p \in RelocObjects : bind[p][y] = b
           THEN /\ FirstBound(o, y, b) \in RelocObjects /\ bind[FirstBound(o, y, b)][y] = b
                /\ \A q \in RelocObjects : bind[q][y] = b => Turn(o, FirstBound(o, y, b)) <= Turn(o, q)
           ELSE FirstBound(o, y, b) = NoObject
<1> DEFINE s == {p \in RelocObjects : bind[p][y] = b}
<1>1. CASE s # {}
  <2>1. \A p \in RelocObjects : Turn(o, p) \in 1..4
    BY SMTT(30) DEF Turn, GlobalScope, RelocObjects
  <2>2. \E p \in s : \A q \in s : Turn(o, p) <= Turn(o, q)
    <3>1. PICK p1 \in s : TRUE
      BY <1>1
    <3>2. s \subseteq {"exe", "lib", "libc"}
      BY DEF RelocObjects
    <3> HIDE DEF s
    <3>3. \A p \in s : Turn(o, p) \in Int
      BY SMTT(30), <2>1, <3>2 DEF RelocObjects
    <3> QED
      BY SMTT(30), <3>1, <3>2, <3>3
  <2>3. FirstBound(o, y, b) = CHOOSE p \in s : \A q \in s : Turn(o, p) <= Turn(o, q)
    BY <1>1 DEF FirstBound
  <2>4. /\ FirstBound(o, y, b) \in s
        /\ \A q \in s : Turn(o, FirstBound(o, y, b)) <= Turn(o, q)
    BY <2>2, <2>3
  <2> QED
    BY <2>4
<1>2. CASE s = {}
  BY <1>2 DEF FirstBound
<1> QED
  BY <1>1, <1>2

(* A symbol has no definition only when no object defines it. *)
LEMMA DefinerFound ==
  ASSUME RelocTypeOK, NEW o \in RelocObjects, NEW y \in Symbols
  PROVE  IF \E p \in RelocObjects : bind[p][y] # "no"
           THEN /\ Definer(o, y) \in RelocObjects /\ Definer(o, y) # NoObject
                /\ bind[Definer(o, y)][y] # "no"
           ELSE Definer(o, y) = NoObject
<1>1. y # NoSymbol
  BY SMTT(30) DEF Symbols, NoSymbol
<1>2. \A p \in RelocObjects : bind[p][y] \in {"no", "weak", "strong"} /\ p # NoObject
  BY DEF RelocTypeOK, RelocObjects, NoObject
<1> QED
  BY SMTT(30), <1>1, <1>2, FirstBoundFound DEF Definer

(* The executable's own definition of what it copies is taken only when it *)
(* is a strong one.                                                        *)
LEMMA CopyDefiner ==
  ASSUME RelocTypeOK, NEW y \in {1, 2}, bind["exe"][y] # "no"
  PROVE  /\ Definer("exe", y) \in RelocObjects
         /\ Definer("exe", y) = "exe" => bind["exe"][y] = "strong"
<1>1. "exe" \in RelocObjects /\ "libc" \in RelocObjects /\ y \in Symbols /\ y # NoSymbol
  BY SMTT(30) DEF RelocObjects, Symbols, NoSymbol
<1>2. Definer("exe", y) \in RelocObjects
  BY <1>1, DefinerFound
<1>3. ASSUME Definer("exe", y) = "exe", bind["exe"][y] # "strong"
      PROVE  FALSE
  <2>1. bind["exe"][y] = "weak" /\ bind["libc"][y] \in {"weak", "strong"}
    BY SMTT(30), <1>1, <1>3 DEF RelocTypeOK
  <2>2. CASE \E p \in RelocObjects : bind[p][y] = "strong"
    <3>1. /\ FirstBound("exe", y, "strong") \in RelocObjects
          /\ bind[FirstBound("exe", y, "strong")][y] = "strong"
      BY SMTT(30), <1>1, <2>2, FirstBoundFound
    <3>2. FirstBound("exe", y, "strong") # NoObject
      BY <3>1 DEF RelocObjects, NoObject
    <3> QED
      BY <1>1, <1>3, <3>1, <3>2 DEF Definer
  <2>3. CASE ~ \E p \in RelocObjects : bind[p][y] = "strong"
    <3>1. FirstBound("exe", y, "strong") = NoObject
      BY <1>1, <2>3, FirstBoundFound
    <3>2. FirstBound("exe", y, "weak") = "exe" /\ bind["libc"][y] = "weak"
      BY <1>1, <1>3, <2>1, <2>3, <3>1 DEF Definer
    <3>3. Turn("exe", "exe") <= Turn("exe", "libc")
      BY <1>1, <2>1, <3>2, FirstBoundFound
    <3> QED
      BY SMTT(30), <3>3 DEF Turn, GlobalScope
  <2> QED
    BY <2>2, <2>3
<1> QED
  BY <1>2, <1>3

-----------------------------------------------------------------------------
(* The saved addends *)

(* Two words are saved in two places. *)
LEMMA IndexOnce ==
  ASSUME RelocTypeOK, NEW v \in SavedWords, NEW w \in SavedWords,
         SavedIndex(v) = SavedIndex(w)
  PROVE  v = w
<1> DEFINE form(u) == tables["libc"][u].form
<1>1. IsFiniteSet(SavedWords) /\ SavedWords \subseteq Nat
  <2>1. IsFiniteSet(Words) /\ SavedWords \subseteq Words /\ Words \subseteq Nat
    BY SMTT(30), RelocConstants, FS_Interval DEF Words, SavedWords
  <2> QED
    BY <2>1, FS_Subset
<1>2. \A u \in SavedWords : form(u) \in {"rel", "jmprel"}
  BY DEF SavedWords
<1>3. \A u \in SavedWords :
        Met(u) = {x \in SavedWords : IF form(x) = form(u) THEN x <= u ELSE form(x) = "rel"}
  BY DEF Met
<1> HIDE DEF form
<1> DEFINE Before(x, u) == \/ form(x) = form(u) /\ x < u
                           \/ form(x) = "rel" /\ form(u) = "jmprel"
<1>4. \A x, u \in SavedWords : x # u => Before(x, u) \/ Before(u, x)
  BY SMTT(30), <1>1, <1>2
<1>5. ASSUME NEW x \in SavedWords, NEW u \in SavedWords, Before(x, u)
      PROVE  SavedIndex(x) # SavedIndex(u)
  <2>1. u \in Met(u)
    BY SMTT(30), <1>1, <1>3
  <2>2. u \notin Met(x)
    BY SMTT(30), <1>1, <1>3, <1>5
  <2>3. ASSUME NEW z \in Met(x)
        PROVE  z \in Met(u)
    <3>1. z \in SavedWords /\ (IF form(z) = form(x) THEN z <= x ELSE form(z) = "rel")
      BY <1>3
    <3>2. IF form(z) = form(u) THEN z <= u ELSE form(z) = "rel"
      BY SMTT(30), <1>1, <1>2, <1>5, <3>1
    <3> QED
      BY <1>3, <3>1, <3>2
  <2>4. IsFiniteSet(Met(u)) /\ Met(x) # Met(u)
    BY <1>1, <1>3, <2>1, <2>2, FS_Subset
  <2>5. Cardinality(Met(u)) = Cardinality(Met(x)) => Met(u) = Met(x)
    BY <2>4, <2>3, FS_Subset
  <2> QED
    BY <2>4, <2>5 DEF SavedIndex
<1> QED
  BY <1>4, <1>5

LEMMA SavedRight ==
  ASSUME RelocTypeOK, NEW w \in SavedWords
  PROVE  [i \in {SavedIndex(v) : v \in SavedWords} |->
            memory["libc"][CHOOSE v \in SavedWords : SavedIndex(v) = i]][SavedIndex(w)]
           = memory["libc"][w]
<1>1. (CHOOSE v \in SavedWords : SavedIndex(v) = SavedIndex(w)) = w
  BY IndexOnce
<1> QED
  BY <1>1

-----------------------------------------------------------------------------
(* What a pass stores *)

LEMMA EntryFacts ==
  ASSUME RelocTypeOK, NEW o \in RelocObjects, NEW w \in Words
  PROVE  LET e == tables[o][w]
         IN  /\ e.sym \in Int /\ (e.sym = NoSymbol \/ e.sym \in Symbols)
             /\ Early(e) => /\ e.form \in {"rela", "rel", "jmprel", "relr"}
                            /\ e.form = "relr" => e.type = "relative" /\ e.sym = NoSymbol
                            /\ e.type \in {"relative", "absolute", "glob_dat"}
             /\ ~Early(e) => \/ e.type = "copy" /\ o = "exe" /\ e.sym \in {1, 2}
                             \/ e.type = "none" /\ e.form = "none"
                             \/ e.type = "irelative" /\ e.form \in {"rela", "rel", "jmprel"}
<1>1. tables[o][w] \in Entries \cup Copies
  BY SMTT(30) DEF RelocTypeOK
<1>2. o # "exe" => tables[o][w] \in Entries
  BY DEF RelocTypeOK, RelocObjects
<1> QED
  BY SMTT(30), <1>1, <1>2 DEF Entries, Copies, Early, Late, NoSymbol, Symbols

LEMMA FirstPassRight ==
  ASSUME RelocTypeOK, NEW o \in RelocObjects, NEW w \in Words,
         memory[o][w] = Linked(tables[o][w], w), Early(tables[o][w])
  PROVE  FirstPass(o)[w] = Relocated(o, tables[o][w], Addend(w), Resolved(o, tables[o][w].sym))
<1> DEFINE e == tables[o][w]
<1>1. FirstPass(o)[w] = IF e.form = "relr" THEN memory[o][w] + Base[o]
                        ELSE Relocated(o, e, IF e.form = "rela" THEN Addend(w) ELSE memory[o][w],
                                       Resolved(o, e.sym))
  BY DEF FirstPass
<1>2. e.form # "rela" => memory[o][w] = Addend(w)
  BY EntryFacts DEF Linked
<1>3. Addend(w) \in Int /\ Base[o] \in Int
  BY SMTT(30), RelocConstants DEF Addend, Base, Words, RelocObjects
<1>4. CASE e.form = "relr"
  <2>1. Relocated(o, e, Addend(w), Resolved(o, e.sym)) = Base[o] + Addend(w)
    BY <1>4, EntryFacts DEF Relocated
  <2> QED
    BY SMTT(30), <1>1, <1>2, <1>3, <1>4, <2>1
<1>5. CASE e.form # "relr"
  BY <1>1, <1>2, <1>5
<1> QED
  BY <1>4, <1>5

(* What does not depend on the stage or on the memory. *)
LEMMA SameTables ==
  ASSUME tables' = tables, bind' = bind
  PROVE  /\ SavedWords' = SavedWords
         /\ \A w : SavedIndex(w)' = SavedIndex(w)
         /\ \A o, y : Definer(o, y)' = Definer(o, y) /\ OwnDefiner(o, y)' = OwnDefiner(o, y)
         /\ \A o, e, a, d : Relocated(o, e, a, d)' = Relocated(o, e, a, d)
         /\ \A w : Interposed(w)' = Interposed(w)
<1>1. SavedWords' = SavedWords
  BY DEF SavedWords
<1>2. \A w : SavedIndex(w)' = SavedIndex(w)
  BY <1>1 DEF SavedIndex, Met
<1>3. \A o, y, b : FirstBound(o, y, b)' = FirstBound(o, y, b)
  BY SMTT(30) DEF FirstBound
<1>4. \A o, y : Definer(o, y)' = Definer(o, y) /\ OwnDefiner(o, y)' = OwnDefiner(o, y)
  BY <1>3 DEF Definer, OwnDefiner
<1>5. \A y : CopyWord(y)' = CopyWord(y)
  BY DEF CopyWord
<1>6. \A o, e, a, d : Relocated(o, e, a, d)' = Relocated(o, e, a, d)
  BY SMTT(30), <1>5 DEF Relocated, Address
<1>7. \A w : Interposed(w)' = Interposed(w)
  BY <1>4 DEF Interposed
<1> QED
  BY <1>1, <1>2, <1>4, <1>6, <1>7

-----------------------------------------------------------------------------
(* The steps *)

LEMMA RelocInitInv == RelocInit => RelocInv
<1> SUFFICES ASSUME RelocInit
             PROVE  RelocInv
  OBVIOUS
<1>1. PICK c \in LibcTables, x \in ExeTables, l \in LibTables,
           b \in {"strong", "weak"}, v \in {"strong", "weak"}, d \in LibBinds :
        LET copied == {x[w].sym : w \in {u \in Words : x[u].type = "copy"}}
        IN  RelocStart([exe |-> x, lib |-> l, libc |-> c],
                       [exe |-> [y \in Symbols |-> IF y \in copied THEN b ELSE "no"],
                        libc |-> [y \in Symbols |-> IF y \in {0, 3} THEN "no" ELSE v],
                        lib |-> d])
  BY DEF RelocInit
<1> DEFINE copied == {x[w].sym : w \in {u \in Words : x[u].type = "copy"}}
<1>2. /\ stage = "mapped"
      /\ tables = [exe |-> x, lib |-> l, libc |-> c]
      /\ memory = [o \in RelocObjects |-> [w \in Words |-> Linked(tables[o][w], w)]]
      /\ bind = [exe |-> [y \in Symbols |-> IF y \in copied THEN b ELSE "no"],
                 libc |-> [y \in Symbols |-> IF y \in {0, 3} THEN "no" ELSE v],
                 lib |-> d]
  BY <1>1 DEF RelocStart
<1>3. /\ c \in [Words -> {e \in Entries : e.sym # 3}] /\ x \in [Words -> Entries \cup Copies]
      /\ l \in [Words -> Entries] /\ d \in [Symbols -> {"no", "weak", "strong"}]
  BY RelocConstants DEF Words, Symbols
<1>4. tables \in [RelocObjects -> [Words -> Entries \cup Copies]]
  BY SMTT(30), <1>2, <1>3 DEF RelocObjects
<1>5. \A w \in Words : /\ tables["libc"][w] \in Entries /\ tables["libc"][w].sym # 3
                       /\ tables["lib"][w] \in Entries
  BY <1>2, <1>3
<1>6. bind \in [RelocObjects -> [Symbols -> {"no", "weak", "strong"}]]
  BY SMTT(30), <1>2, <1>3 DEF RelocObjects
<1>7. \A y \in {1, 2} : bind["libc"][y] # "no"
  BY SMTT(30), <1>2 DEF Symbols
<1>8. \A w \in Words : tables["exe"][w].type = "copy" => bind["exe"][tables["exe"][w].sym] # "no"
  <2> SUFFICES ASSUME NEW w \in Words, x[w].type = "copy"
               PROVE  bind["exe"][x[w].sym] # "no"
    BY <1>2
  <2>1. x[w].sym \in copied
    OBVIOUS
  <2>2. x[w].sym \in Symbols
    BY SMTT(30), <1>3 DEF Entries, Copies, Symbols
  <2> HIDE DEF copied
  <2> QED
    BY <1>2, <2>1, <2>2
<1>9. RelocTypeOK
  <2>1. memory = [o \in RelocObjects |-> memory[o]]
        /\ \A o \in RelocObjects : memory[o] = [w \in Words |-> memory[o][w]]
    BY <1>2
  <2> QED
    BY <1>2, <1>4, <1>5, <1>6, <1>7, <1>8, <2>1 DEF RelocTypeOK, AllStages
<1>10. WordsInv
  BY SMTT(30), <1>2 DEF WordsInv, WordRight, AfterFirst, AfterLate
<1> QED
  BY <1>2, <1>9, <1>10 DEF RelocInv, AddendsSaved, CopyInv, PanicsOnlyFor, AfterLate

(* A pass over object o that goes on to the stage after it. *)
Passed(o, pass, after) ==
  /\ memory' = [memory EXCEPT ![o] = pass] /\ stage' = after
  /\ tables' = tables /\ bind' = bind

LEMMA PassTypes ==
  ASSUME RelocTypeOK, NEW o \in RelocObjects, NEW pass, NEW after \in AllStages,
         Passed(o, pass, after), pass = [w \in Words |-> pass[w]]
  PROVE  /\ RelocTypeOK' /\ memory'[o] = pass
         /\ \A p \in RelocObjects : p # o => memory'[p] = memory[p]
<1>1. /\ memory'[o] = pass /\ memory' = [p \in RelocObjects |-> memory'[p]]
      /\ \A p \in RelocObjects : p # o => memory'[p] = memory[p]
  BY DEF Passed, RelocTypeOK
<1>2. \A p \in RelocObjects : memory'[p] = [w \in Words |-> memory'[p][w]]
  BY <1>1 DEF RelocTypeOK
<1> QED
  BY <1>1, <1>2 DEF RelocTypeOK, Passed

(* A word no pass is at stays right. *)
LEMMA WordStays ==
  ASSUME RelocTypeOK, NEW o \in RelocObjects, NEW w \in Words, WordRight(o, w),
         tables' = tables, bind' = bind, memory'[o][w] = memory[o][w],
         Early(tables[o][w]) =>
           /\ stage \in AfterFirst(o) <=> stage' \in AfterFirst(o)
           /\ o = "libc" => (stage \in {"late_libc", "relocated"}
                               <=> stage' \in {"late_libc", "relocated"}),
         Late(tables[o][w]) => (stage \in AfterLate(o) <=> stage' \in AfterLate(o))
  PROVE  WordRight(o, w)'
<1> DEFINE e == tables[o][w]
<1>1. Early(e) => ResolvedTo(o, e.sym)' = ResolvedTo(o, e.sym)
  BY SameTables DEF ResolvedTo
<1>2. \A d : Relocated(o, e, Addend(w), d)' = Relocated(o, e, Addend(w), d)
  BY SameTables
<1> QED
  BY SMTT(30), <1>1, <1>2 DEF WordRight

(* The first relocation of an object. *)
LEMMA FirstPassWords ==
  ASSUME RelocTypeOK, WordsInv, NEW o \in RelocObjects, NEW after \in AllStages,
         stage # "panic", Passed(o, FirstPass(o), after),
         stage \notin AfterFirst(o), after \in AfterFirst(o),
         stage \notin AfterLate(o), after \notin AfterLate(o),
         o = "libc" => after \notin {"late_libc", "relocated"},
         \A y : Resolved(o, y) = IF o = "libc" THEN OwnDefiner(o, y) ELSE Definer(o, y),
         \A p \in RelocObjects : p # o => /\ stage \in AfterFirst(p) <=> after \in AfterFirst(p)
                                          /\ stage \in AfterLate(p) <=> after \in AfterLate(p),
         {stage, after} \cap {"late_libc", "relocated"} = {}
  PROVE  RelocTypeOK' /\ WordsInv'
<1>1. FirstPass(o) = [w \in Words |-> FirstPass(o)[w]]
  BY DEF FirstPass
<1>2. /\ RelocTypeOK' /\ memory'[o] = FirstPass(o) /\ tables' = tables /\ bind' = bind
      /\ stage' = after
      /\ \A p \in RelocObjects : p # o => memory'[p] = memory[p]
  BY <1>1, PassTypes DEF Passed
<1>3. ASSUME NEW p \in RelocObjects, NEW w \in Words, p # o
      PROVE  WordRight(p, w)'
  BY <1>2, <1>3, WordStays DEF WordsInv
<1>4. ASSUME NEW w \in Words
      PROVE  WordRight(o, w)'
  <2> DEFINE e == tables[o][w]
  <2>1. WordRight(o, w)
    BY DEF WordsInv
  <2>2. CASE ~Early(e)
    <3>1. memory'[o][w] = memory[o][w]
      BY <1>2, <2>2 DEF FirstPass
    <3> QED
      BY <1>2, <2>1, <2>2, <3>1, WordStays
  <2>3. CASE Early(e)
    <3>1. memory[o][w] = Linked(e, w)
      BY <2>1, <2>3 DEF WordRight
    <3>2. memory'[o][w] = Relocated(o, e, Addend(w), Resolved(o, e.sym))
      BY <1>2, <2>3, <3>1, FirstPassRight
    <3>3. ResolvedTo(o, e.sym)' = Resolved(o, e.sym)
      BY <1>2, SameTables DEF ResolvedTo
    <3>4. \A d : Relocated(o, e, Addend(w), d)' = Relocated(o, e, Addend(w), d)
      BY <1>2, SameTables
    <3> QED
      BY <1>2, <2>3, <3>2, <3>3, <3>4 DEF WordRight
  <2> QED
    BY <2>2, <2>3
<1> QED
  BY <1>2, <1>3, <1>4 DEF WordsInv

LEMMA RelocateLibcKeeps ==
  ASSUME RelocInv, relocate_libc
  PROVE  RelocInv'
<1>1. RelocTypeOK /\ WordsInv /\ stage = "mapped" /\ tables' = tables /\ bind' = bind
  BY DEF RelocInv, relocate_libc
<1>2. ~Unresolved("libc")
  <2> SUFFICES ASSUME NEW w \in Words, Early(tables["libc"][w]), tables["libc"][w].sym > 0,
                      OwnDefiner("libc", tables["libc"][w].sym) = NoObject
               PROVE  FALSE
    BY <1>1 DEF Unresolved, Resolved
  <2>1. tables["libc"][w].sym \in {1, 2}
    <3>1. tables["libc"][w] \in Entries /\ tables["libc"][w].sym # 3
      BY <1>1 DEF RelocTypeOK
    <3>2. tables["libc"][w].sym \in -1..3
      BY SMTT(30), <3>1 DEF Entries
    <3> QED
      BY SMTT(30), <3>1, <3>2
  <2>2. bind["libc"][tables["libc"][w].sym] # "no"
    BY <1>1, <2>1 DEF RelocTypeOK
  <2> QED
    BY SMTT(30), <2>1, <2>2 DEF OwnDefiner, NoObject, NoSymbol
<1>3. CASE Cardinality(SavedWords) > MaxSaved
  <2>1. stage' = "panic" /\ memory' = memory
    BY <1>1, <1>3 DEF relocate_libc
  <2>2. RelocTypeOK'
    BY <1>1, <2>1 DEF RelocTypeOK, AllStages
  <2>3. PanicsOnlyFor'
    BY <1>1, <1>3, SameTables DEF PanicsOnlyFor
  <2> QED
    BY <2>1, <2>2, <2>3 DEF RelocInv, AddendsSaved, CopyInv, WordsInv, AfterLate
<1>4. CASE ~(Cardinality(SavedWords) > MaxSaved)
  <2>1. /\ saved' = [i \in {SavedIndex(w) : w \in SavedWords} |->
                       memory["libc"][CHOOSE w \in SavedWords : SavedIndex(w) = i]]
        /\ Passed("libc", FirstPass("libc"), "exe")
    BY <1>1, <1>2, <1>4 DEF relocate_libc, Passed
  <2>2. stage' = "exe" /\ "libc" \in RelocObjects
    BY <2>1 DEF Passed, RelocObjects
  <2>3. RelocTypeOK' /\ WordsInv'
    BY <1>1, <2>1, <2>2, FirstPassWords
       DEF AfterFirst, AfterLate, AllStages, Resolved, RelocObjects
  <2>4. AddendsSaved'
    <3>1. ASSUME NEW w \in SavedWords
          PROVE  memory["libc"][w] = Addend(w)
      BY <1>1, <2>2 DEF SavedWords, WordsInv, WordRight, Linked, Early, AfterFirst
    <3>2. \A w \in SavedWords : saved'[SavedIndex(w)] = Addend(w)
      BY <1>1, <2>1, <3>1, SavedRight
    <3> QED
      BY <1>1, <3>2, SameTables DEF AddendsSaved
  <2> QED
    BY <2>2, <2>3, <2>4 DEF RelocInv, CopyInv, PanicsOnlyFor, AfterLate
<1> QED
  BY <1>3, <1>4

(* The saved addends stay where nothing but the stage and the memory       *)
(* change.                                                                 *)
LEMMA SavedStay ==
  ASSUME AddendsSaved, tables' = tables, bind' = bind, saved' = saved,
         stage \notin {"mapped", "panic"}
  PROVE  AddendsSaved'
BY SameTables DEF AddendsSaved

LEMMA RelocateKeeps ==
  ASSUME RelocInv, relocate
  PROVE  RelocInv'
<1>1. PICK o \in {"exe", "lib"} :
        /\ stage = o
        /\ IF Unresolved(o)
             THEN stage' = "panic" /\ UNCHANGED memory
             ELSE /\ memory' = [memory EXCEPT ![o] = FirstPass(o)]
                  /\ stage' = IF o = "exe" THEN "lib" ELSE "late_exe"
        /\ UNCHANGED <<tables, bind, saved>>
  BY DEF relocate
<1>2. RelocTypeOK /\ WordsInv /\ AddendsSaved /\ tables' = tables /\ bind' = bind /\ saved' = saved
  BY <1>1 DEF RelocInv
<1>3. CASE Unresolved(o)
  <2>1. stage' = "panic" /\ memory' = memory
    BY <1>1, <1>3
  <2>2. RelocTypeOK'
    BY <1>2, <2>1 DEF RelocTypeOK, AllStages
  <2>3. PICK w \in Words : /\ Early(tables[o][w]) /\ tables[o][w].sym > 0
                           /\ Definer(o, tables[o][w].sym) = NoObject
    BY <1>1, <1>3 DEF Unresolved, Resolved
  <2>4. tables[o][w].sym \in Symbols /\ o \in RelocObjects
    BY SMTT(30), <1>2, <2>3, EntryFacts DEF RelocObjects, NoSymbol
  <2>5. \A p \in RelocObjects : bind[p][tables[o][w].sym] = "no"
    BY <1>2, <2>3, <2>4, DefinerFound
  <2>6. PanicsOnlyFor'
    BY <1>1, <1>2, <2>3, <2>5 DEF PanicsOnlyFor
  <2> QED
    BY <2>1, <2>2, <2>6 DEF RelocInv, AddendsSaved, CopyInv, WordsInv, AfterLate
<1>4. CASE ~Unresolved(o)
  <2> DEFINE after == IF o = "exe" THEN "lib" ELSE "late_exe"
  <2>1. Passed(o, FirstPass(o), after) /\ stage' = after
    BY <1>1, <1>4 DEF Passed
  <2>2. o \in RelocObjects /\ after \in AllStages
    BY DEF RelocObjects, AllStages, AfterFirst
  <2>3. RelocTypeOK' /\ WordsInv'
    <3>1. stage = o
      BY <1>1
    <3>2. /\ stage \notin AfterFirst(o) /\ after \in AfterFirst(o) /\ o # "libc"
          /\ stage \notin AfterLate(o) /\ after \notin AfterLate(o) /\ stage # "panic"
          /\ {stage, after} \cap {"late_libc", "relocated"} = {}
      BY <3>1 DEF AfterFirst, AfterLate
    <3>3. \A p \in RelocObjects :
            p # o => /\ stage \in AfterFirst(p) <=> after \in AfterFirst(p)
                     /\ stage \in AfterLate(p) <=> after \in AfterLate(p)
      BY SMTT(30), <3>1 DEF AfterFirst, AfterLate, RelocObjects
    <3>4. \A y : Resolved(o, y) = Definer(o, y)
      BY <3>1 DEF Resolved
    <3> HIDE DEF after
    <3> QED
      BY <1>2, <2>1, <2>2, <3>2, <3>3, <3>4, FirstPassWords
  <2>4. AddendsSaved'
    BY <1>1, <1>2, SavedStay
  <2> QED
    BY <2>1, <2>3, <2>4 DEF RelocInv, CopyInv, PanicsOnlyFor, AfterLate
<1> QED
  BY <1>3, <1>4

(* The late relocation of an object. *)
LEMMA LatePassWords ==
  ASSUME RelocTypeOK, WordsInv, NEW o \in RelocObjects, NEW after \in AllStages,
         stage # "panic", Passed(o, LatePass(o), after),
         stage \notin AfterLate(o), after \in AfterLate(o),
         \A p \in RelocObjects : /\ stage \in AfterFirst(p) <=> after \in AfterFirst(p)
                                 /\ p # o => (stage \in AfterLate(p) <=> after \in AfterLate(p)),
         stage \in {"late_libc", "relocated"} <=> after \in {"late_libc", "relocated"}
  PROVE  /\ RelocTypeOK' /\ WordsInv'
         /\ memory'[o] = LatePass(o)
         /\ \A p \in RelocObjects : p # o => memory'[p] = memory[p]
<1>1. LatePass(o) = [w \in Words |-> LatePass(o)[w]]
  BY DEF LatePass
<1>2. /\ RelocTypeOK' /\ memory'[o] = LatePass(o) /\ tables' = tables /\ bind' = bind
      /\ stage' = after
      /\ \A p \in RelocObjects : p # o => memory'[p] = memory[p]
  BY <1>1, PassTypes DEF Passed
<1>3. ASSUME NEW p \in RelocObjects, NEW w \in Words, p # o
      PROVE  WordRight(p, w)'
  BY <1>2, <1>3, WordStays DEF WordsInv
<1>4. ASSUME NEW w \in Words
      PROVE  WordRight(o, w)'
  <2> DEFINE e == tables[o][w]
  <2>1. WordRight(o, w)
    BY DEF WordsInv
  <2>2. CASE ~Late(e)
    <3>1. memory'[o][w] = memory[o][w]
      BY <1>2, <2>2 DEF LatePass
    <3> QED
      BY <1>2, <2>1, <2>2, <3>1, WordStays
  <2>3. CASE Late(e)
    <3>1. ~Early(e)
      BY <2>3 DEF Early
    <3>2. CASE e.type = "copy"
      BY <1>2, <3>1, <3>2 DEF WordRight
    <3>3. CASE e.type # "copy"
      <4>1. e.type = "irelative" /\ e.form \in {"rela", "rel", "jmprel"}
        BY <2>3, <3>1, <3>3, EntryFacts DEF Late
      <4>2. e.form # "rela" => memory[o][w] = Addend(w)
        BY <2>1, <2>3, <3>1, <3>3, <4>1 DEF WordRight, Linked
      <4>3. memory'[o][w] = LateValue(o, w)
        BY <1>2, <2>3 DEF LatePass
      <4>4. LateValue(o, w) = Base[o] + Addend(w) + 500
        BY SMTT(30), <4>1, <4>2 DEF LateValue
      <4> QED
        BY <1>2, <2>3, <3>1, <4>3, <4>4 DEF WordRight
    <3> QED
      BY <3>2, <3>3
  <2> QED
    BY <2>2, <2>3
<1> QED
  BY <1>2, <1>3, <1>4 DEF WordsInv

(* The copies stay right while another object is relocated further. *)
LEMMA CopyStays ==
  ASSUME RelocTypeOK, CopyInv, NEW o \in {"lib", "libc"}, stage \in AfterLate("exe"),
         tables' = tables, bind' = bind,
         \A p \in RelocObjects : p # o => memory'[p] = memory[p],
         \A y \in {1, 2} : Late(tables[o][y]) \/ (o = "libc" /\ Interposed(y))
                             \/ memory'[o][y] = memory[o][y]
  PROVE  CopyInv'
<1> SUFFICES ASSUME NEW w \in Words, tables["exe"][w].type = "copy"
             PROVE  LET y == tables["exe"][w].sym
                        d == Definer("exe", y)
                    IN  \/ d # "exe" /\ memory'["exe"][w] = memory'[d][y]
                        \/ d = "libc" /\ Interposed(y)
                        \/ d # "exe" /\ Late(tables[d][y])
                        \/ d = "exe" /\ bind["exe"][y] = "strong"
  BY SMTT(30), SameTables DEF CopyInv
<1> DEFINE y == tables["exe"][w].sym
           d == Definer("exe", y)
<1>1. "exe" \in RelocObjects /\ y \in {1, 2} /\ bind["exe"][y] # "no"
  BY EntryFacts DEF RelocObjects, Early, Late, RelocTypeOK
<1>2. d \in RelocObjects
  BY <1>1, CopyDefiner
<1>3. \/ d # "exe" /\ memory["exe"][w] = memory[d][y]
      \/ d = "libc" /\ Interposed(y)
      \/ d # "exe" /\ Late(tables[d][y])
      \/ d = "exe" /\ bind["exe"][y] = "strong"
  BY DEF CopyInv
<1>4. memory'["exe"] = memory["exe"]
  BY <1>1
<1> HIDE DEF y, d
<1>5. CASE d # "exe" /\ memory["exe"][w] = memory[d][y]
  <2>1. d = o => Late(tables[d][y]) \/ (d = "libc" /\ Interposed(y)) \/ memory'[d][y] = memory[d][y]
    BY <1>1
  <2>2. d # o => memory'[d][y] = memory[d][y]
    BY <1>2
  <2> QED
    BY <1>4, <1>5, <2>1, <2>2 DEF y, d
<1> QED
  BY <1>3, <1>5 DEF y, d

(* Where a late relocation of o leaves a word as it is. *)
LEMMA LateLeaves ==
  ASSUME NEW o \in RelocObjects, memory'[o] = LatePass(o), NEW y \in {1, 2}
  PROVE  Late(tables[o][y]) \/ memory'[o][y] = memory[o][y]
<1>1. y \in Words
  BY SMTT(30), RelocConstants DEF Words
<1> QED
  BY <1>1 DEF LatePass

LEMMA LateRelocateKeeps ==
  ASSUME RelocInv, late_relocate
  PROVE  RelocInv'
<1>1. RelocTypeOK /\ WordsInv /\ AddendsSaved /\ CopyInv
  BY DEF RelocInv
<1>2. CASE stage = "late_exe"
  <2>1. Passed("exe", LatePass("exe"), "late_lib") /\ saved' = saved /\ stage' = "late_lib"
        /\ tables' = tables /\ bind' = bind
    BY <1>2 DEF late_relocate, Passed
  <2>2. "exe" \in RelocObjects /\ "late_lib" \in AllStages
    BY DEF RelocObjects, AllStages, AfterFirst
  <2>3. /\ \A p \in RelocObjects :
             /\ stage \in AfterFirst(p) <=> "late_lib" \in AfterFirst(p)
             /\ p # "exe" => (stage \in AfterLate(p) <=> "late_lib" \in AfterLate(p))
        /\ stage \notin AfterLate("exe") /\ "late_lib" \in AfterLate("exe")
        /\ stage \in {"late_libc", "relocated"} <=> "late_lib" \in {"late_libc", "relocated"}
    BY <1>2 DEF AfterFirst, AfterLate, RelocObjects
  <2>4. /\ RelocTypeOK' /\ WordsInv' /\ memory'["exe"] = LatePass("exe")
        /\ \A p \in RelocObjects : p # "exe" => memory'[p] = memory[p]
    BY <1>1, <1>2, <2>1, <2>2, <2>3, LatePassWords
  <2>5. CopyInv'
    <3> SUFFICES ASSUME NEW w \in Words, tables["exe"][w].type = "copy"
                 PROVE  LET y == tables["exe"][w].sym
                            d == Definer("exe", y)
                        IN  \/ d # "exe" /\ memory'["exe"][w] = memory'[d][y]
                            \/ d = "exe" /\ bind["exe"][y] = "strong"
      BY <2>1, SameTables DEF CopyInv
    <3> DEFINE y == tables["exe"][w].sym
               d == Definer("exe", y)
    <3>1. y \in {1, 2} /\ bind["exe"][y] # "no"
      BY <1>1, <2>2, EntryFacts DEF Early, Late, RelocTypeOK
    <3>2. d \in RelocObjects /\ (d = "exe" => bind["exe"][y] = "strong")
      BY <1>1, <3>1, CopyDefiner
    <3>3. memory'["exe"][w] = memory[d][IF d = "exe" THEN w ELSE y]
      BY <2>4 DEF LatePass, LateValue, Late
    <3> QED
      BY <2>4, <3>2, <3>3
  <2> QED
    BY <1>1, <1>2, <2>1, <2>4, <2>5, SavedStay DEF RelocInv, PanicsOnlyFor
<1>3. CASE stage = "late_lib"
  <2>1. Passed("lib", LatePass("lib"), "libc_again") /\ saved' = saved /\ stage' = "libc_again"
        /\ tables' = tables /\ bind' = bind
    BY <1>3 DEF late_relocate, Passed
  <2>2. "lib" \in RelocObjects /\ "libc_again" \in AllStages
    BY DEF RelocObjects, AllStages, AfterFirst
  <2>3. /\ \A p \in RelocObjects :
             /\ stage \in AfterFirst(p) <=> "libc_again" \in AfterFirst(p)
             /\ p # "lib" => (stage \in AfterLate(p) <=> "libc_again" \in AfterLate(p))
        /\ stage \notin AfterLate("lib") /\ "libc_again" \in AfterLate("lib")
        /\ stage \in {"late_libc", "relocated"} <=> "libc_again" \in {"late_libc", "relocated"}
        /\ stage \in AfterLate("exe")
    BY <1>3 DEF AfterFirst, AfterLate, RelocObjects
  <2>4. /\ RelocTypeOK' /\ WordsInv' /\ memory'["lib"] = LatePass("lib")
        /\ \A p \in RelocObjects : p # "lib" => memory'[p] = memory[p]
    BY <1>1, <1>3, <2>1, <2>2, <2>3, LatePassWords
  <2>5. CopyInv'
    BY <1>1, <2>1, <2>2, <2>3, <2>4, CopyStays, LateLeaves
  <2> QED
    BY <1>1, <1>3, <2>1, <2>4, <2>5, SavedStay DEF RelocInv, PanicsOnlyFor
<1> QED
  BY <1>2, <1>3 DEF late_relocate

LEMMA LateRelocateLibcKeeps ==
  ASSUME RelocInv, late_relocate_libc
  PROVE  RelocInv'
<1>1. RelocTypeOK /\ WordsInv /\ AddendsSaved /\ CopyInv /\ stage = "late_libc"
  BY DEF RelocInv, late_relocate_libc
<1>2. Passed("libc", LatePass("libc"), "relocated") /\ saved' = saved /\ stage' = "relocated"
      /\ tables' = tables /\ bind' = bind
  BY DEF late_relocate_libc, Passed
<1>3. "libc" \in RelocObjects /\ "relocated" \in AllStages
  BY DEF RelocObjects, AllStages, AfterFirst
<1>4. /\ \A p \in RelocObjects :
           /\ stage \in AfterFirst(p) <=> "relocated" \in AfterFirst(p)
           /\ p # "libc" => (stage \in AfterLate(p) <=> "relocated" \in AfterLate(p))
      /\ stage \notin AfterLate("libc") /\ "relocated" \in AfterLate("libc")
      /\ stage \in {"late_libc", "relocated"} <=> "relocated" \in {"late_libc", "relocated"}
      /\ stage \in AfterLate("exe")
  BY <1>1 DEF AfterFirst, AfterLate, RelocObjects
<1>5. /\ RelocTypeOK' /\ WordsInv' /\ memory'["libc"] = LatePass("libc")
      /\ \A p \in RelocObjects : p # "libc" => memory'[p] = memory[p]
  BY <1>1, <1>2, <1>3, <1>4, LatePassWords
<1>6. CopyInv'
  BY <1>1, <1>2, <1>3, <1>4, <1>5, CopyStays, LateLeaves
<1> QED
  BY <1>1, <1>2, <1>5, <1>6, SavedStay DEF RelocInv, PanicsOnlyFor

(* What the second pass stores in a word of libc: the definition that wins *)
(* now, and the addend of the word -- which is what is there when the      *)
(* definition is still libc's own.                                         *)
LEMMA SecondPassRight ==
  ASSUME RelocTypeOK, AddendsSaved, stage = "libc_again", NEW w \in Words, WordRight("libc", w),
         Early(tables["libc"][w])
  PROVE  /\ SecondPass[w] = Relocated("libc", tables["libc"][w], Addend(w),
                                      Definer("libc", tables["libc"][w].sym))
         /\ ~Interposed(w) => SecondPass[w] = memory["libc"][w]
<1> DEFINE e == tables["libc"][w]
           d == Definer("libc", e.sym)
<1>1. SecondPass[w] = IF e.form = "rela" THEN Relocated("libc", e, Addend(w), d)
                      ELSE IF e.sym = NoSymbol THEN memory["libc"][w]
                      ELSE Relocated("libc", e, saved[SavedIndex(w)], d)
  BY DEF SecondPass
<1>2. memory["libc"][w] = Relocated("libc", e, Addend(w), OwnDefiner("libc", e.sym))
  BY DEF WordRight, AfterFirst, ResolvedTo
<1>3. e.sym = NoSymbol => d = OwnDefiner("libc", e.sym)
  BY DEF Definer, OwnDefiner
<1>4. e.form # "rela" /\ e.sym # NoSymbol => saved[SavedIndex(w)] = Addend(w)
  <2> SUFFICES ASSUME e.form # "rela", e.sym # NoSymbol
               PROVE  saved[SavedIndex(w)] = Addend(w)
    OBVIOUS
  <2>1. e.form \in {"rel", "jmprel"} /\ ~Late(e)
    BY EntryFacts DEF RelocObjects, Early
  <2>2. w \in SavedWords
    BY <2>1 DEF SavedWords
  <2> QED
    BY <2>2 DEF AddendsSaved
<1>5. SecondPass[w] = Relocated("libc", e, Addend(w), d)
  <2> HIDE DEF e, d
  <2> QED
    BY <1>1, <1>2, <1>3, <1>4
<1>6. ~Interposed(w) => d = OwnDefiner("libc", e.sym)
  BY <1>3 DEF Interposed
<1> QED
  BY <1>2, <1>5, <1>6

LEMMA RelocateLibcAgainKeeps ==
  ASSUME RelocInv, relocate_libc_again
  PROVE  RelocInv'
<1>1. RelocTypeOK /\ WordsInv /\ AddendsSaved /\ CopyInv /\ stage = "libc_again"
  BY DEF RelocInv, relocate_libc_again
<1>2. Passed("libc", SecondPass, "late_libc") /\ saved' = saved /\ stage' = "late_libc"
      /\ tables' = tables /\ bind' = bind
  BY DEF relocate_libc_again, Passed
<1>3. "libc" \in RelocObjects /\ "late_libc" \in AllStages
  BY DEF RelocObjects, AllStages, AfterFirst
<1>4. SecondPass = [w \in Words |-> SecondPass[w]]
  BY DEF SecondPass
<1>5. /\ RelocTypeOK' /\ memory'["libc"] = SecondPass
      /\ \A p \in RelocObjects : p # "libc" => memory'[p] = memory[p]
  BY <1>1, <1>2, <1>3, <1>4, PassTypes
<1>6. \A p \in RelocObjects : /\ stage \in AfterFirst(p) /\ stage' \in AfterFirst(p)
                              /\ stage \in AfterLate(p) <=> stage' \in AfterLate(p)
  BY <1>1, <1>2 DEF AfterFirst, AfterLate, RelocObjects
<1>7. ASSUME NEW p \in RelocObjects, NEW w \in Words, p # "libc"
      PROVE  WordRight(p, w)'
  BY <1>1, <1>2, <1>5, <1>6, <1>7, WordStays DEF WordsInv
<1>8. ASSUME NEW w \in Words, ~Early(tables["libc"][w])
      PROVE  memory'["libc"][w] = memory["libc"][w]
  BY <1>5, <1>8 DEF SecondPass
<1>9. ASSUME NEW w \in Words
      PROVE  WordRight("libc", w)'
  <2> DEFINE e == tables["libc"][w]
  <2>1. WordRight("libc", w)
    BY <1>1, <1>3 DEF WordsInv
  <2>2. CASE ~Early(e)
    BY <1>1, <1>2, <1>3, <1>6, <1>8, <2>1, <2>2, WordStays
  <2>3. CASE Early(e)
    <3>1. memory'["libc"][w] = Relocated("libc", e, Addend(w), Definer("libc", e.sym))
      BY <1>1, <1>5, <2>1, <2>3, SecondPassRight
    <3>2. ResolvedTo("libc", e.sym)' = Definer("libc", e.sym)
      BY <1>2, SameTables DEF ResolvedTo
    <3>3. \A d : Relocated("libc", e, Addend(w), d)' = Relocated("libc", e, Addend(w), d)
      BY <1>2, SameTables
    <3> QED
      BY <1>2, <1>3, <1>6, <2>3, <3>1, <3>2, <3>3 DEF WordRight
  <2> QED
    BY <2>2, <2>3
<1>10. ASSUME NEW y \in {1, 2}
       PROVE  Late(tables["libc"][y]) \/ Interposed(y) \/ memory'["libc"][y] = memory["libc"][y]
  <2>1. y \in Words
    BY SMTT(30), RelocConstants DEF Words
  <2>2. WordRight("libc", y)
    BY <1>1, <1>3, <2>1 DEF WordsInv
  <2>3. CASE Early(tables["libc"][y])
    BY <1>1, <1>5, <2>1, <2>2, <2>3, SecondPassRight
  <2>4. CASE ~Early(tables["libc"][y])
    BY <1>8, <2>1, <2>4
  <2> QED
    BY <2>3, <2>4
<1>11. CopyInv'
  <2>1. stage \in AfterLate("exe")
    BY <1>1 DEF AfterLate
  <2> QED
    BY <1>1, <1>2, <1>5, <1>10, <2>1, CopyStays
<1>12. WordsInv'
  BY <1>7, <1>9 DEF WordsInv
<1> QED
  BY <1>1, <1>2, <1>5, <1>11, <1>12, SavedStay DEF RelocInv, PanicsOnlyFor

LEMMA RelocNextInv == RelocInv /\ [RelocNext]_relocVars => RelocInv'
<1>1. ASSUME RelocInv, UNCHANGED relocVars
      PROVE  RelocInv'
  <2>1. /\ stage' = stage /\ memory' = memory /\ tables' = tables /\ bind' = bind
        /\ saved' = saved
    BY <1>1 DEF relocVars
  <2>2. RelocTypeOK' /\ PanicsOnlyFor'
    BY SMTT(30), <1>1, <2>1, SameTables DEF RelocInv, RelocTypeOK, PanicsOnlyFor
  <2>3. AddendsSaved' /\ CopyInv'
    BY <1>1, <2>1, SameTables DEF RelocInv, AddendsSaved, CopyInv
  <2>4. WordsInv'
    BY <1>1, <2>1, WordStays DEF RelocInv, WordsInv
  <2> QED
    BY <2>2, <2>3, <2>4 DEF RelocInv
<1> QED
  BY <1>1, RelocateLibcKeeps, RelocateKeeps, LateRelocateKeeps, RelocateLibcAgainKeeps,
     LateRelocateLibcKeeps DEF RelocNext

(* Start-up leaves every word with the one value its entry asks for,       *)
(* copies with the value they were copied from but for the cases its order *)
(* loses, or gives up for one of the reasons the code has: for any number  *)
(* of words and any tables and bindings.                                   *)
THEOREM RelocationSafe == RelocSpec => []RelocatedOnce
<1>1. RelocInv => RelocatedOnce
  <2> SUFFICES ASSUME RelocInv
               PROVE  AddendsOnce /\ CopiesCurrent
    BY DEF RelocInv, RelocatedOnce
  <2>1. ASSUME stage = "relocated", NEW o \in RelocObjects, NEW w \in Words
        PROVE  LET e == tables[o][w]
                   d == Definer(o, e.sym)
               IN  CASE e.type = "none" -> memory[o][w] = w
                     [] e.type = "relative" -> memory[o][w] = Base[o] + Addend(w)
                     [] e.type = "irelative" -> memory[o][w] = Base[o] + Addend(w) + 500
                     [] e.type = "glob_dat" ->
                           memory[o][w] = IF d = NoObject THEN 0 ELSE Address(d, e.sym)
                     [] e.type = "absolute" ->
                           memory[o][w] = IF d = NoObject THEN 0
                                          ELSE Address(d, e.sym) + Addend(w)
                     [] OTHER -> TRUE
    <3> DEFINE e == tables[o][w]
               d == Definer(o, e.sym)
    <3>1. WordRight(o, w) /\ RelocTypeOK
      BY <2>1 DEF RelocInv, WordsInv
    <3>2. stage \in AfterFirst(o) /\ stage \in AfterLate(o) /\ ResolvedTo(o, e.sym) = d
      BY <2>1 DEF AfterFirst, AfterLate, ResolvedTo
    <3>3. Early(e) => memory[o][w] = Relocated(o, e, Addend(w), d)
      BY <3>1, <3>2 DEF WordRight
    <3>4. ~Early(e) /\ e.type # "copy" =>
            memory[o][w] = IF Late(e) THEN Base[o] + Addend(w) + 500 ELSE Linked(e, w)
      BY <3>1, <3>2 DEF WordRight
    <3>5. CASE Early(e)
      BY <3>1, <3>3, <3>5, EntryFacts DEF Relocated
    <3>6. CASE ~Early(e)
      BY <3>1, <3>4, <3>6, EntryFacts DEF Late, Linked
    <3> QED
      BY <3>5, <3>6
  <2>2. CopiesCurrent
    BY DEF RelocInv, CopyInv, CopiesCurrent, AfterLate
  <2> QED
    BY <2>1, <2>2 DEF AddendsOnce
<1> QED
  BY <1>1, RelocInitInv, RelocNextInv, PTL DEF RelocSpec
==============================================================================

----------------------------- MODULE MCThreads -----------------------------
(* thread_once, threads that come and go, and threads that meet at a        *)
(* barrier, for TLC.  They share no state, so a behaviour is a behaviour of *)
(* one of them, its focus.  No symmetry is used: the run checks liveness.   *)
EXTENDS Once, Barrier, ThreadLifecycle

VARIABLE focus

mcVars == <<focus, vars, barrierVars, lifeVars>>

MCInit ==
  /\ focus \in {"once", "barrier", "life"}
  /\ Init /\ BarrierInit /\ LifeInit

InOnce(A) == focus = "once" /\ A /\ UNCHANGED <<focus, barrierVars, lifeVars>>
AtBarrier(A) == focus = "barrier" /\ A /\ UNCHANGED <<focus, vars, lifeVars>>
InLife(A) == focus = "life" /\ A /\ UNCHANGED <<focus, vars, barrierVars>>

MCNext == InOnce(Next) \/ AtBarrier(BarrierNext) \/ InLife(LifeNext)

(* The fairness of the three specifications. *)
MCFairSpec ==
  /\ MCInit /\ [][MCNext]_mcVars
  /\ \A t \in Threads : WF_mcVars(InOnce(Step(t))) /\ WF_mcVars(InOnce(init_fn(t)))
  /\ \A t \in Arrivers : WF_mcVars(AtBarrier(BarrierStep(t)))
  /\ \A w \in Workers : /\ WF_mcVars(InLife(Creator(w)))
                        /\ WF_mcVars(InLife(Worker(w)))
                        /\ WF_mcVars(InLife(Joiner(w)))

-----------------------------------------------------------------------------
(* Nobody is left behind: thread_once returns, full rounds pass the        *)
(* barrier and it can be destroyed, threads start, and joins return, each  *)
(* with the exceptions stated there.                                       *)
EveryoneGoesOn ==
  EveryCallReturns /\ EveryonePasses /\ DestroyReturns /\ ThreadStarts /\ JoinReturns
=============================================================================

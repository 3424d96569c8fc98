---------------------------- MODULE AbstractEnv ----------------------------
(***************************************************************************)
(* What the environment promises: a value, or none, for every name, which  *)
(* each call changes as the call says.                                     *)
(***************************************************************************)
CONSTANTS EnvNames, EnvValues, Unset
VARIABLES envmap,  \* what getenv gives for a name
          call,    \* the last call, its name and value
          twice    \* names the process was started with more than once

EnvMapInit == /\ envmap \in [EnvNames -> EnvValues \cup {Unset}]
              /\ call = <<"none">> /\ twice \subseteq EnvNames

(* setenv or putenv of n; a setenv that does not overwrite changes only a  *)
(* name that is not set.                                                   *)
Set(n, v) == /\ call' = <<"set", n, v>>
             /\ envmap' = [envmap EXCEPT ![n] = v] /\ UNCHANGED twice
Keep(n, v) == /\ call' = <<"keep", n, v>>
              /\ envmap' = IF envmap[n] = Unset THEN [envmap EXCEPT ![n] = v]
                                                ELSE envmap
              /\ UNCHANGED twice

(* A name that was there twice may keep a value, or come by another one    *)
(* when some name is removed.                                              *)
Remove(n) ==
  /\ call' = <<"unset", n>>
  /\ envmap' \in [EnvNames -> EnvValues \cup {Unset}]
  /\ envmap'[n] = Unset \/ n \in twice
  /\ \A m \in EnvNames \ (twice \cup {n}) : envmap'[m] = envmap[m]
  /\ UNCHANGED twice

Clear == /\ call' = <<"clear">>
         /\ envmap' = [n \in EnvNames |-> Unset] /\ UNCHANGED twice

EnvMapNext == \/ \E n \in EnvNames, v \in EnvValues : Set(n, v) \/ Keep(n, v)
              \/ \E n \in EnvNames : Remove(n)
              \/ Clear

EnvMapSpec == EnvMapInit /\ [][EnvMapNext]_<<envmap, call, twice>>
=============================================================================

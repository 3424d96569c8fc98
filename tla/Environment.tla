---------------------------- MODULE Environment ----------------------------
(***************************************************************************)
(* The environment of the process: ENV, a vector of strings "name=value"   *)
(* ended by a null pointer (not shown here), and ALLOCATED_ENV, the owner  *)
(* of the strings setenv makes, as setenv, unsetenv, putenv, clearenv      *)
(* (src/posix/stdlib.cpp) and getenv (src/ansi/stdlib.cpp) use them.       *)
(* Inserting a name into ALLOCATED_ENV replaces, and so frees, the string  *)
(* it had (hz::unordered_map is external).  The strings a process starts   *)
(* with have a "=": setenv, unsetenv and putenv panic when they come upon  *)
(* one without.                                                            *)
(***************************************************************************)
EXTENDS Naturals, FiniteSets, Sequences

CONSTANTS EnvNames, EnvValues, Unset,
          Startups,    \* environments a process is started with
          MaxStrings   \* bound: strings setenv makes

ASSUME StartupAssumption ==
  /\ Startups \subseteq Seq([name : EnvNames, val : EnvValues, str : {0}])
  /\ Unset \notin EnvValues

VARIABLES
  env,        \* ENV: name, value and string (0: not made by setenv)
  allocated,  \* ALLOCATED_ENV: per name, the string it owns (0: none)
  strings,    \* strings made so far
  doubled,    \* the names the process was started with more than once
  env_call    \* history: the last call

envVars == <<env, allocated, strings, doubled, env_call>>

EnvInit ==
  /\ env \in Startups
  /\ allocated = [n \in EnvNames |-> 0]
  /\ strings = 0 /\ env_call = <<"none">>
  /\ doubled = {n \in EnvNames : Cardinality({i \in DOMAIN env : env[i].name = n}) > 1}

(* The first entry of a name. *)
Places(n) == {i \in DOMAIN env : env[i].name = n}
Place(n) == CHOOSE i \in Places(n) : \A j \in Places(n) : i <= j

getenv(n) == IF Places(n) = {} THEN Unset ELSE env[Place(n)].val

Put(n, v, s) ==
  IF Places(n) = {} THEN Append(env, [name |-> n, val |-> v, str |-> s])
  ELSE [env EXCEPT ![Place(n)] = [name |-> n, val |-> v, str |-> s]]

(* overwrite = 0 with the name there: nothing changes. *)
setenv(n, v, overwrite) ==
  /\ env_call' = <<IF overwrite THEN "set" ELSE "keep", n, v>>
  /\ IF overwrite \/ Places(n) = {}
       THEN /\ strings < MaxStrings
            /\ strings' = strings + 1
            /\ allocated' = [allocated EXCEPT ![n] = strings + 1]
            /\ env' = Put(n, v, strings + 1)
       ELSE UNCHANGED <<env, allocated, strings>>
  /\ UNCHANGED doubled

putenv(n, v) ==
  /\ env_call' = <<"set", n, v>>
  /\ env' = Put(n, v, 0)
  /\ UNCHANGED <<allocated, strings, doubled>>

(* Mutant: the last entry is dropped and moves nowhere. *)
WithoutMoves(i) == SubSeq(env, 1, Len(env) - 1)

(* The last entry moves into the place. *)
Without(i) == SubSeq([env EXCEPT ![i] = env[Len(env)]], 1, Len(env) - 1)

(* Also putenv of a string without '='. *)
unsetenv(n) ==
  /\ env_call' = <<"unset", n>>
  /\ IF Places(n) = {} THEN UNCHANGED <<env, allocated>>
     ELSE /\ env' = Without(Place(n))
          /\ allocated' = [allocated EXCEPT ![n] = 0]
  /\ UNCHANGED <<strings, doubled>>

(* The strings of ALLOCATED_ENV stay. *)
clearenv ==
  /\ env_call' = <<"clear">>
  /\ env' = <<>>
  /\ UNCHANGED <<allocated, strings, doubled>>

EnvNext ==
  \/ \E n \in EnvNames, v \in EnvValues :
       putenv(n, v) \/ \E overwrite \in BOOLEAN : setenv(n, v, overwrite)
  \/ \E n \in EnvNames : unsetenv(n)
  \/ clearenv

EnvSpec == EnvInit /\ [][EnvNext]_envVars

-----------------------------------------------------------------------------

(* Every entry of the environment that setenv made points to a string that *)
(* ALLOCATED_ENV still owns, whatever replaced, removed or moved entries.  *)
(* A name the process was started with twice is the exception: the two     *)
(* entries can change places, and a second setenv frees the string of the  *)
(* one that is now behind.                                                 *)
NoDanglingEntry ==
  \A i \in DOMAIN env :
    env[i].str # 0 /\ env[i].name \notin doubled => allocated[env[i].name] = env[i].str

EnvMap == INSTANCE AbstractEnv WITH envmap <- [n \in EnvNames |-> getenv(n)],
                                    call <- env_call, twice <- doubled

(* What getenv gives is a map from names to values that setenv, putenv,    *)
(* unsetenv and clearenv change as they say.  Only for a name the process  *)
(* was started with twice may unsetenv uncover the second value, of this   *)
(* name or, by the entry it moves, of another.                             *)
EnvIsMap == EnvMap!EnvMapSpec

(* The environment is the map that its functions say, and every entry that *)
(* setenv made points to a string that is still allocated.                 *)
EnvironmentSound == []NoDanglingEntry /\ EnvIsMap
=============================================================================

---------------------------- MODULE ContainerGroup ----------------------------
(***************************************************************************)
(* One compose project the configurator never installed, as the container  *)
(* engine keeps it, and what the docker commands the agent runs do to it   *)
(* (container_ops.rs runs them; container_update.rs, container_backup_run  *)
(* .rs, container_removal.rs and containers.rs compose them).  The engine  *)
(* is not in this repository.                                              *)
(*                                                                         *)
(* A command may fail, or be killed by its deadline, with its work done    *)
(* for any part of the group.                                              *)
(***************************************************************************)
EXTENDS Naturals

CONSTANTS
    Images,       \* image references of the group, one container each
    Broken,       \* versions whose containers may crash
    MaxVersion    \* the version the registry has; the host starts with version 0

Versions == 0..MaxVersion

ASSUME GroupAssumption ==
    MaxVersion \in Nat /\ Broken \subseteq Versions \ {0}

VARIABLES
    tag,         \* the version each reference stands for on the host
    made,        \* the version each container was created from
    state,       \* what each container does: it was stopped, or exited by
                 \* itself and stays down, or restarts in a loop; or is not there
    moved        \* containers that restarted since their counters were read

groupVars == <<tag, made, state, moved>>

GroupTypeOK ==
    /\ tag \in [Images -> Versions]
    /\ made \in [Images -> Versions]
    /\ state \in [Images -> {"none", "stopped", "exited", "running", "restarting"}]
    /\ moved \subseteq Images

GroupInit ==
    /\ tag = [i \in Images |-> 0]
    /\ made = [i \in Images |-> 0]
    /\ state = [i \in Images |-> "running"]
    /\ moved = {}

There   == {i \in Images : state[i] # "none"}
Up      == {i \in Images : state[i] = "running"}
Looping == {i \in Images : state[i] = "restarting"}

-----------------------------------------------------------------------------
(* Commands, each on the part S of the group it gets to                    *)

Pull(S) ==
    /\ tag' = [i \in Images |-> IF i \in S THEN MaxVersion ELSE tag[i]]
    /\ UNCHANGED <<made, state, moved>>

Retag(ids) ==
    /\ tag' = [i \in Images |-> IF i \in DOMAIN ids THEN ids[i] ELSE tag[i]]
    /\ UNCHANGED <<made, state, moved>>

(* up -d: what is gone, down, or not what the tag points at is (re)created; *)
(* a new container starts to count its restarts at zero.                   *)
Recreate(S) ==
    /\ made' = [i \in Images |-> IF i \in S THEN tag[i] ELSE made[i]]
    /\ state' = [i \in Images |->
          IF i \in S /\ (made[i] # tag[i] \/ state[i] # "restarting") THEN "running" ELSE state[i]]
    /\ UNCHANGED <<tag, moved>>

Stop(S) ==
    /\ state' = [i \in Images |-> IF i \in S \cap There THEN "stopped" ELSE state[i]]
    /\ UNCHANGED <<tag, made, moved>>

Start(S) ==
    /\ state' = [i \in Images |-> IF i \in S \cap There THEN "running" ELSE state[i]]
    /\ UNCHANGED <<tag, made, moved>>

Remove(S) ==
    /\ state' = [i \in Images |-> IF i \in S THEN "none" ELSE state[i]]
    /\ UNCHANGED <<tag, made, moved>>

-----------------------------------------------------------------------------
(* What happens to it without the agent                                    *)

Crash(i) ==
    /\ state[i] = "running" /\ made[i] \in Broken
    /\ \E end \in {"restarting", "exited"} : state' = [state EXCEPT ![i] = end]
    /\ UNCHANGED <<tag, made, moved>>

(* A loop is up again for a moment, with one restart more on its counter,  *)
(* which nobody remembers the value of unless it is watched.               *)
Rise(i, watched) ==
    /\ state[i] = "restarting"
    /\ state' = [state EXCEPT ![i] = "running"]
    /\ moved' = IF watched THEN moved \cup {i} ELSE moved
    /\ UNCHANGED <<tag, made>>

(* The owner puts a removed project up again.                              *)
PutBack ==
    /\ There = {}
    /\ made' = tag
    /\ state' = [i \in Images |-> "running"]
    /\ UNCHANGED <<tag, moved>>
=============================================================================

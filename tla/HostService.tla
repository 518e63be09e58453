----------------------------- MODULE HostService -----------------------------
(***************************************************************************)
(* One service the configurator installed, as docker and the file system   *)
(* of the host keep it, and what the commands of the wrappers do to it     *)
(* (/opt/gryonixnexus-{backup,update}-ctl.sh and -restore.sh, generated by *)
(* install/host).  Docker is not in this repository.                       *)
(*                                                                         *)
(* A directory is known by what it holds.  A container has the directory   *)
(* mounted that was at the data path when it was last started: a rename    *)
(* under it does not change what it reads and writes.                      *)
(***************************************************************************)
EXTENDS Naturals

CONSTANTS
    Original,     \* the data directory the host starts with
    Copies,       \* directories unpacked from archives
    Empty,        \* a directory docker makes where a mount finds none
    NoDir,        \* nothing is at the data path
    Plans,        \* the kinds of service considered
    Broken,       \* versions that crash
    MaxVersion    \* the version the registry has; the host starts with version 0

Versions == 0..MaxVersion
Dirs     == {Original, Empty} \cup Copies

ASSUME ServiceAssumption ==
    /\ MaxVersion \in Nat /\ Broken \subseteq Versions \ {0}
    /\ Plans \subseteq [saves : BOOLEAN, stops : BOOLEAN, dumps : BOOLEAN]
    /\ \A p \in Plans : p.stops => p.saves
    /\ NoDir \notin Dirs /\ Original # Empty /\ Copies \cap {Original, Empty} = {}

VARIABLES
    plan,      \* the service has an archive, stops for it, has a database to dump
    tag,       \* the version its image reference stands for on the host
    made,      \* the version its container was created from
    app,       \* the container that uses the data
    moved,     \* it has restarted by itself since its counter was read
    served,    \* the directory it has mounted
    live,      \* the directory at the data path
    aside      \* directories put aside, or into another by a rename onto it; an
               \* empty one is not kept count of

serviceVars == <<tag, made, app, moved, served, live, aside>>

ServiceTypeOK ==
    /\ plan \in Plans
    /\ tag \in Versions /\ made \in Versions
    /\ app \in {"up", "down", "looping"} /\ moved \in BOOLEAN
    /\ served \in Dirs /\ live \in Dirs \cup {NoDir}
    /\ aside \subseteq {Original} \cup Copies

ServiceInit ==
    /\ plan \in Plans
    /\ tag = 0 /\ made = 0
    /\ app = "up" /\ moved = FALSE
    /\ served = Original /\ live = Original /\ aside = {}

-----------------------------------------------------------------------------
(* Commands                                                                *)

(* A container that starts mounts what is at the data path, which docker   *)
(* creates if it is not there.                                             *)
Mount ==
    /\ app' = "up"
    /\ live' = IF live = NoDir THEN Empty ELSE live
    /\ served' = live'

(* docker compose start: nothing for a container that runs.                *)
Start ==
    /\ IF app = "down" THEN Mount ELSE UNCHANGED <<app, live, served>>
    /\ UNCHANGED <<tag, made, moved, aside>>

Stop ==
    /\ app' = "down"
    /\ UNCHANGED <<tag, made, moved, served, live, aside>>

(* docker compose up -d: a container that is down or not what the tag      *)
(* points at is (re)created.                                               *)
Recreate ==
    /\ made' = tag
    /\ IF app = "down" \/ made # tag THEN Mount ELSE UNCHANGED <<app, live, served>>
    /\ UNCHANGED <<tag, moved, aside>>

Retag(v) ==
    /\ tag' = v
    /\ UNCHANGED <<made, app, moved, served, live, aside>>

(* Slip: what is not there is moved all the same.                          *)
MoveWhatever ==
    /\ aside' = aside \cup ({live} \ {Empty})
    /\ live' = NoDir
    /\ UNCHANGED <<tag, made, app, moved, served>>

(* mv of the data directory, if there is one, to a name of its own.        *)
MoveAside ==
    /\ aside' = aside \cup ({live} \ {NoDir, Empty})
    /\ live' = NoDir
    /\ UNCHANGED <<tag, made, app, moved, served>>

(* mv of a directory to the data path; it ends up inside what is there.    *)
MoveTo(d) ==
    /\ IF live = NoDir THEN live' = d /\ aside' = aside \ {d}
       ELSE aside' = aside \cup ({d} \ {Empty}) /\ UNCHANGED live
    /\ UNCHANGED <<tag, made, app, moved, served>>

Wipe ==
    /\ live' = NoDir
    /\ UNCHANGED <<tag, made, app, moved, served, aside>>

-----------------------------------------------------------------------------
(* What happens to it without anybody                                      *)

Crash ==
    /\ app = "up" /\ made \in Broken
    /\ app' = "looping"
    /\ UNCHANGED <<tag, made, moved, served, live, aside>>

Rise(watched) ==
    /\ app = "looping"
    /\ Mount
    /\ moved' = (moved \/ watched)
    /\ UNCHANGED <<tag, made, aside>>
=============================================================================

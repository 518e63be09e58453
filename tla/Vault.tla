-------------------------------- MODULE Vault --------------------------------
(***************************************************************************)
(* The vault of a deployment (state.rs) and the devices that share it:     *)
(* every row carries the time and the author of its last edit, a write is  *)
(* merged row by row, a delete leaves a tombstone, and every reply is the  *)
(* whole vault, out of which the rows that are service secrets are also    *)
(* rendered to a file of the host (api.rs, install/llm_keys.rs).           *)
(*                                                                         *)
(* A row is its version here; what it says is not kept, and a deleted row  *)
(* has nothing to say.  The devices are the app, which is not in this      *)
(* repository: they edit their copies offline, push what they hold, and    *)
(* merge the replies by the same rule (isNewer, state.rs:707-713).         *)
(***************************************************************************)
EXTENDS Integers, FiniteSets

CONSTANTS
    Devices,       \* device uids, as the positive numbers they compare as
    Ids,           \* entries
    Fast,          \* devices whose clock is ahead of the server's
    Ahead,         \* by how much
    MayRefuse,     \* a request may carry a row without an id, or be cut short
    MayFail,       \* a rendering may fail, or its process die first
    MaxClock,      \* bound: edits and deletes
    MaxRevision,   \* bound: writes
    MaxReplies     \* bound: replies on their way to one device

ASSUME VaultAssumption ==
    /\ Devices \subseteq Nat \ {0} /\ Fast \subseteq Devices
    /\ Ahead \in Nat /\ MaxClock \in Nat /\ MaxRevision \in Nat /\ MaxReplies \in Nat
    /\ MayRefuse \in BOOLEAN /\ MayFail \in BOOLEAN

VARIABLES
    clock,      \* the server's
    rows,       \* the vault table
    revision,   \* how often it says it was written
    disk,       \* the rendered file: the live rows it was made from
    behind,     \* deletes whose rendering is still to come, by device
    copy,       \* what each device holds
    held,       \* the revision it holds
    replies,    \* snapshots on their way to it
    quiet,      \* history: entries a request that was cut short has written since
                \* the revision last moved
    arrived,    \* history: every row the server was given
    buried      \* history: what had arrived when the last delete came

serverVars == <<rows, revision, disk, behind, quiet, arrived, buried>>
deviceVars == <<copy, held>>
vars == <<clock, serverVars, deviceVars, replies>>

Row == [at : Nat, by : Nat, deleted : BOOLEAN]

(* No row at all: nobody's, and older than any other.                      *)
NoRow == [at |-> 0, by |-> 0, deleted |-> FALSE]

Table == [Ids -> Row]
Empty == [id \in Ids |-> NoRow]

Snapshot == [rows : Table, revision : Nat]

TypeOK ==
    /\ clock \in Nat \ {0}
    /\ rows \in Table /\ \A id \in Ids : rows[id].deleted => rows[id].by \in Devices
    /\ revision \in Nat
    /\ disk \in Table
    /\ behind \in [Devices -> SUBSET Snapshot]
    /\ copy \in [Devices -> Table]
    /\ held \in [Devices -> Nat]
    /\ replies \in [Devices -> SUBSET Snapshot]
    /\ quiet \subseteq Ids
    /\ arrived \in [Ids -> SUBSET Row]
    /\ buried \in [Ids -> SUBSET Row]

Init ==
    /\ clock = 1
    /\ rows = Empty /\ revision = 0 /\ disk = Empty /\ quiet = {}
    /\ behind = [d \in Devices |-> {}]
    /\ copy = [d \in Devices |-> Empty]
    /\ held = [d \in Devices |-> 0]
    /\ replies = [d \in Devices |-> {}]
    /\ arrived = [id \in Ids |-> {}]
    /\ buried = [id \in Ids |-> {}]

-----------------------------------------------------------------------------
(* The merge                                                               *)

(* Slip: on a tie the one that called first keeps it.                      *)
WinsByTime(row, stored) == row.at > stored.at \/ stored = NoRow

(* Slip: a row without a time is stamped with the time it arrives.         *)
WinsWithoutTime(row, stored) ==
    \/ row.at = 0 \/ row.at > stored.at
    \/ row.at = stored.at /\ row.by > stored.by

(* The later edit, and of two at the same millisecond the greater device.  *)
Wins(row, stored) ==
    \/ row.at > stored.at
    \/ row.at = stored.at /\ row.by > stored.by

Merged(table, given, S) ==
    [id \in Ids |-> IF id \in S /\ Wins(given[id], table[id]) THEN given[id] ELSE table[id]]

Live(table) == [id \in Ids |-> IF table[id].deleted THEN NoRow ELSE table[id]]

Now(d) == clock + (IF d \in Fast THEN Ahead ELSE 0)

(* What a device has to push: the rows it holds and has not seen deleted.  *)
Pushed(d) == {id \in Ids : copy[d][id] # NoRow /\ ~copy[d][id].deleted}

-----------------------------------------------------------------------------
(* The server                                                              *)

Gains(d, S) == [id \in Ids |-> arrived[id] \cup (IF id \in S THEN {copy[d][id]} ELSE {})]

(* A reply may be lost; at most MaxReplies are on their way to a device.   *)
Replied(d, snapshot) ==
    \/ /\ Cardinality(replies[d]) < MaxReplies
       /\ replies' = [replies EXCEPT ![d] = @ \cup {snapshot}]
    \/ UNCHANGED replies

(* The rendering, whose failure is logged and no more (api.rs:1121-1123):   *)
(* the old file is left, or the new one is cut short once it is open       *)
(* (llm_keys.rs:178-185).                                                  *)
Rendered(table) ==
    \/ disk' = Live(table)
    \/ /\ MayFail
       /\ \/ UNCHANGED disk
          \/ \E S \in SUBSET Ids :
                 disk' = [id \in Ids |-> IF id \in S THEN Live(table)[id] ELSE NoRow]

GetVault(d) ==
    /\ Replied(d, [rows |-> rows, revision |-> revision])
    /\ UNCHANGED <<clock, serverVars, deviceVars>>

(* The store stays locked until the file is rendered (api.rs:339-344).     *)
PutVaultEntries(d) ==
    LET merged == Merged(rows, copy[d], Pushed(d))
    IN  /\ revision < MaxRevision
        /\ rows' = merged
        /\ arrived' = Gains(d, Pushed(d))
        /\ revision' = revision + 1 /\ quiet' = {}
        /\ Rendered(merged)
        /\ Replied(d, [rows |-> merged, revision |-> revision + 1])
        /\ UNCHANGED <<clock, behind, buried, deviceVars>>

(* A row without an id ends the loop, as does a database that fails or a   *)
(* process that dies: the rows before it are written, and nothing else is. *)
PutRefused(d) ==
    \E S \in SUBSET Pushed(d) :
        /\ MayRefuse
        /\ rows' = Merged(rows, copy[d], S)
        /\ arrived' = Gains(d, S) /\ quiet' = quiet \cup S
        /\ UNCHANGED <<clock, revision, disk, behind, buried, deviceVars, replies>>

(* Slip: nobody is the author of a delete.                                 *)
TombstoneOfNobody(d) == [at |-> clock + 1, by |-> 0, deleted |-> TRUE]

(* The server's clock has moved on since any edit that a device made.      *)
Tombstone(d) == [at |-> clock + 1, by |-> d, deleted |-> TRUE]

(* Slip: a delete does not count as a write.                               *)
DeleteQuietly(d, id) ==
    LET table == [rows EXCEPT ![id] = Tombstone(d)]
    IN  /\ clock < MaxClock /\ revision < MaxRevision /\ behind[d] = {}
        /\ clock' = clock + 2
        /\ rows' = table
        /\ arrived' = [arrived EXCEPT ![id] = @ \cup {Tombstone(d)}]
        /\ buried' = [buried EXCEPT ![id] = arrived[id]]
        /\ behind' = [behind EXCEPT ![d] = {[rows |-> table, revision |-> revision]}]
        /\ UNCHANGED <<revision, quiet, disk, deviceVars, replies>>

(* The tombstone replaces whatever is there.  The store is unlocked before *)
(* the file is rendered (api.rs:355-356).                                  *)
DeleteVaultEntry(d, id) ==
    LET table == [rows EXCEPT ![id] = Tombstone(d)]
    IN  /\ clock < MaxClock /\ revision < MaxRevision /\ behind[d] = {}
        /\ clock' = clock + 2
        /\ rows' = table
        /\ arrived' = [arrived EXCEPT ![id] = @ \cup {Tombstone(d)}]
        /\ buried' = [buried EXCEPT ![id] = arrived[id]]
        /\ revision' = revision + 1 /\ quiet' = {}
        /\ behind' = [behind EXCEPT ![d] = {[rows |-> table, revision |-> revision + 1]}]
        /\ UNCHANGED <<disk, deviceVars, replies>>

ReconcileDelete(d) ==
    \E snapshot \in behind[d] :
        /\ Rendered(snapshot.rows)
        /\ behind' = [behind EXCEPT ![d] = {}]
        /\ Replied(d, snapshot)
        /\ UNCHANGED <<clock, rows, revision, quiet, arrived, buried, deviceVars>>

-----------------------------------------------------------------------------
(* The devices                                                             *)

(* Edits may fall in one millisecond, but a device does not see a row and  *)
(* edit it in the same one.                                                *)
Edit(d, id) ==
    /\ clock < MaxClock
    /\ copy[d][id].at # Now(d) \/ copy[d][id].by < d
    /\ clock' \in {clock, clock + 1}
    /\ copy' = [copy EXCEPT ![d][id] = [at |-> Now(d), by |-> d, deleted |-> FALSE]]
    /\ UNCHANGED <<serverVars, held, replies>>

(* A value nobody edited, out of an install report.                        *)
Seed(d, id) ==
    /\ copy[d][id] = NoRow
    /\ copy' = [copy EXCEPT ![d][id] = [at |-> 0, by |-> d, deleted |-> FALSE]]
    /\ UNCHANGED <<clock, serverVars, held, replies>>

Receive(d) ==
    \E snapshot \in replies[d] :
        /\ copy' = [copy EXCEPT ![d] = Merged(@, snapshot.rows, Ids)]
        /\ held' = [held EXCEPT ![d] = snapshot.revision]
        /\ replies' = [replies EXCEPT ![d] = @ \ {snapshot}]
        /\ UNCHANGED <<clock, serverVars>>

Next ==
    \E d \in Devices :
        \/ GetVault(d) \/ PutVaultEntries(d) \/ PutRefused(d) \/ ReconcileDelete(d) \/ Receive(d)
        \/ \E id \in Ids : DeleteVaultEntry(d, id) \/ Edit(d, id) \/ Seed(d, id)

Spec == Init /\ [][Next]_vars

-----------------------------------------------------------------------------
(* Properties                                                              *)

Later(row, other) == row.at > other.at \/ (row.at = other.at /\ row.by > other.by)

(* The vault is the last write of each entry among all that ever arrived,  *)
(* in whatever order they did (state.rs:670-678, 707-713).                 *)
LastWriteWins ==
    \A id \in Ids :
        /\ rows[id] \in arrived[id] \cup {NoRow}
        /\ \A row \in arrived[id] : row = rows[id] \/ Later(rows[id], row)

(* A row the server had been given before a delete does not come back,     *)
(* whoever still holds a copy of it (the proto's DeleteVaultEntry).        *)
DeletedStaysDeleted == \A id \in Ids : rows[id] \notin buried[id]

(* A device that holds the current revision holds every row of the vault,  *)
(* or an edit of its own that is newer, but for what a request that was    *)
(* cut short wrote under that revision (the proto's VaultSnapshot;         *)
(* state.rs:679-737).                                                      *)
RevisionMeansNews ==
    \A d \in Devices : held[d] = revision =>
        \A id \in Ids \ quiet : copy[d][id] = rows[id] \/ Later(copy[d][id], rows[id])

(* Once no rendering is to come, the file is what the vault holds          *)
(* (api.rs:1110-1113).                                                     *)
FileHoldsTheVault == (\A d \in Devices : behind[d] = {}) => disk = Live(rows)
=============================================================================

---------------------------- MODULE Vault_proofs ----------------------------
(***************************************************************************)
(* Where every device's clock is right, the vault is the last write of     *)
(* each entry and what is deleted stays so, for any number of devices,     *)
(* entries, requests, lost replies and requests cut short.  Where no       *)
(* request is cut short either, a revision tells a device all there is.    *)
(***************************************************************************)
EXTENDS Vault, TLAPS

(* A row is not from the future, and a tombstone is from the past: a       *)
(* delete moves the clock beyond its own stamp.                            *)
Clocked(row, now) == row.at <= now /\ (row.deleted => 0 < row.at /\ row.at < now)

(* No tombstone has the time of a row that is live.                        *)
Agree(row, other) == row.deleted # other.deleted => row.at # other.at

Sent(d) == replies[d] \cup behind[d]

Clocks ==
    \A id \in Ids :
        /\ \A row \in arrived[id] : Clocked(row, clock)
        /\ \A d \in Devices : Clocked(copy[d][id], clock)

NoClash ==
    \A id \in Ids :
        /\ \A row, other \in arrived[id] : Agree(row, other)
        /\ \A d \in Devices : \A row \in arrived[id] : Agree(copy[d][id], row)
        /\ \A d, e \in Devices : Agree(copy[d][id], copy[e][id])

SentIsOld ==
    \A d \in Devices : \A snapshot \in Sent(d) : \A id \in Ids :
        snapshot.rows[id] \in arrived[id] \cup {NoRow}

BuriedIsOlder == \A id \in Ids : \A row \in buried[id] : Later(rows[id], row)

IInv ==
    /\ TypeOK
    /\ Clocks
    /\ NoClash
    /\ SentIsOld
    /\ LastWriteWins
    /\ BuriedIsOlder

-----------------------------------------------------------------------------
(* What the order of rows is                                               *)

(* The fields of a row; its author is a number like its time.              *)
LEMMA RowFields ==
    ASSUME NEW row \in Row
    PROVE  /\ row.at \in Nat /\ row.by \in Nat /\ row.deleted \in BOOLEAN
           /\ row = [at |-> row.at, by |-> row.by, deleted |-> row.deleted]
  BY DEF Row

(* Wins is the order of time and author.                                   *)
LEMMA WinsIsLater == \A row, other : Wins(row, other) <=> Later(row, other)
  BY DEF Wins, Later

(* The order is transitive.                                                *)
LEMMA LaterTransitive ==
    ASSUME NEW a \in Row, NEW b \in Row, NEW c \in Row, Later(a, b), Later(b, c)
    PROVE  Later(a, c)
<1>1. /\ a.at \in Nat /\ b.at \in Nat /\ c.at \in Nat
      /\ a.by \in Nat /\ b.by \in Nat /\ c.by \in Nat
  BY RowFields
<1> QED
  BY <1>1 DEF Later

(* The order is strict.                                                    *)
LEMMA LaterIrreflexive == ASSUME NEW a \in Row PROVE ~Later(a, a)
<1>1. a.at \in Nat /\ a.by \in Nat
  BY RowFields
<1> QED
  BY <1>1 DEF Later

(* Of two rows that agree one is the later, unless they are one row.       *)
LEMMA LaterTotal ==
    ASSUME NEW a \in Row, NEW b \in Row, Agree(a, b), ~Later(a, b)
    PROVE  a = b \/ Later(b, a)
<1>1. /\ a.at \in Nat /\ b.at \in Nat /\ a.by \in Nat /\ b.by \in Nat
  BY RowFields
<1>2. CASE a.at = b.at /\ a.by = b.by
  <2>1. a.deleted = b.deleted
    BY <1>2 DEF Agree
  <2> QED
    BY <1>2, <2>1, RowFields
<1>3. CASE a.at # b.at \/ a.by # b.by
  BY <1>1, <1>3 DEF Later
<1> QED
  BY <1>2, <1>3

(* No row at all is a row, and disagrees with none that is clocked.        *)
LEMMA NoRowIsARow == NoRow \in Row
  BY DEF NoRow, Row

LEMMA NoRowAgrees ==
    ASSUME NEW row \in Row, Clocked(row, clock)
    PROVE  Agree(NoRow, row) /\ Agree(row, NoRow)
<1>1. row.at \in Nat /\ row.deleted \in BOOLEAN
  BY RowFields
<1>2. row.deleted = TRUE => row.at # 0
  BY <1>1 DEF Clocked
<1>3. CASE row.deleted = TRUE
  <2>1. row.at # 0
    BY <1>2, <1>3
  <2> QED
    BY <2>1 DEF NoRow, Agree
<1>4. CASE row.deleted = FALSE
  BY <1>4, Zenon DEF NoRow, Agree
<1> QED
  BY <1>1, <1>3, <1>4

(* A merge has the type of its parts.                                      *)
LEMMA MergedType ==
    ASSUME NEW table \in Table, NEW given \in Table, NEW S
    PROVE  Merged(table, given, S) \in Table
  BY DEF Merged, Table

(* What a merge keeps and what it takes.                                   *)
LEMMA MergedRows ==
    ASSUME NEW table \in Table, NEW given \in Table, NEW S, NEW id \in Ids
    PROVE  \/ /\ Merged(table, given, S)[id] = table[id]
              /\ id \in S => ~Later(given[id], table[id])
           \/ /\ Merged(table, given, S)[id] = given[id]
              /\ id \in S /\ Later(given[id], table[id])
  BY WinsIsLater DEF Merged, Table

(* Tables in which no tombstone shares its time with a live row.           *)
Agreeing(table, other) == \A id \in Ids : Agree(table[id], other[id])

Join(table, other) == Merged(table, other, Ids)

(* Of two rows a merge takes the later one, whichever is given first.      *)
LEMMA JoinRows ==
    ASSUME NEW table \in Table, NEW other \in Table, Agreeing(table, other), NEW id \in Ids
    PROVE  /\ Join(table, other)[id] \in {table[id], other[id]}
           /\ table[id] = Join(table, other)[id] \/ Later(Join(table, other)[id], table[id])
           /\ other[id] = Join(table, other)[id] \/ Later(Join(table, other)[id], other[id])
<1>1. table[id] \in Row /\ other[id] \in Row /\ Agree(table[id], other[id])
  BY DEF Table, Agreeing
<1>2. CASE Join(table, other)[id] = table[id] /\ ~Later(other[id], table[id])
  <2>1. Agree(other[id], table[id])
    BY <1>1 DEF Agree
  <2> QED
    BY <1>1, <1>2, <2>1, LaterTotal
<1>3. CASE Join(table, other)[id] = other[id] /\ Later(other[id], table[id])
  BY <1>3
<1> QED
  BY <1>2, <1>3, MergedRows DEF Join

(* The greatest of some rows is one row.                                   *)
LEMMA OneGreatest ==
    ASSUME NEW a \in Row, NEW b \in Row, a = b \/ Later(a, b), b = a \/ Later(b, a)
    PROVE  a = b
  BY LaterTransitive, LaterIrreflexive

(* Merging is a join: it does not matter how often a table arrives, nor in *)
(* which order tables do, nor which were merged on the way.  Without the   *)
(* condition it would: a tombstone that ties with a live row stays or goes *)
(* by who came first (put_vault_entries, state.rs:670-737).                *)
THEOREM MergeIsAJoin ==
    ASSUME NEW a \in Table, NEW b \in Table, NEW c \in Table,
           Agreeing(a, b), Agreeing(b, a), Agreeing(b, c), Agreeing(a, c)
    PROVE  /\ Join(a, a) = a
           /\ Join(a, b) = Join(b, a)
           /\ Join(Join(a, b), c) = Join(a, Join(b, c))
<1>1. /\ Join(a, b) \in Table /\ Join(b, a) \in Table /\ Join(b, c) \in Table
      /\ Join(Join(a, b), c) \in Table /\ Join(a, Join(b, c)) \in Table
      /\ Join(a, a) \in Table
  BY MergedType DEF Join
<1>2. Join(a, a) = a
  <2>1. ASSUME NEW id \in Ids PROVE Join(a, a)[id] = a[id]
    BY MergedRows DEF Join
  <2> QED
    BY <1>1, <2>1 DEF Table
<1>3. Join(a, b) = Join(b, a)
  <2>1. ASSUME NEW id \in Ids PROVE Join(a, b)[id] = Join(b, a)[id]
    <3>1. Join(a, b)[id] \in Row /\ Join(b, a)[id] \in Row
      BY <1>1 DEF Table
    <3> QED
      BY <3>1, JoinRows, OneGreatest
  <2> QED
    BY <1>1, <2>1 DEF Table
<1>4. Join(Join(a, b), c) = Join(a, Join(b, c))
  <2>1. Agreeing(Join(a, b), c) /\ Agreeing(a, Join(b, c))
    BY JoinRows DEF Agreeing
  <2>2. ASSUME NEW id \in Ids PROVE Join(Join(a, b), c)[id] = Join(a, Join(b, c))[id]
    <3>1. /\ Join(Join(a, b), c)[id] \in Row /\ Join(a, Join(b, c))[id] \in Row
          /\ Join(a, b)[id] \in Row /\ Join(b, c)[id] \in Row
          /\ a[id] \in Row /\ b[id] \in Row /\ c[id] \in Row
      BY <1>1 DEF Table
    <3>2. PICK left \in Row, right \in Row, ab \in Row, bc \in Row :
              /\ left = Join(Join(a, b), c)[id] /\ right = Join(a, Join(b, c))[id]
              /\ ab = Join(a, b)[id] /\ bc = Join(b, c)[id]
      BY <3>1
    <3>3. /\ left \in {ab, c[id]}
          /\ ab = left \/ Later(left, ab)
          /\ c[id] = left \/ Later(left, c[id])
      BY <1>1, <2>1, <3>2, JoinRows
    <3>4. /\ right \in {a[id], bc}
          /\ a[id] = right \/ Later(right, a[id])
          /\ bc = right \/ Later(right, bc)
      BY <1>1, <2>1, <3>2, JoinRows
    <3>5. /\ ab \in {a[id], b[id]}
          /\ a[id] = ab \/ Later(ab, a[id])
          /\ b[id] = ab \/ Later(ab, b[id])
      BY <3>2, JoinRows
    <3>6. /\ bc \in {b[id], c[id]}
          /\ b[id] = bc \/ Later(bc, b[id])
          /\ c[id] = bc \/ Later(bc, c[id])
      BY <3>2, JoinRows
    <3>7. \A row \in {a[id], b[id], c[id]} : row = left \/ Later(left, row)
      BY <3>1, <3>3, <3>5, LaterTransitive
    <3>8. \A row \in {a[id], b[id], c[id]} : row = right \/ Later(right, row)
      BY <3>1, <3>4, <3>6, LaterTransitive
    <3>9. left \in {a[id], b[id], c[id]} /\ right \in {a[id], b[id], c[id]}
      BY <3>3, <3>4, <3>5, <3>6
    <3>10. left = right
      BY <3>7, <3>8, <3>9, OneGreatest
    <3> QED
      BY <3>2, <3>10
  <2> QED
    BY <1>1, <2>2 DEF Table
<1> QED
  BY <1>2, <1>3, <1>4

-----------------------------------------------------------------------------
(* Types                                                                   *)

(* What a put leaves in the table.                                         *)
LEMMA PutType ==
    ASSUME TypeOK, NEW d \in Devices, NEW S, S \subseteq Pushed(d),
           rows' = Merged(rows, copy[d], S), arrived' = Gains(d, S)
    PROVE  /\ rows' \in Table /\ \A id \in Ids : rows'[id].deleted => rows'[id].by \in Devices
           /\ arrived' \in [Ids -> SUBSET Row]
<1>1. rows \in Table /\ copy[d] \in Table
  BY DEF TypeOK
<1>2. rows' \in Table
  BY <1>1, MergedType
<1>3. ASSUME NEW id \in Ids, rows'[id].deleted PROVE rows'[id].by \in Devices
  <2>1. CASE rows'[id] = rows[id]
    BY <1>3, <2>1 DEF TypeOK
  <2>2. CASE rows'[id] = copy[d][id] /\ id \in S
    BY <1>3, <2>2 DEF Pushed
  <2> QED
    BY <1>1, <2>1, <2>2, MergedRows
<1>4. arrived' \in [Ids -> SUBSET Row]
  BY <1>1 DEF TypeOK, Gains, Table
<1> QED
  BY <1>2, <1>3, <1>4

(* Live rows are rows.                                                     *)
LEMMA LiveType == ASSUME NEW table \in Table PROVE Live(table) \in Table
  BY NoRowIsARow DEF Live, Table

(* Whatever a rendering leaves of the file is a table.                     *)
LEMMA RenderedType ==
    ASSUME disk \in Table, NEW table \in Table, Rendered(table)
    PROVE  disk' \in Table
<1>1. Live(table) \in Table
  BY LiveType
<1>2. ASSUME NEW S \in SUBSET Ids,
             disk' = [id \in Ids |-> IF id \in S THEN Live(table)[id] ELSE NoRow]
      PROVE  disk' \in Table
  BY <1>1, <1>2, NoRowIsARow DEF Table
<1> QED
  BY <1>1, <1>2 DEF Rendered

(* Every step keeps the types.                                             *)
LEMMA TypeStep == TypeOK /\ [Next]_vars => TypeOK'
<1> SUFFICES ASSUME TypeOK, [Next]_vars PROVE TypeOK'
  OBVIOUS
<1>1. CASE UNCHANGED vars
  BY <1>1 DEF TypeOK, vars, serverVars, deviceVars
<1>2. ASSUME NEW d \in Devices, GetVault(d) PROVE TypeOK'
  <2>1. [rows |-> rows, revision |-> revision] \in Snapshot
    BY DEF TypeOK, Snapshot
  <2>2. replies' \in [Devices -> SUBSET Snapshot]
    BY <1>2, <2>1 DEF TypeOK, GetVault, Replied
  <2> QED
    BY <1>2, <2>2 DEF TypeOK, GetVault, serverVars, deviceVars
<1>3. ASSUME NEW d \in Devices, PutVaultEntries(d) PROVE TypeOK'
  <2>1. /\ rows' \in Table /\ \A id \in Ids : rows'[id].deleted => rows'[id].by \in Devices
        /\ arrived' \in [Ids -> SUBSET Row]
    BY <1>3, PutType DEF PutVaultEntries
  <2>2. disk' \in Table
    BY <1>3, <2>1, RenderedType DEF PutVaultEntries, TypeOK
  <2>3. revision' \in Nat /\ [rows |-> rows', revision |-> revision'] \in Snapshot
    BY <1>3, <2>1 DEF TypeOK, Snapshot, PutVaultEntries
  <2>4. replies' \in [Devices -> SUBSET Snapshot]
    <3>1. Replied(d, [rows |-> rows', revision |-> revision'])
      BY <1>3 DEF PutVaultEntries
    <3> QED
      BY <2>3, <3>1 DEF TypeOK, Replied
  <2>5. quiet' \subseteq Ids
    BY <1>3 DEF PutVaultEntries
  <2>6. UNCHANGED <<clock, behind, buried, deviceVars>>
    BY <1>3 DEF PutVaultEntries
  <2> QED
    BY <2>1, <2>2, <2>3, <2>4, <2>5, <2>6 DEF TypeOK, deviceVars
<1>4. ASSUME NEW d \in Devices, PutRefused(d) PROVE TypeOK'
  <2>1. PICK S \in SUBSET Pushed(d) :
            /\ rows' = Merged(rows, copy[d], S)
            /\ arrived' = Gains(d, S) /\ quiet' = quiet \cup S
            /\ UNCHANGED <<clock, revision, disk, behind, buried, deviceVars, replies>>
    BY <1>4 DEF PutRefused
  <2>2. /\ rows' \in Table /\ \A id \in Ids : rows'[id].deleted => rows'[id].by \in Devices
        /\ arrived' \in [Ids -> SUBSET Row]
    BY <2>1, PutType
  <2>3. quiet' \subseteq Ids
    BY <2>1 DEF TypeOK, Pushed
  <2> QED
    BY <2>1, <2>2, <2>3 DEF TypeOK, deviceVars
<1>5. ASSUME NEW d \in Devices, NEW id \in Ids, DeleteVaultEntry(d, id) PROVE TypeOK'
  <2>1. Tombstone(d) \in Row /\ Tombstone(d).by \in Devices
    BY VaultAssumption DEF Tombstone, Row, TypeOK
  <2>2. rows' \in Table /\ rows' = [rows EXCEPT ![id] = Tombstone(d)]
    BY <1>5, <2>1 DEF TypeOK, DeleteVaultEntry, Table
  <2>3. \A i \in Ids : rows'[i].deleted => rows'[i].by \in Devices
    BY <2>1, <2>2 DEF TypeOK, Table
  <2>4. arrived' \in [Ids -> SUBSET Row] /\ buried' \in [Ids -> SUBSET Row]
    BY <1>5, <2>1 DEF TypeOK, DeleteVaultEntry
  <2>5. /\ revision' \in Nat /\ clock' \in Nat \ {0}
        /\ [rows |-> rows', revision |-> revision'] \in Snapshot
    BY <1>5, <2>2 DEF TypeOK, DeleteVaultEntry, Snapshot
  <2>6. behind' \in [Devices -> SUBSET Snapshot]
    <3>1. behind' = [behind EXCEPT ![d] = {[rows |-> rows', revision |-> revision']}]
      BY <1>5 DEF DeleteVaultEntry
    <3> QED
      BY <2>5, <3>1 DEF TypeOK
  <2> QED
    BY <1>5, <2>2, <2>3, <2>4, <2>5, <2>6 DEF TypeOK, DeleteVaultEntry, deviceVars
<1>6. ASSUME NEW d \in Devices, ReconcileDelete(d) PROVE TypeOK'
  <2>1. PICK snapshot \in behind[d] :
            /\ Rendered(snapshot.rows)
            /\ behind' = [behind EXCEPT ![d] = {}]
            /\ Replied(d, snapshot)
            /\ UNCHANGED <<clock, rows, revision, quiet, arrived, buried, deviceVars>>
    BY <1>6 DEF ReconcileDelete
  <2>2. snapshot \in Snapshot /\ snapshot.rows \in Table
    BY <2>1 DEF TypeOK, Snapshot
  <2>3. disk' \in Table
    BY <2>1, <2>2, RenderedType DEF TypeOK
  <2>4. replies' \in [Devices -> SUBSET Snapshot]
    BY <2>1, <2>2 DEF TypeOK, Replied
  <2>5. behind' \in [Devices -> SUBSET Snapshot]
    BY <2>1 DEF TypeOK
  <2> QED
    BY <2>1, <2>3, <2>4, <2>5 DEF TypeOK, deviceVars
<1>7. ASSUME NEW d \in Devices, Receive(d) PROVE TypeOK'
  <2>1. PICK snapshot \in replies[d] :
            /\ copy' = [copy EXCEPT ![d] = Merged(copy[d], snapshot.rows, Ids)]
            /\ held' = [held EXCEPT ![d] = snapshot.revision]
            /\ replies' = [replies EXCEPT ![d] = @ \ {snapshot}]
            /\ UNCHANGED <<clock, serverVars>>
    BY <1>7 DEF Receive
  <2>2. snapshot.rows \in Table /\ snapshot.revision \in Nat
    BY <2>1 DEF TypeOK, Snapshot
  <2>3. Merged(copy[d], snapshot.rows, Ids) \in Table
    BY <2>2, MergedType DEF TypeOK
  <2>4. copy' \in [Devices -> Table] /\ held' \in [Devices -> Nat]
    BY <2>1, <2>2, <2>3 DEF TypeOK
  <2>5. replies' \in [Devices -> SUBSET Snapshot]
    BY <2>1 DEF TypeOK
  <2> QED
    BY <2>1, <2>4, <2>5 DEF TypeOK, serverVars
<1>8. ASSUME NEW d \in Devices, NEW id \in Ids, Edit(d, id) PROVE TypeOK'
  <2>1. [at |-> Now(d), by |-> d, deleted |-> FALSE] \in Row
    BY VaultAssumption DEF TypeOK, Now, Row
  <2>2. copy' \in [Devices -> Table] /\ clock' \in Nat \ {0}
    BY <1>8, <2>1 DEF TypeOK, Edit, Table
  <2> QED
    BY <1>8, <2>2 DEF TypeOK, Edit, serverVars
<1>9. ASSUME NEW d \in Devices, NEW id \in Ids, Seed(d, id) PROVE TypeOK'
  <2>1. [at |-> 0, by |-> d, deleted |-> FALSE] \in Row
    BY VaultAssumption DEF Row
  <2>2. copy' \in [Devices -> Table]
    BY <1>9, <2>1 DEF TypeOK, Seed, Table
  <2> QED
    BY <1>9, <2>2 DEF TypeOK, Seed, serverVars
<1> QED
  BY <1>1, <1>2, <1>3, <1>4, <1>5, <1>6, <1>7, <1>8, <1>9 DEF Next

-----------------------------------------------------------------------------
(* The invariant, one group of steps at a time                             *)

(* Taking rows out of a device's copy keeps the invariant: they are older  *)
(* than now, clash with nothing, and each is merged by the order.          *)
LEMMA PutKeeps ==
    ASSUME IInv, NEW d \in Devices, NEW S, S \subseteq Pushed(d),
           rows' = Merged(rows, copy[d], S), arrived' = Gains(d, S),
           UNCHANGED <<clock, copy, buried>>
    PROVE  /\ Clocks' /\ NoClash' /\ LastWriteWins' /\ BuriedIsOlder'
           /\ \A id \in Ids : arrived[id] \subseteq arrived'[id]
<1> USE DEF IInv
<1>1. /\ rows \in Table /\ copy[d] \in Table /\ rows' \in Table
      /\ arrived \in [Ids -> SUBSET Row] /\ arrived' \in [Ids -> SUBSET Row]
  BY PutType DEF TypeOK
<1>2. \A id \in Ids : /\ arrived[id] \subseteq arrived'[id]
                       /\ \A row \in arrived'[id] : row \in arrived[id] \/ (id \in S /\ row = copy[d][id])
  BY DEF Gains
<1>3. \A id \in Ids : id \in S => copy[d][id] \in arrived'[id]
  BY DEF Gains
<1>4. Clocks'
  BY <1>2 DEF Clocks, Clocked
<1>5. NoClash'
  <2> SUFFICES ASSUME NEW id \in Ids
               PROVE  /\ \A row, other \in arrived'[id] : Agree(row, other)
                      /\ \A e \in Devices : \A row \in arrived'[id] : Agree(copy[e][id], row)
                      /\ \A e, f \in Devices : Agree(copy[e][id], copy[f][id])
    BY DEF NoClash, Agree
  <2>1. \A e \in Devices : \A row \in arrived'[id] :
            Agree(copy[e][id], row) /\ Agree(row, copy[e][id])
    BY <1>2 DEF NoClash, Agree
  <2>2. \A row, other \in arrived'[id] : Agree(row, other)
    BY <1>2, <2>1 DEF NoClash
  <2> QED
    BY <2>1, <2>2 DEF NoClash
<1>6. ASSUME NEW id \in Ids
      PROVE  rows'[id] = rows[id] \/ (rows'[id] = copy[d][id] /\ id \in S /\ Later(rows'[id], rows[id]))
  BY <1>1, MergedRows
<1>7. LastWriteWins'
  <2> SUFFICES ASSUME NEW id \in Ids
               PROVE  /\ rows'[id] \in arrived'[id] \cup {NoRow}
                      /\ \A row \in arrived'[id] : row = rows'[id] \/ Later(rows'[id], row)
    BY DEF LastWriteWins, Later
  <2>1. rows'[id] \in arrived'[id] \cup {NoRow}
    BY <1>2, <1>3, <1>6 DEF LastWriteWins
  <2>2. ASSUME NEW row \in arrived[id] PROVE row = rows'[id] \/ Later(rows'[id], row)
    <3>1. row = rows[id] \/ Later(rows[id], row)
      BY DEF LastWriteWins
    <3>2. row \in Row /\ rows[id] \in Row /\ rows'[id] \in Row
      BY <1>1 DEF Table
    <3> QED
      BY <1>6, <3>1, <3>2, LaterTransitive
  <2>3. ASSUME id \in S PROVE copy[d][id] = rows'[id] \/ Later(rows'[id], copy[d][id])
    <3>1. copy[d][id] \in Row /\ rows[id] \in Row
      BY <1>1 DEF Table
    <3>2. CASE rows'[id] = copy[d][id]
      BY <3>2
    <3>3. CASE rows'[id] = rows[id] /\ ~Later(copy[d][id], rows[id])
      <4>1. rows[id] \in arrived[id] \cup {NoRow}
        BY DEF LastWriteWins
      <4>2. Agree(copy[d][id], rows[id])
        <5>1. CASE rows[id] \in arrived[id]
          BY <5>1 DEF NoClash
        <5>2. CASE rows[id] = NoRow
          BY <3>1, <5>2, NoRowAgrees DEF Clocks
        <5> QED
          BY <4>1, <5>1, <5>2
      <4> QED
        BY <3>1, <3>3, <4>2, LaterTotal
    <3> QED
      BY <1>1, <2>3, <3>2, <3>3, MergedRows
  <2> QED
    BY <1>2, <2>1, <2>2, <2>3
<1>8. BuriedIsOlder'
  <2> SUFFICES ASSUME NEW id \in Ids, NEW row \in buried[id] PROVE Later(rows'[id], row)
    BY DEF BuriedIsOlder, Later
  <2>1. row \in Row /\ rows[id] \in Row /\ rows'[id] \in Row
    BY <1>1 DEF TypeOK, Table
  <2>2. Later(rows[id], row)
    BY DEF BuriedIsOlder
  <2> QED
    BY <1>6, <2>1, <2>2, LaterTransitive
<1> QED
  BY <1>2, <1>4, <1>5, <1>7, <1>8

(* A tombstone is later than anything known.                               *)
LEMMA DeleteKeeps ==
    ASSUME IInv, NEW d \in Devices, NEW id \in Ids, DeleteVaultEntry(d, id)
    PROVE  Clocks' /\ NoClash' /\ SentIsOld' /\ LastWriteWins' /\ BuriedIsOlder'
<1> USE DEF IInv
<1> DEFINE grave == Tombstone(d)
<1>1. /\ rows \in Table /\ arrived \in [Ids -> SUBSET Row] /\ clock \in Nat \ {0}
      /\ buried \in [Ids -> SUBSET Row]
  BY DEF TypeOK
<1>2. /\ rows' = [rows EXCEPT ![id] = grave]
      /\ arrived' = [arrived EXCEPT ![id] = arrived[id] \cup {grave}]
      /\ buried' = [buried EXCEPT ![id] = arrived[id]]
      /\ clock' = clock + 2
      /\ UNCHANGED <<copy, replies>>
  BY DEF DeleteVaultEntry, deviceVars
<1>3. grave.at = clock + 1 /\ grave.deleted = TRUE
  BY DEF Tombstone
<1> HIDE DEF grave
<1>4. \A i \in Ids : /\ arrived[i] \subseteq arrived'[i]
                      /\ \A row \in arrived'[i] : row \in arrived[i] \/ (i = id /\ row = grave)
  BY <1>1, <1>2
<1>5. ASSUME NEW row \in Row, Clocked(row, clock)
      PROVE  Clocked(row, clock') /\ Later(grave, row) /\ Agree(grave, row) /\ Agree(row, grave)
  <2>1. row.at \in Nat /\ row.at <= clock
    BY <1>5, RowFields DEF Clocked
  <2>2. row.at # clock + 1 /\ clock + 1 > row.at
    BY <1>1, <2>1
  <2>3. Clocked(row, clock')
    BY <1>1, <1>2, <1>5, <2>1 DEF Clocked
  <2> QED
    BY <1>3, <2>2, <2>3 DEF Later, Agree
<1>6. Clocked(grave, clock')
  BY <1>1, <1>2, <1>3 DEF Clocked
<1>7. Clocks'
  <2>1. ASSUME NEW i \in Ids, NEW row \in arrived'[i] PROVE Clocked(row, clock')
    BY <1>1, <1>4, <1>5, <1>6, <2>1 DEF Clocks
  <2>2. ASSUME NEW i \in Ids, NEW e \in Devices PROVE Clocked(copy[e][i], clock')
    BY <1>5 DEF TypeOK, Table, Clocks
  <2> QED
    BY <1>2, <2>1, <2>2 DEF Clocks, Clocked
<1>8. NoClash'
  <2> SUFFICES ASSUME NEW i \in Ids
               PROVE  /\ \A row, other \in arrived'[i] : Agree(row, other)
                      /\ \A e \in Devices : \A row \in arrived'[i] : Agree(copy[e][i], row)
                      /\ \A e, f \in Devices : Agree(copy[e][i], copy[f][i])
    BY <1>2 DEF NoClash, Agree
  <2>1. \A row \in arrived[i] : Agree(row, grave) /\ Agree(grave, row)
    BY <1>1, <1>5 DEF Clocks
  <2>2. Agree(grave, grave)
    BY DEF Agree
  <2>3. \A e \in Devices : Agree(copy[e][i], grave)
    BY <1>5 DEF Clocks, TypeOK, Table
  <2> QED
    BY <1>4, <2>1, <2>2, <2>3 DEF NoClash
<1>9. LastWriteWins'
  <2> SUFFICES ASSUME NEW i \in Ids
               PROVE  /\ rows'[i] \in arrived'[i] \cup {NoRow}
                      /\ \A row \in arrived'[i] : row = rows'[i] \/ Later(rows'[i], row)
    BY DEF LastWriteWins, Later
  <2>1. CASE i = id
    <3>1. rows'[i] = grave /\ arrived'[i] = arrived[i] \cup {grave}
      BY <1>1, <1>2, <2>1 DEF Table
    <3>2. \A row \in arrived[i] : Later(grave, row)
      BY <1>1, <1>5 DEF Clocks
    <3> QED
      BY <3>1, <3>2
  <2>2. CASE i # id
    <3>1. rows'[i] = rows[i] /\ arrived'[i] = arrived[i]
      BY <1>1, <1>2, <2>2 DEF Table
    <3> QED
      BY <3>1 DEF LastWriteWins
  <2> QED
    BY <2>1, <2>2
<1>10. BuriedIsOlder'
  <2> SUFFICES ASSUME NEW i \in Ids, NEW row \in buried'[i] PROVE Later(rows'[i], row)
    BY DEF BuriedIsOlder, Later
  <2>1. CASE i = id
    <3>1. rows'[i] = grave /\ row \in arrived[i] /\ row \in Row
      BY <1>1, <1>2, <2>1 DEF Table
    <3> QED
      BY <1>5, <3>1 DEF Clocks
  <2>2. CASE i # id
    <3>1. rows'[i] = rows[i] /\ row \in buried[i]
      BY <1>1, <1>2, <2>2 DEF Table
    <3> QED
      BY <3>1 DEF BuriedIsOlder
  <2> QED
    BY <2>1, <2>2
<1>11. SentIsOld'
  <2> SUFFICES ASSUME NEW e \in Devices, NEW snapshot \in (replies[e] \cup behind'[e]), NEW i \in Ids
               PROVE  snapshot.rows[i] \in arrived'[i] \cup {NoRow}
    BY <1>2 DEF SentIsOld, Sent
  <2>1. CASE snapshot \in Sent(e)
    BY <1>4, <2>1 DEF SentIsOld
  <2>2. CASE snapshot \notin Sent(e)
    <3>1. behind' = [behind EXCEPT ![d] = {[rows |-> rows', revision |-> revision']}]
      BY DEF DeleteVaultEntry
    <3>2. snapshot = [rows |-> rows', revision |-> revision']
      BY <2>2, <3>1 DEF Sent, TypeOK
    <3>3. snapshot.rows = rows'
      BY <3>2
    <3> QED
      BY <1>9, <3>3 DEF LastWriteWins
  <2> QED
    BY <2>1, <2>2
<1> QED
  BY <1>7, <1>8, <1>9, <1>10, <1>11

(* What may come into a device's copy of an entry: a row there was, or a   *)
(* live one of this moment or of no time at all.                           *)
Old(id) == arrived[id] \cup {NoRow} \cup {copy[d][id] : d \in Devices}

New(row) == row.deleted = FALSE /\ row.at \in {0, clock}

(* What is old is clocked and clashes with nothing old.                    *)
LEMMA OldAgree ==
    ASSUME IInv, NEW id \in Ids, NEW row \in Old(id), NEW other \in Old(id)
    PROVE  row \in Row /\ Clocked(row, clock) /\ Agree(row, other)
<1> USE DEF IInv
<1>1. \A r \in Old(id) : r \in Row /\ Clocked(r, clock)
  <2>1. \A r \in arrived[id] : r \in Row /\ Clocked(r, clock)
    BY DEF TypeOK, Clocks
  <2>2. \A d \in Devices : copy[d][id] \in Row /\ Clocked(copy[d][id], clock)
    BY DEF TypeOK, Table, Clocks
  <2>3. NoRow \in Row /\ Clocked(NoRow, clock)
    BY NoRowIsARow DEF NoRow, Clocked, TypeOK
  <2> QED
    BY <2>1, <2>2, <2>3 DEF Old
<1> SUFFICES Agree(row, other)
  BY <1>1
<1>2. \A r, o : Agree(r, o) => Agree(o, r)
  BY DEF Agree
<1>3. CASE row = NoRow \/ other = NoRow
  BY <1>1, <1>3, NoRowAgrees
<1>4. CASE row \in arrived[id] /\ other \in arrived[id]
  BY <1>4 DEF NoClash
<1>5. CASE \E d \in Devices : row = copy[d][id]
  <2>1. CASE other \in arrived[id]
    BY <1>5, <2>1 DEF NoClash
  <2>2. CASE \E d \in Devices : other = copy[d][id]
    BY <1>5, <2>2 DEF NoClash
  <2> QED
    BY <1>3, <2>1, <2>2 DEF Old
<1>6. CASE row \in arrived[id] /\ \E d \in Devices : other = copy[d][id]
  BY <1>2, <1>6 DEF NoClash
<1> QED
  BY <1>3, <1>4, <1>5, <1>6 DEF Old

(* A device that takes such rows keeps the invariant.                      *)
LEMMA DeviceKeeps ==
    ASSUME IInv, copy' \in [Devices -> Table], clock' \in {clock, clock + 1},
           UNCHANGED <<rows, arrived, buried, behind>>,
           \A d \in Devices : replies'[d] \subseteq replies[d],
           \A d \in Devices : \A id \in Ids : copy'[d][id] \in Old(id) \/ New(copy'[d][id])
    PROVE  Clocks' /\ NoClash' /\ SentIsOld' /\ LastWriteWins' /\ BuriedIsOlder'
<1> USE DEF IInv
<1>1. clock \in Nat \ {0} /\ arrived \in [Ids -> SUBSET Row]
  BY DEF TypeOK
<1>2. ASSUME NEW row \in Row, Clocked(row, clock) PROVE Clocked(row, clock')
  <2>1. row.at \in Nat
    BY RowFields
  <2> QED
    BY <1>1, <1>2, <2>1 DEF Clocked
<1>3. ASSUME NEW row \in Row, New(row)
      PROVE  Clocked(row, clock)
  BY <1>1, <1>3 DEF New, Clocked
<1>4. ASSUME NEW row \in Row, New(row), NEW other \in Row, Clocked(other, clock)
      PROVE  Agree(row, other) /\ Agree(other, row)
  <2>1. other.at \in Nat /\ other.deleted \in BOOLEAN
    BY RowFields
  <2>2. CASE other.deleted = FALSE
    BY <1>4, <2>2, Zenon DEF New, Agree
  <2>3. CASE other.deleted = TRUE
    <3>1. 0 < other.at /\ other.at < clock
      BY <1>4, <2>3 DEF Clocked
    <3>2. row.at # other.at
      BY <1>1, <1>4, <2>1, <3>1 DEF New
    <3> QED
      BY <3>2 DEF Agree
  <2> QED
    BY <2>1, <2>2, <2>3
<1>5. \A d \in Devices : \A id \in Ids : copy'[d][id] \in Row
  BY DEF Table
<1>6. Clocks'
  <2>1. \A id \in Ids : \A row \in arrived[id] : Clocked(row, clock')
    BY <1>1, <1>2 DEF Clocks
  <2>2. ASSUME NEW d \in Devices, NEW id \in Ids PROVE Clocked(copy'[d][id], clock')
    BY <1>2, <1>3, <1>5, OldAgree
  <2> QED
    BY <2>1, <2>2 DEF Clocks
<1>7. NoClash'
  <2> SUFFICES ASSUME NEW id \in Ids
               PROVE  /\ \A row, other \in arrived[id] : Agree(row, other)
                      /\ \A d \in Devices : \A row \in arrived[id] : Agree(copy'[d][id], row)
                      /\ \A d, e \in Devices : Agree(copy'[d][id], copy'[e][id])
    BY DEF NoClash, Agree
  <2>1. \A row, other \in arrived[id] : Agree(row, other)
    BY DEF NoClash
  <2>2. ASSUME NEW d \in Devices, NEW other \in Old(id)
        PROVE  Agree(copy'[d][id], other) /\ Agree(other, copy'[d][id])
    BY <1>4, <1>5, OldAgree
  <2>3. \A d \in Devices : \A row \in arrived[id] : Agree(copy'[d][id], row)
    BY <2>2 DEF Old
  <2>4. ASSUME NEW d \in Devices, NEW e \in Devices PROVE Agree(copy'[d][id], copy'[e][id])
    <3>1. CASE copy'[d][id] \in Old(id) \/ copy'[e][id] \in Old(id)
      BY <2>2, <3>1
    <3>2. CASE New(copy'[d][id]) /\ New(copy'[e][id])
      BY <3>2, Zenon DEF New, Agree
    <3> QED
      BY <3>1, <3>2
  <2> QED
    BY <2>1, <2>3, <2>4
<1>8. SentIsOld'
  BY DEF SentIsOld, Sent
<1>9. LastWriteWins' /\ BuriedIsOlder'
  BY DEF LastWriteWins, BuriedIsOlder, Later
<1> QED
  BY <1>6, <1>7, <1>8, <1>9

-----------------------------------------------------------------------------
(* The theorems                                                            *)

(* Every step keeps the invariant, if no clock is fast.                    *)
LEMMA Step == ASSUME Fast = {}, IInv, [Next]_vars PROVE IInv'
<1>1. TypeOK'
  BY TypeStep DEF IInv
<1> SUFFICES Clocks' /\ NoClash' /\ SentIsOld' /\ LastWriteWins' /\ BuriedIsOlder'
  BY <1>1 DEF IInv
<1>2. ASSUME UNCHANGED <<rows, arrived, buried, copy, clock>>, SentIsOld'
      PROVE  Clocks' /\ NoClash' /\ SentIsOld' /\ LastWriteWins' /\ BuriedIsOlder'
  BY <1>2 DEF IInv, Clocks, Clocked, NoClash, Agree, LastWriteWins, BuriedIsOlder, Later
<1>3. CASE UNCHANGED vars
  BY <1>2, <1>3 DEF vars, serverVars, deviceVars, IInv, SentIsOld, Sent
<1>4. ASSUME NEW d \in Devices, GetVault(d)
      PROVE  Clocks' /\ NoClash' /\ SentIsOld' /\ LastWriteWins' /\ BuriedIsOlder'
  <2>1. \A e \in Devices : \A snapshot \in Sent(e)' :
            snapshot \in Sent(e) \/ snapshot.rows = rows
    BY <1>4 DEF GetVault, Replied, Sent, serverVars, IInv, TypeOK
  <2>2. SentIsOld'
    BY <1>4, <2>1 DEF GetVault, serverVars, IInv, SentIsOld, LastWriteWins
  <2> QED
    BY <1>2, <1>4, <2>2 DEF GetVault, serverVars, deviceVars
<1>5. ASSUME NEW d \in Devices, PutVaultEntries(d)
      PROVE  Clocks' /\ NoClash' /\ SentIsOld' /\ LastWriteWins' /\ BuriedIsOlder'
  <2>1. /\ Clocks' /\ NoClash' /\ LastWriteWins' /\ BuriedIsOlder'
        /\ \A id \in Ids : arrived[id] \subseteq arrived'[id]
    BY <1>5, PutKeeps DEF PutVaultEntries, deviceVars
  <2>2. Replied(d, [rows |-> rows', revision |-> revision']) /\ UNCHANGED behind
    BY <1>5 DEF PutVaultEntries
  <2>3. \A e \in Devices : \A snapshot \in Sent(e)' :
            snapshot \in Sent(e) \/ snapshot.rows = rows'
    BY <2>2 DEF Replied, Sent, IInv, TypeOK
  <2>4. SentIsOld'
    BY <2>1, <2>3 DEF IInv, SentIsOld, LastWriteWins
  <2> QED
    BY <2>1, <2>4
<1>6. ASSUME NEW d \in Devices, PutRefused(d)
      PROVE  Clocks' /\ NoClash' /\ SentIsOld' /\ LastWriteWins' /\ BuriedIsOlder'
  <2>1. PICK S \in SUBSET Pushed(d) :
            /\ rows' = Merged(rows, copy[d], S)
            /\ arrived' = Gains(d, S)
            /\ UNCHANGED <<clock, revision, disk, behind, buried, deviceVars, replies>>
    BY <1>6 DEF PutRefused
  <2>2. /\ Clocks' /\ NoClash' /\ LastWriteWins' /\ BuriedIsOlder'
        /\ \A id \in Ids : arrived[id] \subseteq arrived'[id]
    BY <2>1, PutKeeps DEF deviceVars
  <2>3. SentIsOld'
    BY <2>1, <2>2 DEF IInv, SentIsOld, Sent
  <2> QED
    BY <2>2, <2>3
<1>7. ASSUME NEW d \in Devices, ReconcileDelete(d)
      PROVE  Clocks' /\ NoClash' /\ SentIsOld' /\ LastWriteWins' /\ BuriedIsOlder'
  <2>1. \A e \in Devices : Sent(e)' \subseteq Sent(e)
    BY <1>7 DEF ReconcileDelete, Replied, Sent, IInv, TypeOK
  <2>2. SentIsOld'
    BY <1>7, <2>1 DEF ReconcileDelete, IInv, SentIsOld
  <2> QED
    BY <1>2, <1>7, <2>2 DEF ReconcileDelete, deviceVars
<1>8. ASSUME NEW d \in Devices, NEW id \in Ids, DeleteVaultEntry(d, id)
      PROVE  Clocks' /\ NoClash' /\ SentIsOld' /\ LastWriteWins' /\ BuriedIsOlder'
  BY <1>8, DeleteKeeps
<1>9. ASSUME NEW d \in Devices, Receive(d)
      PROVE  Clocks' /\ NoClash' /\ SentIsOld' /\ LastWriteWins' /\ BuriedIsOlder'
  <2>1. PICK snapshot \in replies[d] :
            /\ copy' = [copy EXCEPT ![d] = Merged(copy[d], snapshot.rows, Ids)]
            /\ replies' = [replies EXCEPT ![d] = @ \ {snapshot}]
            /\ UNCHANGED <<clock, serverVars>>
    BY <1>9 DEF Receive
  <2>2. snapshot.rows \in Table
    BY <2>1 DEF IInv, TypeOK, Snapshot
  <2>3. ASSUME NEW e \in Devices, NEW i \in Ids PROVE copy'[e][i] \in Old(i)
    <3>1. CASE e # d
      BY <2>1, <3>1 DEF Old, IInv, TypeOK
    <3>2. CASE e = d
      <4>1. copy'[e][i] = Merged(copy[d], snapshot.rows, Ids)[i]
        BY <2>1, <3>2 DEF IInv, TypeOK
      <4>2. copy'[e][i] = copy[d][i] \/ copy'[e][i] = snapshot.rows[i]
        BY <2>2, <4>1, MergedRows DEF IInv, TypeOK
      <4>3. snapshot.rows[i] \in Old(i)
        BY DEF IInv, SentIsOld, Sent, Old
      <4> QED
        BY <4>2, <4>3 DEF Old
    <3> QED
      BY <3>1, <3>2
  <2>4. \A e \in Devices : replies'[e] \subseteq replies[e]
    BY <2>1 DEF IInv, TypeOK
  <2> QED
    BY <1>1, <2>1, <2>3, <2>4, DeviceKeeps DEF TypeOK, serverVars
<1>10. ASSUME NEW d \in Devices, NEW id \in Ids, Edit(d, id) \/ Seed(d, id)
       PROVE  Clocks' /\ NoClash' /\ SentIsOld' /\ LastWriteWins' /\ BuriedIsOlder'
  <2>1. PICK at \in {0, clock} :
            copy' = [copy EXCEPT ![d][id] = [at |-> at, by |-> d, deleted |-> FALSE]]
    <3>1. Now(d) = clock
      BY DEF Now, IInv, TypeOK
    <3> QED
      BY <1>10, <3>1 DEF Edit, Seed
  <2>2. ASSUME NEW e \in Devices, NEW i \in Ids
        PROVE  copy'[e][i] \in Old(i) \/ New(copy'[e][i])
    <3>1. CASE e = d /\ i = id
      <4>1. copy'[e][i] = [at |-> at, by |-> d, deleted |-> FALSE]
        BY <2>1, <3>1 DEF IInv, TypeOK, Table
      <4> QED
        BY <4>1 DEF New
    <3>2. CASE ~(e = d /\ i = id)
      BY <2>1, <3>2 DEF Old, IInv, TypeOK, Table
    <3> QED
      BY <3>1, <3>2
  <2>3. /\ clock' \in {clock, clock + 1}
        /\ UNCHANGED <<rows, arrived, buried, behind, replies>>
    BY <1>10 DEF Edit, Seed, serverVars
  <2> QED
    BY <1>1, <2>2, <2>3, DeviceKeeps DEF TypeOK
<1> QED
  BY <1>3, <1>4, <1>5, <1>6, <1>7, <1>8, <1>9, <1>10 DEF Next

(* The vault starts with nothing to contradict.                            *)
LEMMA Start == Init => IInv
<1> SUFFICES ASSUME Init PROVE IInv
  OBVIOUS
<1>1. NoRow \in Row /\ Empty \in Table /\ ~NoRow.deleted
  BY NoRowIsARow DEF Empty, Table, NoRow
<1>2. TypeOK
  BY <1>1 DEF Init, TypeOK, Empty
<1>3. Clocks /\ NoClash
  BY DEF Init, Clocks, NoClash, Clocked, Agree, Empty, NoRow
<1>4. SentIsOld /\ LastWriteWins /\ BuriedIsOlder
  BY DEF Init, SentIsOld, Sent, LastWriteWins, BuriedIsOlder, Empty
<1> QED
  BY <1>2, <1>3, <1>4 DEF IInv

(* The types of the vault's variables, whatever the clocks do.             *)
THEOREM TypeCorrect == Spec => []TypeOK
<1>1. Init => TypeOK
  BY Start DEF IInv
<1> QED
  BY <1>1, TypeStep, PTL DEF Spec

(* The invariant holds of a vault whose devices have the right time.       *)
LEMMA Invariant == ASSUME Fast = {} PROVE Spec => []IInv
<1>1. IInv /\ [Next]_vars => IInv'
  BY Step
<1> QED
  BY <1>1, Start, PTL DEF Spec

(* Each entry is the last write of all that arrived (state.rs:670-740).    *)
THEOREM LastWriteAlwaysWins == ASSUME Fast = {} PROVE Spec => []LastWriteWins
<1>1. IInv => LastWriteWins
  BY DEF IInv
<1> QED
  BY <1>1, Invariant, PTL

(* What was deleted does not come back (state.rs:742-758).                 *)
THEOREM DeletedIsGone == ASSUME Fast = {} PROVE Spec => []DeletedStaysDeleted
<1>1. ASSUME IInv PROVE DeletedStaysDeleted
  <2> SUFFICES ASSUME NEW id \in Ids, rows[id] \in buried[id] PROVE FALSE
    BY DEF DeletedStaysDeleted
  <2>1. rows[id] \in Row /\ Later(rows[id], rows[id])
    BY <1>1 DEF IInv, TypeOK, Table, BuriedIsOlder
  <2> QED
    BY <2>1, LaterIrreflexive
<1> QED
  BY <1>1, Invariant, PTL

-----------------------------------------------------------------------------
(* What a revision tells                                                   *)

(* No revision is from the future, and the current one is of these rows,    *)
(* but for what was written quietly.                                       *)
SentTells ==
    \A d \in Devices :
        /\ held[d] <= revision
        /\ \A snapshot \in Sent(d) :
              /\ snapshot.revision <= revision
              /\ snapshot.revision = revision =>
                    \A id \in Ids \ quiet : snapshot.rows[id] = rows[id]

RInv == IInv /\ SentTells /\ RevisionMeansNews

(* A write makes every revision a past one.                                *)
LEMMA WriteTells ==
    ASSUME IInv, SentTells, revision' = revision + 1, UNCHANGED held,
           \A d \in Devices : \A snapshot \in Sent(d)' :
               snapshot \in Sent(d) \/ (snapshot.revision = revision' /\ snapshot.rows = rows')
    PROVE  SentTells' /\ RevisionMeansNews'
<1>1. revision \in Nat /\ held \in [Devices -> Nat]
  BY DEF IInv, TypeOK
<1>2. \A d \in Devices : \A snapshot \in Sent(d) : snapshot.revision \in Nat
  BY DEF IInv, TypeOK, Snapshot, Sent
<1>3. ASSUME NEW d \in Devices PROVE held'[d] <= revision' /\ held'[d] # revision'
  <2>1. held[d] <= revision
    BY DEF SentTells
  <2> QED
    BY <1>1, <2>1
<1>4. ASSUME NEW d \in Devices, NEW snapshot \in Sent(d)'
      PROVE  /\ snapshot.revision <= revision'
             /\ snapshot.revision = revision' =>
                   \A id \in Ids \ quiet' : snapshot.rows[id] = rows'[id]
  <2>1. CASE snapshot \in Sent(d)
    <3>1. snapshot.revision \in Nat /\ snapshot.revision <= revision
      BY <1>2, <2>1 DEF SentTells
    <3> QED
      BY <1>1, <3>1
  <2>2. CASE snapshot.revision = revision' /\ snapshot.rows = rows'
    BY <1>1, <2>2
  <2> QED
    BY <2>1, <2>2
<1>5. SentTells'
  BY <1>3, <1>4 DEF SentTells
<1>6. RevisionMeansNews'
  BY <1>3 DEF RevisionMeansNews
<1> QED
  BY <1>5, <1>6

(* Every step keeps it, if no clock is fast.                               *)
LEMMA RevisionStep ==
    ASSUME Fast = {}, RInv, [Next]_vars
    PROVE  SentTells' /\ RevisionMeansNews'
<1> USE DEF RInv
<1>1. /\ rows \in Table /\ copy \in [Devices -> Table] /\ revision \in Nat
      /\ clock \in Nat \ {0} /\ held \in [Devices -> Nat]
  BY DEF IInv, TypeOK
<1>2. ASSUME UNCHANGED <<rows, revision, quiet, held, copy>>,
             \A d \in Devices : \A snapshot \in Sent(d)' :
                 snapshot \in Sent(d) \/ (snapshot.revision = revision /\ snapshot.rows = rows)
      PROVE  SentTells' /\ RevisionMeansNews'
  <2>1. RevisionMeansNews'
    BY <1>2 DEF RevisionMeansNews, Later
  <2>2. ASSUME NEW d \in Devices
        PROVE  /\ held[d] <= revision
               /\ \A snapshot \in Sent(d)' :
                     /\ snapshot.revision <= revision
                     /\ snapshot.revision = revision =>
                           \A id \in Ids \ quiet : snapshot.rows[id] = rows[id]
    BY <1>1, <1>2 DEF SentTells
  <2> QED
    BY <1>2, <2>1, <2>2 DEF SentTells
<1>3. CASE UNCHANGED vars
  BY <1>2, <1>3 DEF vars, serverVars, deviceVars, Sent
<1>4. ASSUME NEW d \in Devices, GetVault(d) PROVE SentTells' /\ RevisionMeansNews'
  <2>1. \A e \in Devices : \A snapshot \in Sent(e)' :
            snapshot \in Sent(e) \/ (snapshot.revision = revision /\ snapshot.rows = rows)
    BY <1>4 DEF GetVault, Replied, Sent, serverVars, IInv, TypeOK
  <2> QED
    BY <1>2, <1>4, <2>1 DEF GetVault, serverVars, deviceVars
<1>5. ASSUME NEW d \in Devices, PutVaultEntries(d) PROVE SentTells' /\ RevisionMeansNews'
  <2>1. /\ Replied(d, [rows |-> rows', revision |-> revision'])
        /\ revision' = revision + 1 /\ UNCHANGED <<behind, held>>
    BY <1>5 DEF PutVaultEntries, deviceVars
  <2>2. \A e \in Devices : \A snapshot \in Sent(e)' :
            snapshot \in Sent(e) \/ (snapshot.revision = revision' /\ snapshot.rows = rows')
    BY <2>1 DEF Replied, Sent, IInv, TypeOK
  <2> QED
    BY <2>1, <2>2, WriteTells
<1>6. ASSUME NEW d \in Devices, NEW id \in Ids, DeleteVaultEntry(d, id)
      PROVE  SentTells' /\ RevisionMeansNews'
  <2>1. /\ behind' = [behind EXCEPT ![d] = {[rows |-> rows', revision |-> revision']}]
        /\ revision' = revision + 1 /\ UNCHANGED <<replies, held>>
    BY <1>6 DEF DeleteVaultEntry, deviceVars
  <2>2. \A e \in Devices : \A snapshot \in Sent(e)' :
            snapshot \in Sent(e) \/ (snapshot.revision = revision' /\ snapshot.rows = rows')
    BY <2>1 DEF Sent, IInv, TypeOK
  <2> QED
    BY <2>1, <2>2, WriteTells
<1>7. ASSUME NEW d \in Devices, ReconcileDelete(d) PROVE SentTells' /\ RevisionMeansNews'
  <2>1. \A e \in Devices : Sent(e)' \subseteq Sent(e)
    BY <1>7 DEF ReconcileDelete, Replied, Sent, IInv, TypeOK
  <2> QED
    BY <1>2, <1>7, <2>1 DEF ReconcileDelete, deviceVars
<1>8. ASSUME NEW d \in Devices, Receive(d) PROVE SentTells' /\ RevisionMeansNews'
  <2>1. PICK snapshot \in replies[d] :
            /\ copy' = [copy EXCEPT ![d] = Merged(copy[d], snapshot.rows, Ids)]
            /\ held' = [held EXCEPT ![d] = snapshot.revision]
            /\ replies' = [replies EXCEPT ![d] = @ \ {snapshot}]
            /\ UNCHANGED <<clock, serverVars>>
    BY <1>8 DEF Receive
  <2>2. /\ snapshot.rows \in Table /\ snapshot.revision \in Nat
        /\ snapshot.revision <= revision
        /\ snapshot.revision = revision => \A id \in Ids \ quiet : snapshot.rows[id] = rows[id]
    BY <2>1 DEF IInv, TypeOK, Snapshot, SentTells, Sent
  <2>3. \A e \in Devices : Sent(e)' \subseteq Sent(e)
    BY <2>1 DEF Sent, serverVars, IInv, TypeOK
  <2>4. SentTells'
    BY <1>1, <2>1, <2>2, <2>3 DEF SentTells, serverVars
  <2>5. ASSUME NEW e \in Devices, held'[e] = revision, NEW i \in Ids \ quiet
        PROVE  copy'[e][i] = rows[i] \/ Later(copy'[e][i], rows[i])
    <3>1. CASE e # d
      BY <1>1, <2>1, <2>5, <3>1 DEF RevisionMeansNews
    <3>2. CASE e = d
      <4>1. /\ snapshot.rows[i] = rows[i]
            /\ copy'[e][i] = Merged(copy[d], snapshot.rows, Ids)[i]
        BY <1>1, <2>1, <2>2, <2>5, <3>2
      <4>2. CASE copy'[e][i] = rows[i]
        BY <4>2
      <4>3. CASE copy'[e][i] = copy[d][i] /\ ~Later(rows[i], copy[d][i])
        <5>1. rows[i] \in Old(i) /\ copy[d][i] \in Old(i)
          BY DEF IInv, LastWriteWins, Old
        <5>2. rows[i] \in Row /\ copy[d][i] \in Row /\ Agree(rows[i], copy[d][i])
          BY <5>1, OldAgree
        <5> QED
          BY <4>3, <5>2, LaterTotal
      <4> QED
        BY <1>1, <2>2, <4>1, <4>2, <4>3, MergedRows
    <3> QED
      BY <3>1, <3>2
  <2>6. RevisionMeansNews'
    BY <2>1, <2>5 DEF RevisionMeansNews, Later, serverVars
  <2> QED
    BY <2>4, <2>6
<1>9. ASSUME NEW d \in Devices, NEW id \in Ids, Edit(d, id) \/ Seed(d, id)
      PROVE  SentTells' /\ RevisionMeansNews'
  <2>1. PICK at \in {0, clock} :
            /\ copy' = [copy EXCEPT ![d][id] = [at |-> at, by |-> d, deleted |-> FALSE]]
            /\ \/ copy[d][id] = NoRow
               \/ at = clock /\ (copy[d][id].at # clock \/ copy[d][id].by < d)
    <3>1. Now(d) = clock
      BY <1>1 DEF Now
    <3> QED
      BY <1>9, <3>1 DEF Edit, Seed
  <2> DEFINE row == [at |-> at, by |-> d, deleted |-> FALSE]
  <2>2. row \in Row /\ row.at = at /\ row.by = d /\ d \in Nat /\ d > 0 /\ at \in Nat
    BY <1>1, VaultAssumption DEF Row
  <2>3. copy[d][id] \in Row /\ copy[d][id].at <= clock
    BY <1>1 DEF Table, IInv, Clocks, Clocked
  <2>4. copy[d][id].at \in Nat /\ copy[d][id].by \in Nat
    BY <2>3, RowFields
  <2>5. Later(row, copy[d][id])
    <3>1. CASE copy[d][id] = NoRow
      BY <2>2, <3>1 DEF Later, NoRow
    <3>2. CASE at = clock /\ (copy[d][id].at # clock \/ copy[d][id].by < d)
      BY <1>1, <2>2, <2>3, <2>4, <3>2 DEF Later
    <3> QED
      BY <2>1, <3>1, <3>2
  <2> HIDE DEF row
  <2>6. /\ UNCHANGED <<rows, revision, quiet, held, behind, replies>>
        /\ copy' = [copy EXCEPT ![d][id] = row]
    BY <1>9, <2>1 DEF Edit, Seed, serverVars, row
  <2>7. ASSUME NEW e \in Devices, held[e] = revision, NEW i \in Ids \ quiet
        PROVE  copy'[e][i] = rows[i] \/ Later(copy'[e][i], rows[i])
    <3>1. copy[e][i] = rows[i] \/ Later(copy[e][i], rows[i])
      BY <2>7 DEF RevisionMeansNews
    <3>2. CASE e = d /\ i = id
      <4>1. copy'[e][i] = row /\ rows[i] \in Row
        BY <1>1, <2>6, <3>2 DEF Table
      <4> QED
        BY <2>2, <2>3, <2>5, <3>1, <3>2, <4>1, LaterTransitive
    <3>3. CASE ~(e = d /\ i = id)
      BY <1>1, <2>6, <3>1, <3>3 DEF Table
    <3> QED
      BY <3>2, <3>3
  <2>8. RevisionMeansNews'
    BY <2>6, <2>7 DEF RevisionMeansNews, Later
  <2> QED
    BY <2>6, <2>8 DEF SentTells, Sent
<1>10. ASSUME NEW d \in Devices, PutRefused(d) PROVE SentTells' /\ RevisionMeansNews'
  <2>1. PICK S \in SUBSET Pushed(d) :
            rows' = Merged(rows, copy[d], S) /\ quiet' = quiet \cup S
    BY <1>10 DEF PutRefused
  <2>2. UNCHANGED <<revision, behind, replies, held, copy>>
    BY <1>10 DEF PutRefused, deviceVars
  <2>3. \A id \in Ids \ quiet' : id \notin quiet /\ rows'[id] = rows[id]
    BY <2>1 DEF Merged
  <2>4. \A e \in Devices : Sent(e)' = Sent(e)
    BY <2>2 DEF Sent
  <2>5. SentTells'
    BY <2>2, <2>3, <2>4 DEF SentTells
  <2>6. RevisionMeansNews'
    BY <2>2, <2>3 DEF RevisionMeansNews, Later
  <2> QED
    BY <2>5, <2>6
<1> QED
  BY <1>3, <1>4, <1>5, <1>6, <1>7, <1>8, <1>9, <1>10 DEF Next

(* A device at the current revision has all there is (the proto's          *)
(* VaultSnapshot).                                                         *)
THEOREM RevisionTellsAll ==
    ASSUME Fast = {}
    PROVE  Spec => []RevisionMeansNews
<1>1. Init => RInv
  <2>1. Init => SentTells /\ RevisionMeansNews
    BY DEF Init, SentTells, Sent, RevisionMeansNews, Empty
  <2> QED
    BY <2>1, Start DEF RInv
<1>2. RInv /\ [Next]_vars => RInv'
  BY RevisionStep, Step DEF RInv
<1>3. RInv => RevisionMeansNews
  BY DEF RInv
<1> QED
  BY <1>1, <1>2, <1>3, PTL DEF Spec

-----------------------------------------------------------------------------
(* What the file holds                                                     *)

(* While the rendering of a delete is to come, no other write is served:   *)
(* what a lock held through the rendering would see to.                    *)
NoWriteBetween == (\E d \in Devices : behind[d] # {}) => UNCHANGED <<rows, revision>>

OneAtATimeSpec == Init /\ [][Next /\ NoWriteBetween]_vars

(* Two tables say the same of what no request cut short has written.       *)
SameButQuiet(table, other) == \A id \in Ids \ quiet : table[id] = other[id]

FileInStep == (\A d \in Devices : behind[d] = {}) => SameButQuiet(disk, Live(rows))

FileInv ==
    /\ TypeOK
    /\ \A d \in Devices : \A snapshot \in behind[d] : SameButQuiet(snapshot.rows, rows)
    /\ FileInStep
    /\ ~MayRefuse => quiet = {}

LEMMA FileStep == ASSUME ~MayFail, FileInv, [Next /\ NoWriteBetween]_vars PROVE FileInv'
<1> USE DEF FileInv, FileInStep, SameButQuiet
<1>1. TypeOK'
  BY TypeStep
<1>2. CASE UNCHANGED <<rows, disk, behind, quiet>>
  BY <1>1, <1>2
<1>3. ASSUME NEW d \in Devices, PutVaultEntries(d), NoWriteBetween PROVE FileInv'
  <2>1. revision' = revision + 1 /\ revision \in Nat
    BY <1>3 DEF PutVaultEntries, TypeOK
  <2>2. \A e \in Devices : behind'[e] = {}
    BY <1>3, <2>1 DEF NoWriteBetween, PutVaultEntries
  <2>3. disk' = Live(rows') /\ quiet' = {}
    BY <1>3 DEF PutVaultEntries, Rendered
  <2> QED
    BY <1>1, <2>2, <2>3 DEF Live
<1>4. ASSUME NEW d \in Devices, PutRefused(d), NoWriteBetween PROVE FileInv'
  <2>1. PICK S \in SUBSET Pushed(d) :
            /\ MayRefuse
            /\ rows' = Merged(rows, copy[d], S) /\ quiet' = quiet \cup S
            /\ UNCHANGED <<disk, behind>>
    BY <1>4 DEF PutRefused
  <2>2. \A id \in Ids \ quiet' : id \notin quiet /\ rows'[id] = rows[id]
    BY <2>1 DEF Merged
  <2>3. \A id \in Ids \ quiet' : Live(rows)'[id] = Live(rows)[id]
    BY <2>2 DEF Live
  <2> QED
    BY <1>1, <2>1, <2>2, <2>3
<1>5. ASSUME NEW d \in Devices, NEW id \in Ids, DeleteVaultEntry(d, id), NoWriteBetween
      PROVE  FileInv'
  <2>1. revision' = revision + 1 /\ revision \in Nat
    BY <1>5 DEF DeleteVaultEntry, TypeOK
  <2>2. \A e \in Devices : behind[e] = {}
    BY <1>5, <2>1 DEF NoWriteBetween
  <2>3. behind' = [behind EXCEPT ![d] = {[rows |-> rows', revision |-> revision']}] /\ quiet' = {}
    BY <1>5 DEF DeleteVaultEntry
  <2>4. behind'[d] = {[rows |-> rows', revision |-> revision']}
        /\ \A e \in Devices \ {d} : behind'[e] = {}
    <3>1. behind \in [Devices -> SUBSET Snapshot]
      BY DEF TypeOK
    <3> QED
      BY <2>2, <2>3, <3>1, Zenon
  <2>5. behind'[d] # {} /\ \A e \in Devices : \A snapshot \in behind'[e] : snapshot.rows = rows'
    BY <2>4
  <2> QED
    BY <1>1, <2>3, <2>5
<1>6. ASSUME NEW d \in Devices, ReconcileDelete(d) PROVE FileInv'
  <2>1. PICK snapshot \in behind[d] :
            /\ disk' = Live(snapshot.rows)
            /\ behind' = [behind EXCEPT ![d] = {}]
            /\ UNCHANGED <<rows, quiet>>
    BY <1>6 DEF ReconcileDelete, Rendered
  <2>2. SameButQuiet(snapshot.rows, rows)
    BY <2>1
  <2>3. SameButQuiet(disk', Live(rows))
    BY <2>1, <2>2 DEF Live
  <2>4. \A e \in Devices : behind'[e] \subseteq behind[e]
    BY <2>1 DEF TypeOK
  <2> QED
    BY <1>1, <2>1, <2>3, <2>4 DEF Live
<1>7. ASSUME NEW d \in Devices, GetVault(d) \/ Receive(d) PROVE UNCHANGED <<rows, disk, behind, quiet>>
  BY <1>7 DEF GetVault, Receive, serverVars
<1>8. ASSUME NEW d \in Devices, NEW id \in Ids, Edit(d, id) \/ Seed(d, id)
      PROVE  UNCHANGED <<rows, disk, behind, quiet>>
  BY <1>8 DEF Edit, Seed, serverVars
<1>9. CASE UNCHANGED vars
  BY <1>2, <1>9 DEF vars, serverVars
<1> QED
  BY <1>2, <1>3, <1>4, <1>5, <1>6, <1>7, <1>8, <1>9 DEF Next

(* The file lags behind the vault in three ways only: a rendering failed,  *)
(* which is logged and left (api.rs:1121-1123), a request was cut short,   *)
(* or another write was served between a delete and its rendering.  Where  *)
(* nothing fails, the lock that DeleteVaultEntry lets go of before it      *)
(* renders (api.rs:355-356) is what is missing.                            *)
THEOREM FileFollowsTheVault ==
    ASSUME ~MayRefuse, ~MayFail
    PROVE  OneAtATimeSpec => []FileHoldsTheVault
<1>1. Init => FileInv
  <2>1. Init => TypeOK
    BY Start DEF IInv
  <2> QED
    BY <2>1 DEF Init, FileInv, FileInStep, SameButQuiet, Live, Empty, NoRow
<1>2. FileInv /\ [Next /\ NoWriteBetween]_vars => FileInv'
  BY FileStep
<1>3. FileInv => FileHoldsTheVault
  <2> SUFFICES ASSUME FileInv, \A d \in Devices : behind[d] = {} PROVE disk = Live(rows)
    BY DEF FileHoldsTheVault
  <2>1. \A id \in Ids : disk[id] = Live(rows)[id]
    BY DEF FileInv, FileInStep, SameButQuiet
  <2>2. disk \in Table /\ Live(rows) \in Table
    BY LiveType DEF FileInv, TypeOK
  <2> QED
    BY <2>1, <2>2 DEF Table
<1> QED
  BY <1>1, <1>2, <1>3, PTL DEF OneAtATimeSpec
=============================================================================

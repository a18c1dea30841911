---------------------------- MODULE RowMetadata ----------------------------
(***************************************************************************)
(* The metadata buildUserFSTree makes of one fsentries row (server.go):    *)
(* the row scan, the NULL handling of each column, and buildMetadata.  The *)
(* metadata is what CalculateHash serialises, so two loads of the same row *)
(* must give the same map for a reloaded tree to keep its hashes.          *)
(*                                                                         *)
(* The record holds one row, unchanged; the server loads it again and      *)
(* again (each eviction is followed by a reload), while the clock moves.   *)
(* Columns that buildMetadata treats alike are represented by one of them: *)
(* symlink_path and metadata for the seven getStringValue columns,         *)
(* is_public for getBoolValue, is_shortcut for the three getIntValue ones. *)
(***************************************************************************)
EXTENDS Naturals, Sequences

CONSTANTS
    Null,       \* SQL NULL
    Names,      \* names and uuids that occur in paths
    Strings,    \* values of the nullable string columns
    Sizes,      \* values of size
    Times,      \* values of the created, modified and accessed columns
    MaxTime,    \* the clock's bound
    MaxLoads    \* how many times the row is loaded

ASSUME /\ Null \notin Names /\ Null \notin Strings /\ Null \notin Sizes
       /\ Null \notin Times /\ Null \notin BOOLEAN

Nullable(S) == S \cup {Null}

\* The columns of the query; name, path, is_dir and the times other than
\* accessed are scanned into Go values that cannot hold NULL.
Row == [uuid : Names, name : Nullable(Names), path : {<<n>> : n \in Names} \cup {<<n, m>> : n, m \in Names},
        parent_uid : Nullable(Names), is_dir : BOOLEAN, size : Nullable(Sizes),
        created : Times, modified : Times, accessed : Nullable(Times),
        is_public : Nullable(BOOLEAN), is_shortcut : Nullable(BOOLEAN),
        symlink_path : Nullable(Strings), metadata : Nullable(Strings)]

VARIABLES
    row,     \* the user's row in the source of record
    now,     \* time.Now().Unix()
    loads    \* the metadata of each load so far, or Skipped

vars == <<row, now, loads>>

-----------------------------------------------------------------------------
(* server.go: the sql.Null* accessors                                      *)

GetStringValue(ns) == ns                        \* the string, or nil
GetBoolValue(nb) == nb                          \* the bool, or nil
GetIntValue(nb) == IF nb = TRUE THEN 1 ELSE 0   \* NULL and false are 0
GetInt64Value(ni) == ni                         \* the int64, or nil

\* filepath.Dir: the path without its last element; Dir("/x") is "/".
Dir(path) == SubSeq(path, 1, Len(path) - 1)

\* buildMetadata.  is_empty is true for files, and for directories whose
\* size is NULL or 0.  The constant keys (owner, layout, shares, ...) are
\* left out: they are the same on every load.
BuildMetadata(r, parentUID, accessedAt) ==
    [is_empty     |-> ~r.is_dir \/ r.size \in {Null, 0},
     id           |-> r.uuid,
     parent_uid   |-> parentUID,
     is_dir       |-> r.is_dir,
     is_public    |-> GetBoolValue(r.is_public),
     is_shortcut  |-> GetIntValue(r.is_shortcut),
     symlink_path |-> GetStringValue(r.symlink_path),
     metadata     |-> GetStringValue(r.metadata),
     name         |-> r.name,
     modified     |-> r.modified,
     created      |-> r.created,
     accessed     |-> accessedAt,
     size         |-> GetInt64Value(r.size),
     path         |-> r.path,
     dirname      |-> Dir(r.path),
     dirpath      |-> Dir(r.path),
     parent_id    |-> parentUID,
     uid          |-> r.uuid]

Skipped == [skipped |-> TRUE]

\* One iteration of buildUserFSTree's row loop at time t: a Scan error
\* (NULL into the string name) skips the row; a NULL parent_uid becomes "";
\* a NULL accessed becomes the current time.
ScanRow(r, t) ==
    IF r.name = Null THEN Skipped
    ELSE BuildMetadata(r, IF r.parent_uid = Null THEN "" ELSE r.parent_uid,
                       IF r.accessed = Null THEN t ELSE r.accessed)

-----------------------------------------------------------------------------

Init ==
    /\ row \in Row
    /\ now \in Times
    /\ loads = <<>>

\* A minute passes.
Tick ==
    /\ now < MaxTime
    /\ now' = now + 1
    /\ UNCHANGED <<row, loads>>

\* getReadableTree misses (the tree was evicted or never loaded) and
\* buildUserFSTree reads the row.
Load ==
    /\ Len(loads) < MaxLoads
    /\ loads' = Append(loads, ScanRow(row, now))
    /\ UNCHANGED <<row, now>>

Next == Tick \/ Load

Spec == Init /\ [][Next]_vars

-----------------------------------------------------------------------------
(* Properties                                                              *)

\* Spec 4.4: NULL columns are kept as NULL so that the serialisation, and
\* with it the hash, is stable: loading an unchanged row again gives the
\* same metadata.  buildUserFSTree fills a NULL accessed with time.Now().
MetadataStable == \A i, j \in DOMAIN loads : loads[i] = loads[j]

=============================================================================

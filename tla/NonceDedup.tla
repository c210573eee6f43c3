----------------------------- MODULE NonceDedup -----------------------------
(***************************************************************************)
(* The nonces table and the SQL functions that read and write it.  A row   *)
(* is keyed by (chain_id, nonce, authorizer), which is one "authorization" *)
(* here; its columns are event_id, source and reorged_at.  Every operator  *)
(* below is one SQL statement or one plpgsql function, which Postgres runs *)
(* atomically (the ON CONFLICT insert and the SELECT ... FOR UPDATE).      *)
(***************************************************************************)

CONSTANTS
    EventIds,   \* the uuids that events.id can take
    NULL        \* SQL NULL

ASSUME NullIsNoEvent == NULL \notin EventIds

Sources == {"facilitator", "goldsky"}

\* A row of the table; "absent" stands for no row, "reorged" for a row whose
\* reorged_at is set.  The source column defaults to 'goldsky'.
NonceRow == [state  : {"absent", "active", "reorged"},
             event  : EventIds \cup {NULL},
             source : Sources]

NoNonce == [state |-> "absent", event |-> NULL, source |-> "goldsky"]

\* Mutant: a claim without an event id is taken for no claim at all.
IsNewUnlessNamed(row) == row.state # "active" \/ row.event = NULL

\* record_nonce_or_correlate answers is_new = TRUE when the insert finds no
\* row, and when the row it finds was reorged and is reclaimed.
IsNew(row) == row.state \in {"absent", "reorged"}

\* The row after a claim: a fresh insert and a reclaim write the same columns.
Claimed(e, src) == [state |-> "active", event |-> e, source |-> src]

\* An active duplicate returns (existing_event_id, existing_source); the
\* Goldsky handler promotes when the claim is the facilitator's and has an id.
Correlates(row) ==
    /\ row.state = "active"
    /\ row.source = "facilitator"
    /\ row.event # NULL

\* UPDATE nonces SET reorged_at = now()
\*  WHERE event_id = e AND reorged_at IS NULL; NULL = e is never true.
InvalidateByEventId(table, e) ==
    [a \in DOMAIN table |->
        IF table[a].state = "active" /\ table[a].event = e
        THEN [table[a] EXCEPT !.state = "reorged"]
        ELSE table[a]]

\* archive_old_nonces moves a row that was not reorged out of the table.  Only
\* record_nonce_with_reorg, which nothing calls, reads the archive.
Archivable(row) == row.state = "active"
=============================================================================

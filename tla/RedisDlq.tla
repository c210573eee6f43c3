------------------------------ MODULE RedisDlq ------------------------------
(***************************************************************************)
(* The dead-letter stream tripwire:dlq and its readers.  Every instance    *)
(* runs one RedisDLQConsumer, which XREADs from the last id it has seen    *)
(* and keeps that id in memory only.  Entry i of the stream is dlq[i], the *)
(* message it carries; Gone marks an entry that is no longer in Redis.     *)
(***************************************************************************)
EXTENDS Naturals, Sequences, FiniteSets

CONSTANTS
    MaxMsgs,        \* bound on the number of logs ever received
    MaxDlq,         \* bound on the number of dead letters
    MaxRestarts,    \* bound on the number of restarts
    Monitors,       \* instances running a RedisDLQConsumer
    DlqBatch,       \* _BATCH_SIZE of the XREAD
    TrimThreshold,  \* _TRIM_THRESHOLD
    TrimLen         \* the maxlen of the XTRIM

ASSUME MsgBound == MaxMsgs \in Nat
ASSUME DlqBounds == MaxDlq \in Nat /\ DlqBatch \in Nat \ {0}
ASSUME RestartBound == MaxRestarts \in Nat
ASSUME TrimType == TrimThreshold \in Nat /\ TrimLen \in Nat

Ids == 1..MaxMsgs
Gone == 0
Letters == 1..MaxDlq

VARIABLES
    dlq,        \* the stream
    cursor,     \* _last_id of each consumer
    fetched,    \* the entries of the current XREAD still to be handled
    round,      \* how many messages the current poll has handled
    restarts,   \* how many times a consumer has been restarted
    alerted     \* entries logged, counted and alerted by some consumer

dlqVars == <<dlq, cursor, fetched, round, restarts, alerted>>
monitorVars == <<cursor, fetched, round, restarts, alerted>>

DlqTypeOK ==
    /\ dlq \in Seq(Ids \cup {Gone}) /\ Len(dlq) <= MaxDlq
    /\ cursor \in [Monitors -> 0..MaxDlq]
    /\ fetched \in [Monitors -> SUBSET Letters]
    /\ round \in [Monitors -> Nat]
    /\ restarts \in 0..MaxRestarts
    /\ alerted \subseteq Letters

\* Mutant: a consumer starts at the end of the stream ("$").
CursorAtEnd == Len(dlq)

\* A new consumer starts at "0-0".
CursorStart == 0

DlqInit ==
    /\ dlq = <<>>
    /\ cursor = [c \in Monitors |-> CursorStart]
    /\ fetched = [c \in Monitors |-> {}]
    /\ round = [c \in Monitors |-> 0]
    /\ restarts = 0
    /\ alerted = {}

\* The entries an XREAD after position p can return.
Unseen(p) == {i \in DOMAIN dlq : i > p /\ dlq[i] # Gone}

\* _poll_once: XREAD of the next DlqBatch entries.
DlqRead(c) ==
    /\ fetched[c] = {}
    /\ Unseen(cursor[c]) # {}
    /\ fetched' = [fetched EXCEPT ![c] =
                    {i \in Unseen(cursor[c]) :
                        Cardinality({j \in Unseen(cursor[c]) : j < i}) < DlqBatch}]
    /\ round' = [round EXCEPT ![c] = 0]
    /\ UNCHANGED <<dlq, cursor, restarts, alerted>>

\* XTRIM to the newest TrimLen entries.
Trimmed == [i \in DOMAIN dlq |->
               IF Cardinality({j \in DOMAIN dlq : j >= i /\ dlq[j] # Gone}) > TrimLen
               THEN Gone ELSE dlq[i]]

\* _handle_message of the oldest entry: log, count, alert (a failed alert is
\* swallowed), and only then move the position.  After the last one the stream
\* is trimmed if this poll has handled TrimThreshold messages.
DlqHandle(c) ==
    \E i \in fetched[c] :
        /\ \A j \in fetched[c] : i <= j
        /\ alerted' = alerted \cup {i}
        /\ cursor' = [cursor EXCEPT ![c] = i]
        /\ fetched' = [fetched EXCEPT ![c] = @ \ {i}]
        /\ round' = [round EXCEPT ![c] = @ + 1]
        /\ dlq' = IF fetched[c] = {i} /\ round[c] + 1 >= TrimThreshold
                  THEN Trimmed ELSE dlq
        /\ UNCHANGED restarts

\* The instance restarts: its position is lost, and the stream is replayed.
MonitorRestart(c) ==
    /\ restarts < MaxRestarts
    /\ restarts' = restarts + 1
    /\ cursor' = [cursor EXCEPT ![c] = CursorStart]
    /\ fetched' = [fetched EXCEPT ![c] = {}]
    /\ round' = [round EXCEPT ![c] = 0]
    /\ UNCHANGED <<dlq, alerted>>
=============================================================================

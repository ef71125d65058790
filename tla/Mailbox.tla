------------------------------- MODULE Mailbox -------------------------------
(***************************************************************************)
(* The bot's half of the mail, extensions/oasis-reach/src/mailbox.ts: it   *)
(* lists and reads the inbox the relay fills, keeps its own cursor of the  *)
(* ids it has read, and tells the relay by dropping receipts.  Saving the  *)
(* cursor and emitting the receipt are two writes with a crash between.    *)
(***************************************************************************)
EXTENDS CappedSeq, FiniteSets

CONSTANTS
    Bot, Msg,
    MaxCursor,     \* ids kept in the cursor file (2000 in the code)
    MaxFaults

VARIABLES
    inbox,         \* inbox[b]: what b finds in its read-only inbox
    receipts,      \* receipts[b]: ids in b's _receipt_ files
    age,           \* age[m]: days since the envelope's ts, newest first
    cursor,        \* cursor[b]: readIds of the cursor file, oldest first
    emit,          \* emit[b]: ids of the receipt b is about to drop
    seen,          \* history: seen[b]: messages b has rendered or dismissed
    faults

boxVars == <<cursor, emit, seen>>

BoxTypeOK ==
    /\ cursor \in [Bot -> Seq(Msg)]
    /\ emit \in [Bot -> SUBSET Msg]
    /\ seen \in [Bot -> SUBSET Msg]

BoxInit ==
    /\ cursor = [b \in Bot |-> <<>>]
    /\ emit = [b \in Bot |-> {}]
    /\ seen = [b \in Bot |-> {}]

\* listInbox's unread flag; unreadCount is the cardinality of this set.
Unread(b) == inbox[b] \ Elems(cursor[b])

Fault == faults < MaxFaults /\ faults' = faults + 1

\* saveState: the newest MaxCursor ids are kept; a failed write is swallowed.
Save(b, ids) ==
    \/ cursor' = [cursor EXCEPT ![b] = LastN(ids, MaxCursor)] /\ UNCHANGED faults
    \/ Fault /\ UNCHANGED cursor

\* readMessage on an unread id; an id in the cursor changes nothing.
ReadMessage(b, m) ==
    /\ emit[b] = {}
    /\ m \in Unread(b)
    /\ Save(b, Append(cursor[b], m))
    /\ emit' = [emit EXCEPT ![b] = {m}]
    /\ seen' = [seen EXCEPT ![b] = @ \cup {m}]
    /\ UNCHANGED <<inbox, receipts, age>>

\* The orders listInbox may give to S: newest ts first.
NewestFirst(S) ==
    {s \in [1..Cardinality(S) -> S] :
        \A i, j \in DOMAIN s : i < j => s[i] # s[j] /\ age[s[i]] <= age[s[j]]}

\* markAllRead pushes every unread id, newest message first.
MarkAllRead(b) ==
    /\ emit[b] = {}
    /\ Unread(b) # {}
    /\ \E s \in NewestFirst(Unread(b)) : Save(b, cursor[b] \o s)
    /\ emit' = [emit EXCEPT ![b] = Unread(b)]
    /\ seen' = [seen EXCEPT ![b] = @ \cup Unread(b)]
    /\ UNCHANGED <<inbox, receipts, age>>

\* The ids the receipt names.  Faulty variant: it names the inbox as it is now.
IdsListedNow(b) == inbox[b]
IdsToReport(b) == emit[b]

\* emitReadReceipt.
EmitReceipt(b) ==
    /\ emit[b] # {}
    /\ receipts' = [receipts EXCEPT ![b] = @ \cup IdsToReport(b)]
    /\ emit' = [emit EXCEPT ![b] = {}]
    /\ UNCHANGED <<inbox, age, cursor, seen, faults>>

\* The receipt is never written: the write fails, or the bot dies first.
LoseReceipt(b) ==
    /\ emit[b] # {}
    /\ Fault
    /\ emit' = [emit EXCEPT ![b] = {}]
    /\ UNCHANGED <<inbox, receipts, age, cursor, seen>>

\* The cursor file is lost or unreadable: loadState starts from nothing.
LoseCursor(b) ==
    /\ emit[b] = {}
    /\ cursor[b] # <<>>
    /\ Fault
    /\ cursor' = [cursor EXCEPT ![b] = <<>>]
    /\ UNCHANGED <<inbox, receipts, age, emit, seen>>

BoxNext ==
    \E b \in Bot :
        \/ MarkAllRead(b) \/ EmitReceipt(b) \/ LoseReceipt(b) \/ LoseCursor(b)
        \/ \E m \in Msg : ReadMessage(b, m)
=============================================================================

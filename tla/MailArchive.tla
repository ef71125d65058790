----------------------------- MODULE MailArchive -----------------------------
(***************************************************************************)
(* The archive of one mailbox, file by file.  The relay's retention sweep  *)
(* (scripts/claw-mail-relay.mjs) appends old mail to one plain shard per   *)
(* month and compresses the shards of closed months; the bot meanwhile     *)
(* recalls its whole history from the live inbox and the shards            *)
(* (readCorpus, extensions/oasis-reach/src/mailbox.ts), in another process *)
(* and without a lock.  MailRelay has the set of archived messages that    *)
(* these files hold.                                                       *)
(***************************************************************************)
EXTENDS CappedSeq

CONSTANTS
    Msg,
    MonthOf,     \* MonthOf[m]: the month of the envelope's ts
    LastMonth,   \* bound: the months are 1..LastMonth
    MaxFaults    \* bound: crashes and failed file operations

Month == 1..LastMonth

ASSUME MonthAssumption ==
    /\ LastMonth \in Nat \ {0}
    /\ MonthOf \in [Msg -> Month]
    /\ MaxFaults \in Nat

VARIABLES
    \* files
    live,        \* messages in the inbox
    plain,       \* plain[mo]: lines of <mo>.jsonl; <<>> when there is no file
    zipped,      \* zipped[mo]: lines of <mo>.jsonl.gz; <<>> when there is none
    \* the relay
    now,         \* the month it is
    pc, cm,      \* where the sweep is, its currentMonth
    files,       \* what is left of its listing
    item,        \* the message, or the month, in hand
    \* the bot
    rpc,         \* where the recall is
    toRead,      \* what is left of its listing
    recalled,    \* ids read so far
    \* history
    arrived, cut, faults,
    held,        \* what the bot held when its recall began
    closing      \* messages whose shard was compressed during the recall

shards  == <<plain, zipped>>
relay   == <<pc, cm, files, item>>
bot     == <<rpc, toRead, recalled, held>>
vars    == <<live, shards, now, relay, bot, arrived, cut, faults, closing>>

None == 0

ArchiveTypeOK ==
    /\ live \subseteq arrived /\ arrived \subseteq Msg /\ cut \subseteq arrived
    /\ \A mo \in Month :
        /\ plain[mo] \in Seq(arrived) /\ zipped[mo] \in Seq(arrived)
        /\ zipped[mo] # <<>> => mo < now
    /\ pc \in {"idle", "list", "remove", "zip", "unlink"}
    /\ cm \in 0..now
    /\ pc \in {"list", "remove"} => files \subseteq arrived
    /\ pc \in {"zip", "unlink"} => files \subseteq 1..(cm - 1)
    /\ rpc \in {"idle", "inbox", "shards", "done"}
    /\ recalled \subseteq arrived /\ held \subseteq arrived /\ closing \subseteq arrived
    /\ faults \in 0..MaxFaults

Init ==
    /\ live = {} /\ arrived = {} /\ cut = {} /\ closing = {} /\ held = {}
    /\ plain = [mo \in Month |-> <<>>] /\ zipped = [mo \in Month |-> <<>>]
    /\ now = 1
    /\ pc = "idle" /\ cm = 0 /\ files = {} /\ item = None
    /\ rpc = "idle" /\ toRead = {} /\ recalled = {}
    /\ faults = 0

\* The messages in any shard; what the bot holds.
Archived == UNION {Elems(plain[mo]) \cup Elems(zipped[mo]) : mo \in Month}
Holding == live \cup Archived

Fault == faults < MaxFaults /\ faults' = faults + 1

-----------------------------------------------------------------------------
\* A message dated this month or before is delivered.
Arrive(m) ==
    /\ m \notin arrived
    /\ MonthOf[m] <= now
    /\ live' = live \cup {m}
    /\ arrived' = arrived \cup {m}
    /\ UNCHANGED <<shards, now, relay, bot, cut, faults, closing>>

NextMonth ==
    /\ now < LastMonth
    /\ now' = now + 1
    /\ UNCHANGED <<live, shards, relay, bot, arrived, cut, faults, closing>>

\* A sweep takes the month and lists the inbox; S is what archiveIt accepts.
BeginSweep(S) ==
    /\ pc = "idle"
    /\ S \subseteq live
    /\ cm' = now
    /\ files' = S
    /\ pc' = "list"
    /\ UNCHANGED <<live, shards, now, item, bot, arrived, cut, faults, closing>>

\* appendToShard's month: a compressed month is never reopened.
\* Faulty variant: the month of the message, come what may.
OwnMonth(m) == MonthOf[m]
ShardMonth(m) == IF zipped[MonthOf[m]] # <<>> THEN cm ELSE MonthOf[m]

AppendToShard(m) ==
    /\ pc = "list"
    /\ m \in files
    /\ plain' = [plain EXCEPT ![ShardMonth(m)] = Append(@, m)]
    /\ item' = m
    /\ pc' = "remove"
    /\ UNCHANGED <<live, zipped, now, cm, files, bot, arrived, cut, faults, closing>>

AppendError(m) ==
    /\ pc = "list"
    /\ m \in files
    /\ Fault
    /\ files' = files \ {m}
    /\ UNCHANGED <<live, shards, now, pc, cm, item, bot, arrived, cut, closing>>

\* The inbox once the sweep has removed the file.
\* Faulty variant: it is not removed.
LiveKept == live
LiveWithout == live \ {item}

\* rmSync(src), which may throw and leave the message in both places.
RemoveLive ==
    /\ pc = "remove"
    /\ \/ live' = LiveWithout /\ UNCHANGED <<cut, faults>>
       \/ Fault /\ cut' = cut \cup {item} /\ UNCHANGED live
    /\ files' = files \ {item}
    /\ item' = None
    /\ pc' = "list"
    /\ UNCHANGED <<shards, now, cm, bot, arrived, closing>>

\* The plain shards of the months before currentMonth.
\* Faulty variant: the current month is taken along.
ShardsToNow == {mo \in Month : mo <= cm /\ plain[mo] # <<>>}
ClosedShards == {mo \in Month : mo < cm /\ plain[mo] # <<>>}

\* gzipClosedMonths lists what it will compress.
ListClosed ==
    /\ pc = "list"
    /\ files = {}
    /\ files' = ClosedShards
    /\ pc' = "zip"
    /\ UNCHANGED <<live, shards, now, cm, item, bot, arrived, cut, faults, closing>>

\* What the new .gz of mo holds: the old .gz, if there is one, then the shard.
\* Faulty variant: the new .gz is never written.
ZipUnwritten(mo) == zipped[mo]
ZipContent(mo) == zipped[mo] \o plain[mo]

\* The .gz is renamed into place; the plain shard is still there.
Compress(mo) ==
    /\ pc = "zip"
    /\ mo \in files
    /\ zipped' = [zipped EXCEPT ![mo] = ZipContent(mo)]
    /\ closing' = IF rpc = "idle" THEN closing ELSE closing \cup Elems(plain[mo])
    /\ item' = mo
    /\ pc' = "unlink"
    /\ UNCHANGED <<live, plain, now, cm, files, bot, arrived, cut, faults>>

\* Reading, compressing or renaming throws: the shard stays as it is.
ZipError(mo) ==
    /\ pc = "zip"
    /\ mo \in files
    /\ Fault
    /\ files' = files \ {mo}
    /\ UNCHANGED <<live, shards, now, pc, cm, item, bot, arrived, cut, closing>>

\* rmSync(plain), which may throw: both files hold the month.
Unlink ==
    /\ pc = "unlink"
    /\ \/ plain' = [plain EXCEPT ![item] = <<>>] /\ UNCHANGED <<cut, faults>>
       \/ Fault /\ cut' = cut \cup Elems(plain[item]) /\ UNCHANGED plain
    /\ files' = files \ {item}
    /\ item' = None
    /\ pc' = "zip"
    /\ UNCHANGED <<live, zipped, now, cm, bot, arrived, closing>>

EndSweep ==
    /\ pc = "zip"
    /\ files = {}
    /\ pc' = "idle"
    /\ cm' = 0
    /\ UNCHANGED <<live, shards, now, files, item, bot, arrived, cut, faults, closing>>

\* The relay dies: the files stay as they are.
Crash ==
    /\ pc # "idle"
    /\ Fault
    /\ cut' = CASE pc = "remove" -> cut \cup {item}
                [] pc = "unlink" -> cut \cup Elems(plain[item])
                [] OTHER -> cut
    /\ pc' = "idle" /\ cm' = 0 /\ files' = {} /\ item' = None
    /\ UNCHANGED <<live, shards, now, bot, arrived, closing>>

SweepStep ==
    \/ \E S \in SUBSET live : BeginSweep(S)
    \/ \E m \in Msg : AppendToShard(m)
    \/ RemoveLive \/ ListClosed \/ Unlink \/ EndSweep
    \/ \E mo \in Month : Compress(mo)

-----------------------------------------------------------------------------
(* readCorpus: the inbox first, then the shards, each listed and then read  *)
(* file by file; a file that is gone by then is skipped.                    *)

BeginRecall ==
    /\ rpc = "idle"
    /\ toRead' = live
    /\ recalled' = {}
    /\ held' = Holding
    /\ closing' = {}
    /\ rpc' = "inbox"
    /\ UNCHANGED <<live, shards, now, relay, arrived, cut, faults>>

ReadLive(m) ==
    /\ rpc = "inbox"
    /\ m \in toRead
    /\ recalled' = recalled \cup ({m} \cap live)
    /\ toRead' = toRead \ {m}
    /\ UNCHANGED <<live, shards, now, relay, rpc, held, arrived, cut, faults, closing>>

\* The shard files of the archive directory.
\* Faulty variant: only the plain ones are recognised.
PlainFiles == {<<"plain", mo>> : mo \in {mo \in Month : plain[mo] # <<>>}}
ShardFiles == PlainFiles \cup {<<"gz", mo>> : mo \in {mo \in Month : zipped[mo] # <<>>}}

ListShards ==
    /\ rpc = "inbox"
    /\ toRead = {}
    /\ toRead' = ShardFiles
    /\ rpc' = "shards"
    /\ UNCHANGED <<live, shards, now, relay, recalled, held, arrived, cut, faults, closing>>

ReadShard(f) ==
    /\ rpc = "shards"
    /\ f \in toRead
    /\ recalled' = recalled \cup
            Elems(IF f[1] = "gz" THEN zipped[f[2]] ELSE plain[f[2]])
    /\ toRead' = toRead \ {f}
    /\ UNCHANGED <<live, shards, now, relay, rpc, held, arrived, cut, faults, closing>>

EndRecall ==
    /\ rpc = "shards"
    /\ toRead = {}
    /\ rpc' = "done"
    /\ UNCHANGED <<live, shards, now, relay, toRead, recalled, held, arrived, cut, faults, closing>>

\* The caller has its list.
TakeRecall ==
    /\ rpc = "done"
    /\ rpc' = "idle"
    /\ recalled' = {} /\ held' = {} /\ closing' = {}
    /\ UNCHANGED <<live, shards, now, relay, toRead, arrived, cut, faults>>

RecallStep ==
    \/ BeginRecall \/ ListShards \/ EndRecall \/ TakeRecall
    \/ \E m \in Msg : ReadLive(m)
    \/ \E f \in {"plain", "gz"} \X Month : ReadShard(f)

Next ==
    \/ SweepStep \/ RecallStep \/ NextMonth \/ Crash
    \/ \E m \in Msg : Arrive(m) \/ AppendError(m)
    \/ \E mo \in Month : ZipError(mo)

Spec == Init /\ [][Next]_vars

-----------------------------------------------------------------------------
\* "Nothing is deleted": what a bot holds, live or in some shard, it holds
\* after every step of the sweep, of a crash and of a failed operation.
NothingDeleted == [][Holding \subseteq Holding']_vars

\* No line, or one line, of all these shard files names m.
NoLine(shard, m) == \A mo \in Month : m \notin Elems(shard[mo])
OneLine(shard, m) ==
    \E mo \in Month : \E i \in DOMAIN shard[mo] :
        \A k \in Month : \A j \in DOMAIN shard[k] : shard[k][j] = m <=> k = mo /\ j = i

InOneLine(m) ==
    \/ OneLine(plain, m) /\ NoLine(zipped, m)
    \/ NoLine(plain, m) /\ OneLine(zipped, m)

\* A message has one line in the shards and no live file, or a live file and
\* no line, except while a step moves it or after a fault in its move.
ArchivedOnce ==
    \A m \in arrived \ cut :
        \/ IF m \in live THEN NoLine(plain, m) /\ NoLine(zipped, m) ELSE InOneLine(m)
        \/ pc = "remove" /\ item = m
        \/ pc = "unlink" /\ m \in Elems(plain[item])

\* A compressed month is closed: a shard and a .gz of one month are there
\* together only while the shard is dropped, and then the .gz has every line
\* of it, so that dropping it loses nothing and reopening it never happens.
ClosedStaysClosed ==
    \A mo \in Month : zipped[mo] # <<>> => Elems(plain[mo]) \subseteq Elems(zipped[mo])

\* A recall misses nothing the bot held when it began, unless the shard that
\* has it was compressed meanwhile: the sweep appends before it removes and the
\* recall reads the inbox before the shards.
RecallMissesOnlyClosing == rpc = "done" => held \subseteq recalled \cup closing

\* "recall sees the whole history": it misses nothing at all.
RecallIsWhole == rpc = "done" => held \subseteq recalled

=============================================================================

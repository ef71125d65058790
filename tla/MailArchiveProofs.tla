-------------------------- MODULE MailArchiveProofs --------------------------
(***************************************************************************)
(* What the archive of a mailbox keeps while the sweep, a recall and any   *)
(* number of crashes and failed file operations interleave, for any mail,  *)
(* months and bounds.                                                      *)
(***************************************************************************)
EXTENDS MailArchive, TLAPS

(***************************************************************************)
(* The inductive invariant                                                 *)
(***************************************************************************)
FileTypes ==
    /\ now \in Month /\ cm \in 0..now
    /\ live \subseteq arrived /\ arrived \subseteq Msg /\ cut \subseteq arrived
    /\ plain \in [Month -> Seq(arrived)] /\ zipped \in [Month -> Seq(arrived)]
    /\ \A mo \in Month : zipped[mo] # <<>> => mo < now
    /\ faults \in 0..MaxFaults

\* Where the sweep is: while it moves mail, its list is of live messages and the one in
\* hand is in a shard; while it compresses, its list is of months closed when it began.
SweepOK ==
    /\ pc \in {"idle", "list", "remove", "zip", "unlink"}
    /\ pc # "idle" => cm \in Month /\ \A mo \in Month : zipped[mo] # <<>> => mo < cm
    /\ pc \in {"list", "remove"} => files \subseteq live
    /\ pc = "remove" => item \in files /\ \E mo \in Month : item \in Elems(plain[mo])
    /\ pc \in {"zip", "unlink"} => files \subseteq Month /\ files \subseteq 1..(cm - 1)
    /\ pc = "unlink" => item \in files /\ Elems(plain[item]) \subseteq Elems(zipped[item])

\* The shard file f, as a recall names it.
Content(f) == Elems(IF f[1] = "gz" THEN zipped[f[2]] ELSE plain[f[2]])

\* The recall has x, or will read a file with x that is not about to be dropped.
StillToRead(x) ==
    \E f \in toRead : x \in Content(f) /\ (pc = "unlink" => f # <<"plain", item>>)

RecallOK ==
    /\ rpc \in {"idle", "inbox", "shards", "done"}
    /\ recalled \subseteq arrived /\ held \subseteq arrived /\ closing \subseteq arrived
    /\ rpc = "shards" => toRead \subseteq {"plain", "gz"} \X Month
    /\ rpc = "inbox" => held \subseteq recalled \cup (toRead \cap live) \cup Archived
    /\ rpc = "shards" => \A x \in held : x \in recalled \cup closing \/ StillToRead(x)
    /\ rpc = "done" => held \subseteq recalled \cup closing

\* ArchivedOnce, and what becomes of the message that a step moves.
LineOf(m) ==
    \/ m \in live /\ NoLine(plain, m) /\ NoLine(zipped, m)
    \/ pc = "remove" /\ item = m /\ InOneLine(m)
    \/ m \notin live /\ InOneLine(m) /\ (pc = "unlink" => m \notin Elems(plain[item]))
    \/ /\ pc = "unlink" /\ m \in Elems(plain[item]) /\ m \notin live
       /\ OneLine(plain, m) /\ OneLine(zipped, m)

LinesOK == \A m \in arrived \ cut : LineOf(m)

ArchiveInv == FileTypes /\ SweepOK /\ RecallOK /\ ClosedStaysClosed /\ LinesOK

-----------------------------------------------------------------------------
(***************************************************************************)
(* Sequences and lines                                                     *)
(***************************************************************************)
LEMMA AppendFacts ==
    ASSUME NEW S, NEW s \in Seq(S), NEW x \in S
    PROVE  /\ Append(s, x) \in Seq(S) /\ Append(s, x) # <<>>
           /\ Elems(Append(s, x)) = Elems(s) \cup {x}
           /\ DOMAIN Append(s, x) = DOMAIN s \cup {Len(s) + 1} /\ Len(s) + 1 \notin DOMAIN s
           /\ Append(s, x)[Len(s) + 1] = x
           /\ \A i \in DOMAIN s : Append(s, x)[i] = s[i]
<1>1. /\ DOMAIN s = 1..Len(s) /\ Len(s) \in Nat
      /\ DOMAIN Append(s, x) = 1..(Len(s) + 1) /\ Append(s, x) \in Seq(S)
      /\ Append(s, x)[Len(s) + 1] = x /\ \A i \in 1..Len(s) : Append(s, x)[i] = s[i]
    OBVIOUS
<1>2. 1..(Len(s) + 1) = 1..Len(s) \cup {Len(s) + 1} /\ Len(s) + 1 \notin 1..Len(s)
    BY <1>1
<1>3. Elems(Append(s, x)) = Elems(s) \cup {x}
    BY <1>1, <1>2 DEF Elems
<1> QED BY <1>1, <1>2, <1>3

LEMMA ConcatFacts ==
    ASSUME NEW S, NEW s \in Seq(S), NEW t \in Seq(S)
    PROVE  /\ s \o t \in Seq(S)
           /\ Elems(s \o t) = Elems(s) \cup Elems(t)
           /\ \A i \in DOMAIN s : i \in DOMAIN (s \o t) /\ (s \o t)[i] = s[i]
           /\ \A i \in DOMAIN t : /\ Len(s) + i \in DOMAIN (s \o t)
                                  /\ (s \o t)[Len(s) + i] = t[i]
           /\ \A j \in DOMAIN (s \o t) :
                  j \in DOMAIN s \/ \E i \in DOMAIN t : j = Len(s) + i
           /\ \A i, j \in DOMAIN t : Len(s) + i \notin DOMAIN s
                                     /\ (Len(s) + i = Len(s) + j => i = j)
<1>1. /\ DOMAIN s = 1..Len(s) /\ DOMAIN t = 1..Len(t) /\ Len(s) \in Nat /\ Len(t) \in Nat
      /\ s \o t \in Seq(S) /\ Len(s \o t) = Len(s) + Len(t) /\ DOMAIN (s \o t) = 1..(Len(s) + Len(t))
      /\ \A i \in 1..(Len(s) + Len(t)) :
             (s \o t)[i] = IF i <= Len(s) THEN s[i] ELSE t[i - Len(s)]
    OBVIOUS
<1>2. \A i \in DOMAIN s : i \in DOMAIN (s \o t) /\ (s \o t)[i] = s[i]
    BY <1>1
<1>3. \A i \in DOMAIN t : Len(s) + i \in DOMAIN (s \o t) /\ (s \o t)[Len(s) + i] = t[i]
    BY <1>1
<1>4. ASSUME NEW j \in DOMAIN (s \o t)
      PROVE  j \in DOMAIN s \/ \E i \in DOMAIN t : j = Len(s) + i
    <2>1. CASE j <= Len(s)
        BY <1>1, <1>4, <2>1
    <2>2. CASE j > Len(s)
        <3>1. j - Len(s) \in 1..Len(t) /\ j = Len(s) + (j - Len(s))
            BY <1>1, <1>4, <2>2
        <3> QED BY <1>1, <3>1
    <2> QED BY <1>1, <1>4, <2>1, <2>2
<1>5. \A i, j \in DOMAIN t : Len(s) + i \notin DOMAIN s /\ (Len(s) + i = Len(s) + j => i = j)
    BY <1>1
<1>6. Elems(s \o t) = Elems(s) \cup Elems(t)
    <2>1. \A x \in Elems(s \o t) : x \in Elems(s) \cup Elems(t)
        <3>1. ASSUME NEW j \in DOMAIN (s \o t)
              PROVE  (s \o t)[j] \in Elems(s) \cup Elems(t)
            BY <1>2, <1>3, <1>4 DEF Elems
        <3> QED BY <3>1 DEF Elems
    <2>2. \A x \in Elems(s) \cup Elems(t) : x \in Elems(s \o t)
        BY <1>2, <1>3 DEF Elems
    <2> QED BY <2>1, <2>2
<1> QED BY <1>1, <1>2, <1>3, <1>4, <1>5, <1>6

\* A sequence over a set is one over a larger set.
LEMMA SeqGrows ==
    ASSUME NEW S, NEW T, S \subseteq T, NEW f \in [Month -> Seq(S)]
    PROVE  f \in [Month -> Seq(T)]
<1>1. \A s \in Seq(S) : s \in Seq(T)
    OBVIOUS
<1> QED BY <1>1

\* Line j of the shard of month k names m.
At(shard, m, k, j) == k \in Month /\ j \in DOMAIN shard[k] /\ shard[k][j] = m

LEMMA NoLineAt ==
    ASSUME NEW shard, NEW m
    PROVE  NoLine(shard, m) <=> \A k, j : ~At(shard, m, k, j)
BY DEF NoLine, At, Elems

LEMMA OneLineAt ==
    ASSUME NEW shard, NEW m
    PROVE  OneLine(shard, m) <=>
               \E mo, i : \A k, j : At(shard, m, k, j) <=> (k = mo /\ j = i)
<1>1. ASSUME OneLine(shard, m)
      PROVE  \E mo, i : \A k, j : At(shard, m, k, j) <=> (k = mo /\ j = i)
    <2>1. PICK mo \in Month : \E i \in DOMAIN shard[mo] :
              \A k \in Month : \A j \in DOMAIN shard[k] : shard[k][j] = m <=> k = mo /\ j = i
        BY <1>1 DEF OneLine
    <2>2. PICK i \in DOMAIN shard[mo] :
              \A k \in Month : \A j \in DOMAIN shard[k] : shard[k][j] = m <=> k = mo /\ j = i
        BY <2>1
    <2>3. \A k, j : At(shard, m, k, j) <=> (k = mo /\ j = i)
        BY <2>2 DEF At
    <2> QED BY <2>3
<1>2. ASSUME NEW mo, NEW i, \A k, j : At(shard, m, k, j) <=> (k = mo /\ j = i)
      PROVE  OneLine(shard, m)
    <2>1. At(shard, m, mo, i)
        BY <1>2
    <2>2. mo \in Month /\ i \in DOMAIN shard[mo]
        BY <2>1 DEF At
    <2>3. \A k \in Month : \A j \in DOMAIN shard[k] : shard[k][j] = m <=> k = mo /\ j = i
        BY <1>2 DEF At
    <2> QED BY <2>2, <2>3 DEF OneLine
<1> QED BY <1>1, <1>2

\* Two versions of the shards with the same lines of m.
LEMMA SameLines ==
    ASSUME NEW f, NEW g, NEW m, \A k, j : At(f, m, k, j) <=> At(g, m, k, j)
    PROVE  (NoLine(f, m) <=> NoLine(g, m)) /\ (OneLine(f, m) <=> OneLine(g, m))
<1>1. NoLine(f, m) <=> NoLine(g, m)
    BY NoLineAt
<1>2. ASSUME OneLine(f, m) PROVE OneLine(g, m)
    <2>1. PICK mo, i : \A k, j : At(f, m, k, j) <=> (k = mo /\ j = i)
        BY <1>2, OneLineAt
    <2>2. \A k, j : At(g, m, k, j) <=> (k = mo /\ j = i)
        BY <2>1
    <2>3. \E a, b : \A k, j : At(g, m, k, j) <=> (k = a /\ j = b)
        BY <2>2
    <2> QED BY <2>3, OneLineAt, Zenon
<1>3. ASSUME OneLine(g, m) PROVE OneLine(f, m)
    <2>1. PICK mo, i : \A k, j : At(g, m, k, j) <=> (k = mo /\ j = i)
        BY <1>3, OneLineAt
    <2>2. \A k, j : At(f, m, k, j) <=> (k = mo /\ j = i)
        BY <2>1
    <2>3. \E a, b : \A k, j : At(f, m, k, j) <=> (k = a /\ j = b)
        BY <2>2
    <2> QED BY <2>3, OneLineAt, Zenon
<1> QED BY <1>1, <1>2, <1>3

-----------------------------------------------------------------------------
(***************************************************************************)
(* What the steps that write a shard do                                    *)
(***************************************************************************)
\* A message is appended to a shard whose month has no .gz.
LEMMA Appends ==
    ASSUME ArchiveInv, NEW m \in Msg, AppendToShard(m)
    PROVE  /\ m \in files /\ m \in live /\ m \in arrived
           /\ plain' \in [Month -> Seq(arrived)]
           /\ \E s \in Month :
                  /\ zipped[s] = <<>>
                  /\ \A k \in Month : plain'[k] = IF k = s THEN Append(plain[s], m) ELSE plain[k]
<1> DEFINE s == ShardMonth(m)
<1>1. m \in files /\ m \in live /\ m \in arrived /\ plain \in [Month -> Seq(arrived)]
    BY DEF ArchiveInv, SweepOK, FileTypes, AppendToShard
<1>2. s \in Month /\ zipped[s] = <<>>
    <2>1. cm \in Month /\ \A mo \in Month : zipped[mo] # <<>> => mo < cm
        BY DEF ArchiveInv, SweepOK, AppendToShard
    <2>2. ~(cm < cm)
        BY <2>1 DEF Month
    <2>3. MonthOf[m] \in Month
        BY MonthAssumption
    <2> QED BY <2>1, <2>2, <2>3 DEF ShardMonth
<1>3. plain' = [plain EXCEPT ![s] = Append(@, m)]
    BY DEF AppendToShard
<1> HIDE DEF s
<1>4. Append(plain[s], m) \in Seq(arrived)
    BY <1>1, <1>2
<1>5. \A k \in Month : plain'[k] = IF k = s THEN Append(plain[s], m) ELSE plain[k]
    BY <1>1, <1>3
<1>6. plain' \in [Month -> Seq(arrived)]
    BY <1>1, <1>2, <1>3, <1>4
<1> QED BY <1>1, <1>2, <1>5, <1>6

\* The .gz of a closed month gets the lines of its shard.
LEMMA Compresses ==
    ASSUME ArchiveInv, NEW mo \in Month, Compress(mo)
    PROVE  /\ mo \in files /\ mo < cm
           /\ zipped' \in [Month -> Seq(arrived)]
           /\ \A k \in Month :
                  zipped'[k] = IF k = mo THEN zipped[mo] \o plain[mo] ELSE zipped[k]
           /\ plain[mo] \in Seq(arrived) /\ zipped[mo] \in Seq(arrived)
<1>1. /\ mo \in files /\ plain \in [Month -> Seq(arrived)] /\ zipped \in [Month -> Seq(arrived)]
      /\ zipped' = [zipped EXCEPT ![mo] = zipped[mo] \o plain[mo]]
    BY DEF ArchiveInv, FileTypes, Compress, ZipContent
<1>2. mo < cm
    <2>1. mo \in 1..(cm - 1) /\ cm \in Month
        BY <1>1 DEF ArchiveInv, SweepOK, Compress
    <2> QED BY <2>1 DEF Month
<1>3. zipped[mo] \o plain[mo] \in Seq(arrived)
    BY <1>1
<1>4. zipped' \in [Month -> Seq(arrived)]
    BY <1>1, <1>3
<1> QED BY <1>1, <1>2, <1>4

\* The shard goes, or its removal fails.
LEMMA Unlinks ==
    ASSUME ArchiveInv, Unlink
    PROVE  /\ item \in Month /\ item \in files
           /\ plain' \in [Month -> Seq(arrived)]
           /\ \/ cut' = cut /\ \A k \in Month : plain'[k] = IF k = item THEN <<>> ELSE plain[k]
              \/ plain' = plain /\ cut' = cut \cup Elems(plain[item])
<1>1. item \in Month /\ item \in files /\ plain \in [Month -> Seq(arrived)]
    BY DEF ArchiveInv, FileTypes, SweepOK, Unlink
<1>2. CASE plain' = [plain EXCEPT ![item] = <<>>] /\ UNCHANGED <<cut, faults>>
    <2>1. \A k \in Month : plain'[k] = IF k = item THEN <<>> ELSE plain[k]
        BY <1>1, <1>2
    <2>2. plain' \in [Month -> Seq(arrived)]
        BY <1>1, <1>2
    <2> QED BY <1>1, <1>2, <2>1, <2>2
<1>3. CASE plain' = plain /\ cut' = cut \cup Elems(plain[item])
    BY <1>1, <1>3
<1> QED BY <1>2, <1>3 DEF Unlink

\* Every line of a shard names a message that arrived.
LEMMA LinesArrived ==
    ASSUME ArchiveInv
    PROVE  \A k \in Month : Elems(plain[k]) \subseteq arrived /\ Elems(zipped[k]) \subseteq arrived
BY DEF ArchiveInv, FileTypes, Elems

LEMMA FaultCounts == ASSUME ArchiveInv, Fault PROVE faults' \in 0..MaxFaults
BY MonthAssumption DEF ArchiveInv, FileTypes, Fault

-----------------------------------------------------------------------------
LEMMA ArchiveStart == Init => ArchiveInv
<1> SUFFICES ASSUME Init PROVE ArchiveInv
    OBVIOUS
<1>1. plain \in [Month -> Seq(arrived)] /\ zipped \in [Month -> Seq(arrived)]
      /\ \A mo \in Month : plain[mo] = <<>> /\ zipped[mo] = <<>>
    BY DEF Init
<1>2. now \in Month /\ cm \in 0..now /\ faults \in 0..MaxFaults
    BY MonthAssumption DEF Init, Month
<1>3. FileTypes
    BY <1>1, <1>2 DEF Init, FileTypes
<1>4. SweepOK /\ RecallOK
    BY <1>1 DEF Init, SweepOK, RecallOK
<1>5. ClosedStaysClosed /\ LinesOK
    BY <1>1 DEF Init, ClosedStaysClosed, LinesOK
<1> QED BY <1>3, <1>4, <1>5 DEF ArchiveInv

LEMMA TypesStep == ASSUME ArchiveInv, [Next]_vars PROVE FileTypes'
<1>0. /\ FileTypes /\ now \in Nat /\ MaxFaults \in Nat /\ Month \subseteq Nat
      /\ plain \in [Month -> Seq(arrived)] /\ zipped \in [Month -> Seq(arrived)]
    BY MonthAssumption DEF ArchiveInv, FileTypes, Month
<1>1. ASSUME NEW m \in Msg, Arrive(m)
      PROVE  FileTypes'
    <2>1. arrived \subseteq arrived'
        BY <1>1 DEF Arrive
    <2>2. plain \in [Month -> Seq(arrived')] /\ zipped \in [Month -> Seq(arrived')]
        BY <1>0, <2>1, SeqGrows
    <2> QED BY <1>0, <1>1, <2>2 DEF Arrive, FileTypes, shards, relay
<1>2. CASE NextMonth
    <2>1. now' \in Month /\ cm \in 0..now' /\ now < now'
        BY <1>0, <1>2, MonthAssumption DEF NextMonth, Month, FileTypes
    <2>2. \A mo \in Month : zipped[mo] # <<>> => mo < now'
        BY <1>0, <2>1 DEF FileTypes, Month
    <2> QED BY <1>0, <1>2, <2>1, <2>2 DEF NextMonth, FileTypes, shards, relay
<1>3. ASSUME NEW S \in SUBSET live, BeginSweep(S)
      PROVE  FileTypes'
    BY <1>0, <1>3 DEF BeginSweep, FileTypes, shards, bot
<1>4. ASSUME NEW m \in Msg, AppendToShard(m)
      PROVE  FileTypes'
    BY <1>0, <1>4, Appends DEF AppendToShard, FileTypes
<1>5. ASSUME NEW m \in Msg, AppendError(m)
      PROVE  FileTypes'
    BY <1>0, <1>5, FaultCounts DEF AppendError, FileTypes, shards
<1>6. CASE RemoveLive
    <2>1. item \in live
        BY <1>6 DEF ArchiveInv, SweepOK, RemoveLive
    <2>2. faults' \in 0..MaxFaults
        BY <1>6, <1>0, FaultCounts DEF RemoveLive, FileTypes
    <2>3. live' \subseteq arrived /\ cut' \subseteq arrived
        BY <1>0, <1>6, <2>1 DEF RemoveLive, LiveWithout, FileTypes
    <2> QED BY <1>0, <1>6, <2>2, <2>3 DEF RemoveLive, FileTypes, shards
<1>7. CASE ListClosed
    BY <1>0, <1>7 DEF ListClosed, FileTypes, shards
<1>8. ASSUME NEW mo \in Month, Compress(mo)
      PROVE  FileTypes'
    <2>1. cm \in Month /\ cm <= now
        BY <1>0, <1>8 DEF ArchiveInv, SweepOK, FileTypes, Compress
    <2>2. mo < now
        BY <1>0, <1>8, <2>1, Compresses
    <2>3. \A k \in Month : zipped'[k] # <<>> => k < now
        BY <1>0, <1>8, <2>2, Compresses DEF FileTypes
    <2> QED BY <1>0, <1>8, <2>3, Compresses DEF Compress, FileTypes
<1>9. ASSUME NEW mo \in Month, ZipError(mo)
      PROVE  FileTypes'
    BY <1>0, <1>9, FaultCounts DEF ZipError, FileTypes, shards
<1>10. CASE Unlink
    <2>1. faults' \in 0..MaxFaults
        BY <1>10, <1>0, FaultCounts DEF Unlink, FileTypes
    <2>2. cut' \subseteq arrived
        BY <1>0, <1>10, Unlinks, LinesArrived DEF FileTypes
    <2> QED BY <1>0, <1>10, <2>1, <2>2, Unlinks DEF Unlink, FileTypes
<1>11. CASE EndSweep
    <2>1. 0 \in 0..now
        BY <1>0
    <2> QED BY <1>0, <1>11, <2>1 DEF EndSweep, FileTypes, shards
<1>12. CASE Crash
    <2>1. 0 \in 0..now /\ faults' \in 0..MaxFaults
        BY <1>0, <1>12, FaultCounts DEF Crash
    <2>2. cut' \subseteq arrived
        <3>1. pc = "remove" => item \in arrived
            BY <1>0 DEF ArchiveInv, SweepOK, FileTypes
        <3>2. pc = "unlink" => Elems(plain[item]) \subseteq arrived
            BY LinesArrived DEF ArchiveInv, SweepOK
        <3> QED BY <1>0, <1>12, <3>1, <3>2 DEF Crash, FileTypes
    <2> QED BY <1>0, <1>12, <2>1, <2>2 DEF Crash, FileTypes, shards
<1>13. CASE RecallStep \/ UNCHANGED vars
    <2>1. UNCHANGED <<live, plain, zipped, now, cm, arrived, cut, faults>>
        BY <1>13 DEF RecallStep, BeginRecall, ReadLive, ListShards, ReadShard, EndRecall, TakeRecall,
                     vars, shards, relay
    <2> QED BY <1>0, <2>1 DEF FileTypes
<1> QED BY <1>1, <1>2, <1>3, <1>4, <1>5, <1>6, <1>7, <1>8, <1>9, <1>10, <1>11, <1>12, <1>13
        DEF Next, SweepStep

LEMMA SweepStays ==
    ASSUME SweepOK, UNCHANGED <<plain, zipped, relay>>, live \subseteq live'
    PROVE  SweepOK'
BY DEF SweepOK, relay

LEMMA SweepSteps == ASSUME ArchiveInv, [Next]_vars PROVE SweepOK'
<1>0. SweepOK /\ FileTypes /\ Month \subseteq Nat
    BY DEF ArchiveInv, Month
<1>1. ASSUME NEW m \in Msg, Arrive(m)
      PROVE  SweepOK'
    BY <1>0, <1>1, SweepStays DEF Arrive, shards
<1>2. CASE NextMonth
    BY <1>0, <1>2, SweepStays DEF NextMonth, shards
<1>3. ASSUME NEW S \in SUBSET live, BeginSweep(S)
      PROVE  SweepOK'
    <2>1. /\ pc' = "list" /\ cm' = now /\ files' = S /\ UNCHANGED <<live, plain, zipped>>
        BY <1>3 DEF BeginSweep, shards
    <2>2. now \in Month /\ \A mo \in Month : zipped[mo] # <<>> => mo < now
        BY <1>0 DEF FileTypes
    <2> QED BY <2>1, <2>2 DEF SweepOK
<1>4. ASSUME NEW m \in Msg, AppendToShard(m)
      PROVE  SweepOK'
    <2>1. /\ pc = "list" /\ pc' = "remove" /\ item' = m /\ m \in files
          /\ UNCHANGED <<live, zipped, cm, files>>
        BY <1>4 DEF AppendToShard
    <2>2. PICK s \in Month : plain'[s] = Append(plain[s], m) /\ plain[s] \in Seq(arrived) /\ m \in arrived
        BY <1>0, <1>4, Appends DEF FileTypes
    <2>3. m \in Elems(plain'[s])
        BY <2>2, AppendFacts
    <2>4. \E mo \in Month : item' \in Elems(plain'[mo])
        BY <2>1, <2>3
    <2> QED BY <1>0, <2>1, <2>4 DEF SweepOK
<1>5. ASSUME NEW m \in Msg, AppendError(m)
      PROVE  SweepOK'
    BY <1>0, <1>5 DEF AppendError, SweepOK, shards
<1>6. CASE RemoveLive
    <2>1. /\ pc = "remove" /\ pc' = "list" /\ files' = files \ {item} /\ live \ {item} \subseteq live'
          /\ UNCHANGED <<plain, zipped, cm>>
        BY <1>6 DEF RemoveLive, LiveWithout, shards
    <2> QED BY <1>0, <2>1 DEF SweepOK
<1>7. CASE ListClosed
    <2>1. pc = "list" /\ pc' = "zip" /\ files' = ClosedShards /\ UNCHANGED <<live, plain, zipped, cm>>
        BY <1>7 DEF ListClosed, shards
    <2>2. cm \in Month /\ \A mo \in Month : zipped[mo] # <<>> => mo < cm
        BY <1>0, <2>1 DEF SweepOK
    <2>3. ClosedShards \subseteq Month /\ ClosedShards \subseteq 1..(cm - 1)
        BY <2>2 DEF ClosedShards, Month
    <2> QED BY <2>1, <2>2, <2>3 DEF SweepOK
<1>8. ASSUME NEW mo \in Month, Compress(mo)
      PROVE  SweepOK'
    <2>1. pc = "zip" /\ pc' = "unlink" /\ item' = mo /\ mo \in files /\ UNCHANGED <<live, plain, cm, files>>
        BY <1>8 DEF Compress
    <2>2. /\ mo < cm /\ plain[mo] \in Seq(arrived) /\ zipped[mo] \in Seq(arrived)
          /\ \A k \in Month : zipped'[k] = IF k = mo THEN zipped[mo] \o plain[mo] ELSE zipped[k]
        BY <1>8, Compresses
    <2>3. Elems(plain[mo]) \subseteq Elems(zipped'[mo])
        BY <2>2, ConcatFacts
    <2>4. cm \in Month /\ \A k \in Month : zipped'[k] # <<>> => k < cm
        BY <1>0, <2>1, <2>2 DEF SweepOK
    <2>5. files \subseteq Month /\ files \subseteq 1..(cm - 1)
        BY <1>0, <2>1 DEF SweepOK
    <2> QED BY <2>1, <2>3, <2>4, <2>5 DEF SweepOK
<1>9. ASSUME NEW mo \in Month, ZipError(mo)
      PROVE  SweepOK'
    BY <1>0, <1>9 DEF ZipError, SweepOK, shards
<1>10. CASE Unlink
    <2>1. pc = "unlink" /\ pc' = "zip" /\ files' = files \ {item} /\ UNCHANGED <<live, zipped, cm>>
        BY <1>10 DEF Unlink
    <2> QED BY <1>0, <2>1 DEF SweepOK
<1>11. CASE EndSweep
    BY <1>11 DEF EndSweep, SweepOK
<1>12. CASE Crash
    BY <1>12 DEF Crash, SweepOK
<1>13. CASE RecallStep \/ UNCHANGED vars
    <2>1. UNCHANGED <<live, plain, zipped, relay>>
        BY <1>13 DEF RecallStep, BeginRecall, ReadLive, ListShards, ReadShard, EndRecall, TakeRecall,
                     vars, shards
    <2> QED BY <1>0, <2>1, SweepStays
<1> QED BY <1>1, <1>2, <1>3, <1>4, <1>5, <1>6, <1>7, <1>8, <1>9, <1>10, <1>11, <1>12, <1>13
        DEF Next, SweepStep

\* What a step of the relay does to the shards: nothing is lost but by Unlink, which
\* leaves the .gz.
LEMMA ClosedSteps == ASSUME ArchiveInv, [Next]_vars PROVE ClosedStaysClosed'
<1>0. ClosedStaysClosed
    BY DEF ArchiveInv
<1>1. ASSUME NEW m \in Msg, AppendToShard(m)
      PROVE  ClosedStaysClosed'
    <2>1. PICK s \in Month :
              /\ zipped[s] = <<>>
              /\ \A k \in Month : plain'[k] = IF k = s THEN Append(plain[s], m) ELSE plain[k]
        BY <1>1, Appends
    <2>2. zipped' = zipped
        BY <1>1 DEF AppendToShard
    <2> QED BY <1>0, <2>1, <2>2 DEF ClosedStaysClosed
<1>2. ASSUME NEW mo \in Month, Compress(mo)
      PROVE  ClosedStaysClosed'
    <2>1. /\ plain[mo] \in Seq(arrived) /\ zipped[mo] \in Seq(arrived)
          /\ \A k \in Month : zipped'[k] = IF k = mo THEN zipped[mo] \o plain[mo] ELSE zipped[k]
        BY <1>2, Compresses
    <2>2. Elems(plain[mo]) \subseteq Elems(zipped'[mo])
        BY <2>1, ConcatFacts
    <2>3. plain' = plain
        BY <1>2 DEF Compress
    <2> QED BY <1>0, <2>1, <2>2, <2>3 DEF ClosedStaysClosed
<1>3. CASE Unlink
    <2>1. zipped' = zipped /\ \A k \in Month : plain'[k] = plain[k] \/ plain'[k] = <<>>
        BY <1>3, Unlinks DEF Unlink
    <2>2. Elems(<<>>) = {}
        BY DEF Elems
    <2> QED BY <1>0, <2>1, <2>2 DEF ClosedStaysClosed
<1>4. CASE UNCHANGED shards
    BY <1>0, <1>4 DEF ClosedStaysClosed, shards
<1>5. UNCHANGED shards \/ (\E m \in Msg : AppendToShard(m)) \/ (\E mo \in Month : Compress(mo)) \/ Unlink
    BY DEF Next, SweepStep, RecallStep, Arrive, NextMonth, BeginSweep, AppendError, RemoveLive, ListClosed,
           ZipError, EndSweep, Crash, BeginRecall, ReadLive, ListShards, ReadShard, EndRecall, TakeRecall,
           vars
<1> QED BY <1>1, <1>2, <1>3, <1>4, <1>5

-----------------------------------------------------------------------------
(***************************************************************************)
(* What is archived stays archived.                                        *)
(***************************************************************************)
LEMMA ArchivedIs ==
    ASSUME NEW x
    PROVE  x \in Archived <=> \E k \in Month : x \in Elems(plain[k]) \/ x \in Elems(zipped[k])
BY DEF Archived

\* A .gz only grows; so does a shard, unless Unlink drops one whose lines the .gz has.
LEMMA ShardsGrow ==
    ASSUME ArchiveInv, [Next]_vars
    PROVE  \A k \in Month :
               /\ Elems(zipped[k]) \subseteq Elems(zipped'[k])
               /\ \/ Elems(plain[k]) \subseteq Elems(plain'[k])
                  \/ Unlink /\ k = item /\ Elems(plain[k]) \subseteq Elems(zipped'[k])
<1>1. ASSUME NEW m \in Msg, AppendToShard(m), NEW k \in Month
      PROVE  Elems(zipped[k]) \subseteq Elems(zipped'[k]) /\ Elems(plain[k]) \subseteq Elems(plain'[k])
    <2>1. PICK s \in Month :
              \A l \in Month : plain'[l] = IF l = s THEN Append(plain[s], m) ELSE plain[l]
        BY <1>1, Appends
    <2>2. zipped' = zipped /\ plain[s] \in Seq(arrived) /\ m \in arrived
        BY <1>1, Appends DEF AppendToShard, ArchiveInv, FileTypes
    <2>3. Elems(plain[s]) \subseteq Elems(Append(plain[s], m))
        BY <2>2, AppendFacts
    <2> QED BY <2>1, <2>2, <2>3
<1>2. ASSUME NEW mo \in Month, Compress(mo), NEW k \in Month
      PROVE  Elems(zipped[k]) \subseteq Elems(zipped'[k]) /\ Elems(plain[k]) \subseteq Elems(plain'[k])
    <2>1. /\ plain[mo] \in Seq(arrived) /\ zipped[mo] \in Seq(arrived) /\ plain' = plain
          /\ \A l \in Month : zipped'[l] = IF l = mo THEN zipped[mo] \o plain[mo] ELSE zipped[l]
        BY <1>2, Compresses DEF Compress
    <2>2. Elems(zipped[mo]) \subseteq Elems(zipped'[mo])
        BY <2>1, ConcatFacts
    <2> QED BY <2>1, <2>2
<1>3. ASSUME Unlink, NEW k \in Month
      PROVE  /\ Elems(zipped[k]) \subseteq Elems(zipped'[k])
             /\ \/ Elems(plain[k]) \subseteq Elems(plain'[k])
                \/ k = item /\ Elems(plain[k]) \subseteq Elems(zipped'[k])
    <2>1. /\ zipped' = zipped /\ Elems(plain[item]) \subseteq Elems(zipped[item])
          /\ k = item \/ plain'[k] = plain[k]
        BY <1>3, Unlinks DEF Unlink, ArchiveInv, SweepOK
    <2> QED BY <2>1
<1>4. ASSUME UNCHANGED shards, NEW k \in Month
      PROVE  Elems(zipped[k]) \subseteq Elems(zipped'[k]) /\ Elems(plain[k]) \subseteq Elems(plain'[k])
    BY <1>4 DEF shards
<1>5. UNCHANGED shards \/ (\E m \in Msg : AppendToShard(m)) \/ (\E mo \in Month : Compress(mo)) \/ Unlink
    BY DEF Next, SweepStep, RecallStep, Arrive, NextMonth, BeginSweep, AppendError, RemoveLive, ListClosed,
           ZipError, EndSweep, Crash, BeginRecall, ReadLive, ListShards, ReadShard, EndRecall, TakeRecall,
           vars
<1> QED BY <1>1, <1>2, <1>3, <1>4, <1>5

LEMMA ArchivedGrows ==
    ASSUME ArchiveInv, [Next]_vars
    PROVE  Archived \subseteq Archived'
<1>1. SUFFICES ASSUME NEW x \in Archived PROVE x \in Archived'
    OBVIOUS
<1>2. PICK k \in Month : x \in Elems(plain[k]) \/ x \in Elems(zipped[k])
    BY <1>1, ArchivedIs
<1>3. x \in Elems(plain'[k]) \/ x \in Elems(zipped'[k])
    BY <1>2, ShardsGrow
<1> QED BY <1>3 DEF Archived

LEMMA HoldingGrows ==
    ASSUME ArchiveInv, [Next]_vars
    PROVE  Holding \subseteq Holding'
<1>1. Archived \subseteq Archived'
    BY ArchivedGrows
<1>2. ASSUME NEW x \in live
      PROVE  x \in live' \/ x \in Archived
    <2>1. CASE RemoveLive
        <3>1. \E mo \in Month : item \in Elems(plain[mo])
            BY <2>1 DEF RemoveLive, ArchiveInv, SweepOK
        <3>2. item \in Archived
            BY <3>1, ArchivedIs
        <3> QED BY <2>1, <3>2 DEF RemoveLive, LiveWithout
    <2>2. CASE ~RemoveLive
        BY <2>2 DEF Next, SweepStep, RecallStep, Arrive, NextMonth, BeginSweep, AppendToShard, AppendError,
               ListClosed, Compress, Unlink, ZipError, EndSweep, Crash, BeginRecall, ReadLive, ListShards,
               ReadShard, EndRecall, TakeRecall, vars
    <2> QED BY <2>1, <2>2
<1> QED BY <1>1, <1>2 DEF Holding

-----------------------------------------------------------------------------
(***************************************************************************)
(* The recall                                                              *)
(***************************************************************************)
\* While the recall stands still: what it will read stays readable, or is closing.
LEMMA RecallWaits ==
    ASSUME ArchiveInv, [Next]_vars, UNCHANGED bot, ~RecallStep
    PROVE  RecallOK'
<1>0. RecallOK /\ UNCHANGED <<rpc, toRead, recalled, held>>
    BY DEF ArchiveInv, bot
<1>1. arrived \subseteq arrived'
    BY DEF Next, SweepStep, Arrive, NextMonth, BeginSweep, AppendToShard, AppendError, RemoveLive, ListClosed,
           Compress, Unlink, ZipError, EndSweep, Crash, vars
<1>2. CASE \E mo \in Month : Compress(mo)
    <2>1. PICK mo \in Month : Compress(mo)
        BY <1>2
    <2>2. /\ closing' = IF rpc = "idle" THEN closing ELSE closing \cup Elems(plain[mo])
          /\ pc' = "unlink" /\ item' = mo /\ plain' = plain /\ pc = "zip"
        BY <2>1 DEF Compress
    <2>3. closing \subseteq closing' /\ closing' \subseteq arrived
        BY <1>0, <2>2, LinesArrived DEF RecallOK
    <2>4. ASSUME rpc = "shards", NEW x \in held
          PROVE  x \in recalled \cup closing' \/ StillToRead(x)'
        <3>1. CASE x \in recalled \cup closing
            BY <2>3, <3>1
        <3>2. CASE StillToRead(x)
            <4>1. PICK f \in toRead : x \in Content(f)
                BY <3>2 DEF StillToRead
            <4>2. f \in {"plain", "gz"} \X Month
                BY <1>0, <2>4 DEF RecallOK
            <4>3. CASE f = <<"plain", mo>>
                <5>1. x \in Elems(plain[mo])
                    BY <4>1, <4>3 DEF Content
                <5> QED BY <2>2, <2>4, <5>1
            <4>4. CASE f # <<"plain", mo>>
                <5>1. Content(f) \subseteq Content(f)'
                    BY <2>2, <4>2, ShardsGrow DEF Content
                <5> QED BY <1>0, <2>2, <4>1, <4>4, <5>1 DEF StillToRead
            <4> QED BY <4>3, <4>4
        <3> QED BY <1>0, <2>4, <3>1, <3>2 DEF RecallOK
    <2>5. Holding \subseteq Holding' /\ Archived \subseteq Archived'
        BY HoldingGrows, ArchivedGrows
    <2>6. rpc = "inbox" => held \subseteq recalled \cup (toRead \cap live') \cup Archived'
        BY <1>0, <2>5 DEF RecallOK, Holding
    <2> QED BY <1>0, <1>1, <2>3, <2>4, <2>6 DEF RecallOK
<1>3. CASE ~\E mo \in Month : Compress(mo)
    <2>1. closing' = closing
        BY <1>3 DEF Next, SweepStep, Arrive, NextMonth, BeginSweep, AppendToShard, AppendError, RemoveLive,
               ListClosed, Unlink, ZipError, EndSweep, Crash, vars
    <2>2. pc' = "unlink" => pc = "unlink" /\ item' = item /\ ~Unlink
        BY <1>3 DEF Next, SweepStep, Arrive, NextMonth, BeginSweep, AppendToShard, AppendError, RemoveLive,
               ListClosed, Unlink, ZipError, EndSweep, Crash, vars, relay
    <2>3. ASSUME rpc = "shards", NEW x \in held
          PROVE  x \in recalled \cup closing \/ StillToRead(x)'
        <3>1. CASE x \in recalled \cup closing
            BY <3>1
        <3>2. CASE StillToRead(x)
            <4>1. PICK f \in toRead : x \in Content(f) /\ (pc = "unlink" => f # <<"plain", item>>)
                BY <3>2 DEF StillToRead
            <4>2. f \in {"plain", "gz"} \X Month
                BY <1>0, <2>3 DEF RecallOK
            <4>3. pc' = "unlink" => f # <<"plain", item'>>
                BY <2>2, <4>1
            <4>4. Content(f) \subseteq Content(f)'
                <5>1. CASE f[1] = "gz"
                    BY <4>2, <5>1, ShardsGrow DEF Content
                <5>2. CASE f[1] # "gz"
                    <6>1. f = <<"plain", f[2]>> /\ f[2] \in Month
                        BY <4>2, <5>2
                    <6>2. Unlink => f[2] # item
                        BY <4>1, <6>1 DEF Unlink
                    <6>3. Elems(plain[f[2]]) \subseteq Elems(plain'[f[2]])
                        BY <6>1, <6>2, ShardsGrow
                    <6> QED BY <5>2, <6>3 DEF Content
                <5> QED BY <5>1, <5>2
            <4> QED BY <1>0, <4>1, <4>3, <4>4 DEF StillToRead
        <3> QED BY <1>0, <2>3, <3>1, <3>2 DEF RecallOK
    <2>4. Holding \subseteq Holding' /\ Archived \subseteq Archived'
        BY HoldingGrows, ArchivedGrows
    <2>5. rpc = "inbox" => held \subseteq recalled \cup (toRead \cap live') \cup Archived'
        BY <1>0, <2>4 DEF RecallOK, Holding
    <2> QED BY <1>0, <1>1, <2>1, <2>3, <2>5 DEF RecallOK
<1> QED BY <1>2, <1>3

LEMMA RecallSteps == ASSUME ArchiveInv, [Next]_vars PROVE RecallOK'
<1>0. /\ RecallOK /\ FileTypes
      /\ \A k \in Month : Elems(plain[k]) \subseteq arrived /\ Elems(zipped[k]) \subseteq arrived
    BY LinesArrived DEF ArchiveInv
<1>1. CASE BeginRecall
    <2>1. /\ rpc' = "inbox" /\ toRead' = live /\ recalled' = {} /\ held' = Holding /\ closing' = {}
          /\ UNCHANGED <<live, plain, zipped, arrived>>
        BY <1>1 DEF BeginRecall, shards
    <2>2. Archived \subseteq arrived /\ Archived' = Archived
        BY <1>0, <2>1 DEF Archived
    <2>3. held' \subseteq arrived /\ held' \subseteq live \cup Archived
        BY <1>0, <2>1, <2>2 DEF Holding, FileTypes
    <2> QED BY <2>1, <2>2, <2>3 DEF RecallOK
<1>2. ASSUME NEW m \in Msg, ReadLive(m)
      PROVE  RecallOK'
    <2>1. /\ rpc = "inbox" /\ rpc' = "inbox" /\ recalled' = recalled \cup ({m} \cap live)
          /\ toRead' = toRead \ {m} /\ UNCHANGED <<live, plain, zipped, held, arrived, closing>>
        BY <1>2 DEF ReadLive, shards
    <2>2. Archived' = Archived /\ live \subseteq arrived
        BY <1>0, <2>1 DEF Archived, FileTypes
    <2> QED BY <1>0, <2>1, <2>2 DEF RecallOK
<1>3. CASE ListShards
    <2>1. /\ rpc = "inbox" /\ rpc' = "shards" /\ toRead = {} /\ toRead' = ShardFiles
          /\ UNCHANGED <<plain, zipped, pc, item, recalled, held, arrived, closing>>
        BY <1>3 DEF ListShards, shards, relay
    <2>2. toRead' \subseteq {"plain", "gz"} \X Month
        BY <2>1 DEF ShardFiles, PlainFiles
    <2>3. ASSUME NEW x \in held
          PROVE  x \in recalled \/ StillToRead(x)'
        <3>1. CASE x \in recalled
            BY <3>1
        <3>2. CASE x \notin recalled
            <4>1. PICK k \in Month : x \in Elems(plain[k]) \/ x \in Elems(zipped[k])
                BY <1>0, <2>1, <2>3, <3>2, ArchivedIs DEF RecallOK
            <4>2. Elems(<<>>) = {}
                BY DEF Elems
            <4>3. ASSUME x \in Elems(zipped[k])
                  PROVE  StillToRead(x)'
                <5>1. <<"gz", k>> \in toRead'
                    BY <2>1, <4>2, <4>3 DEF ShardFiles
                <5>2. x \in Content(<<"gz", k>>)'
                    BY <2>1, <4>3 DEF Content
                <5> QED BY <5>1, <5>2 DEF StillToRead
            <4>4. ASSUME x \in Elems(plain[k]), x \notin Elems(zipped[k])
                  PROVE  StillToRead(x)'
                <5>1. <<"plain", k>> \in toRead'
                    BY <2>1, <4>2, <4>4 DEF ShardFiles, PlainFiles
                <5>2. x \in Content(<<"plain", k>>)'
                    BY <2>1, <4>4 DEF Content
                <5>3. pc' = "unlink" => <<"plain", k>> # <<"plain", item'>>
                    BY <2>1, <4>4 DEF ArchiveInv, SweepOK
                <5> QED BY <5>1, <5>2, <5>3 DEF StillToRead
            <4> QED BY <4>1, <4>3, <4>4
        <3> QED BY <3>1, <3>2
    <2> QED BY <1>0, <2>1, <2>2, <2>3 DEF RecallOK
<1>4. ASSUME NEW f \in {"plain", "gz"} \X Month, ReadShard(f)
      PROVE  RecallOK'
    <2>1. /\ rpc = "shards" /\ rpc' = "shards" /\ recalled' = recalled \cup Content(f)
          /\ toRead' = toRead \ {f} /\ UNCHANGED <<plain, zipped, pc, item, held, arrived, closing>>
        BY <1>4 DEF ReadShard, Content, shards, relay
    <2>2. Content(f) \subseteq arrived
        BY <1>0 DEF Content
    <2>3. ASSUME NEW x \in held
          PROVE  x \in recalled' \cup closing \/ StillToRead(x)'
        <3>1. x \in recalled \cup closing \/ StillToRead(x)
            BY <1>0, <2>1 DEF RecallOK
        <3>2. CASE StillToRead(x)
            <4>1. PICK g \in toRead : x \in Content(g) /\ (pc = "unlink" => g # <<"plain", item>>)
                BY <3>2 DEF StillToRead
            <4>2. CASE g = f
                BY <2>1, <4>1, <4>2
            <4>3. CASE g # f
                <5>1. g \in toRead' /\ x \in Content(g)'
                    BY <2>1, <4>1, <4>3 DEF Content
                <5> QED BY <2>1, <4>1, <5>1 DEF StillToRead
            <4> QED BY <4>2, <4>3
        <3> QED BY <2>1, <3>1, <3>2
    <2> QED BY <1>0, <2>1, <2>2, <2>3 DEF RecallOK
<1>5. CASE EndRecall
    <2>1. /\ rpc = "shards" /\ rpc' = "done" /\ toRead = {}
          /\ UNCHANGED <<recalled, held, arrived, closing>>
        BY <1>5 DEF EndRecall
    <2>2. held \subseteq recalled \cup closing
        BY <1>0, <2>1 DEF RecallOK, StillToRead
    <2> QED BY <1>0, <2>1, <2>2 DEF RecallOK
<1>6. CASE TakeRecall
    BY <1>0, <1>6 DEF TakeRecall, RecallOK
<1>7. CASE ~RecallStep
    <2>1. UNCHANGED bot
        BY <1>7 DEF Next, SweepStep, Arrive, NextMonth, BeginSweep, AppendToShard, AppendError, RemoveLive,
               ListClosed, Compress, Unlink, ZipError, EndSweep, Crash, vars
    <2> QED BY <1>7, <2>1, RecallWaits
<1> QED BY <1>1, <1>2, <1>3, <1>4, <1>5, <1>6, <1>7 DEF RecallStep

-----------------------------------------------------------------------------
(***************************************************************************)
(* The lines of one message                                                *)
(***************************************************************************)
\* Appending m gives m a line, and leaves the lines of the others.
LEMMA AppendLines ==
    ASSUME ArchiveInv, NEW m \in Msg, AppendToShard(m), NEW x
    PROVE  /\ x # m => \A k, j : At(plain, x, k, j) <=> At(plain', x, k, j)
           /\ x = m /\ NoLine(plain, m) => OneLine(plain', m)
<1>1. PICK s \in Month :
          \A k \in Month : plain'[k] = IF k = s THEN Append(plain[s], m) ELSE plain[k]
    BY Appends
<1>2. plain[s] \in Seq(arrived) /\ m \in arrived
    BY Appends DEF ArchiveInv, FileTypes
<1> DEFINE n == Len(plain[s]) + 1
<1>3. /\ DOMAIN plain'[s] = DOMAIN plain[s] \cup {n} /\ n \notin DOMAIN plain[s]
      /\ plain'[s][n] = m /\ \A i \in DOMAIN plain[s] : plain'[s][i] = plain[s][i]
    <2>1. plain'[s] = Append(plain[s], m)
        BY <1>1
    <2>2. /\ DOMAIN Append(plain[s], m) = DOMAIN plain[s] \cup {n} /\ n \notin DOMAIN plain[s]
          /\ Append(plain[s], m)[n] = m
          /\ \A i \in DOMAIN plain[s] : Append(plain[s], m)[i] = plain[s][i]
        BY <1>2, AppendFacts
    <2> QED BY <2>1, <2>2, Zenon
<1> HIDE DEF n
<1>4. ASSUME x # m, NEW k, NEW j
      PROVE  At(plain, x, k, j) <=> At(plain', x, k, j)
    <2>1. CASE k = s
        BY <1>3, <1>4, <2>1 DEF At
    <2>2. CASE k # s
        BY <1>1, <2>2 DEF At
    <2> QED BY <2>1, <2>2
<1>5. ASSUME NoLine(plain, m)
      PROVE  OneLine(plain', m)
    <2>1. ASSUME NEW k, NEW j
          PROVE  At(plain', m, k, j) <=> (k = s /\ j = n)
        <3>0. ~At(plain, m, k, j)
            BY <1>5, NoLineAt
        <3>1. CASE k = s
            BY <1>3, <3>0, <3>1 DEF At
        <3>2. CASE k # s
            BY <1>1, <3>0, <3>2 DEF At
        <3> QED BY <3>1, <3>2
    <2>2. \E a, b : \A k, j : At(plain', m, k, j) <=> (k = a /\ j = b)
        BY <2>1
    <2> QED BY <2>2, OneLineAt, Zenon
<1> QED BY <1>4, <1>5

\* Compressing mo leaves the lines of a message that its shard does not name, and gives
\* the .gz files the line of one that it does.
LEMMA CompressLines ==
    ASSUME ArchiveInv, NEW mo \in Month, Compress(mo), NEW x
    PROVE  /\ x \notin Elems(plain[mo]) => \A k, j : At(zipped, x, k, j) <=> At(zipped', x, k, j)
           /\ x \in Elems(plain[mo]) /\ OneLine(plain, x) /\ NoLine(zipped, x) => OneLine(zipped', x)
<1>1. /\ \A k \in Month : zipped'[k] = IF k = mo THEN zipped[mo] \o plain[mo] ELSE zipped[k]
      /\ plain[mo] \in Seq(arrived) /\ zipped[mo] \in Seq(arrived)
    BY Compresses
<1> DEFINE Z == zipped[mo]
           P == plain[mo]
<1>2. /\ \A i \in DOMAIN Z : i \in DOMAIN zipped'[mo] /\ zipped'[mo][i] = Z[i]
      /\ \A i \in DOMAIN P : Len(Z) + i \in DOMAIN zipped'[mo] /\ zipped'[mo][Len(Z) + i] = P[i]
      /\ \A j \in DOMAIN zipped'[mo] : j \in DOMAIN Z \/ \E i \in DOMAIN P : j = Len(Z) + i
      /\ \A i, j \in DOMAIN P : Len(Z) + i \notin DOMAIN Z /\ (Len(Z) + i = Len(Z) + j => i = j)
    <2>1. zipped'[mo] = Z \o P
        BY <1>1
    <2>2. /\ \A i \in DOMAIN Z : i \in DOMAIN (Z \o P) /\ (Z \o P)[i] = Z[i]
          /\ \A i \in DOMAIN P : Len(Z) + i \in DOMAIN (Z \o P) /\ (Z \o P)[Len(Z) + i] = P[i]
          /\ \A j \in DOMAIN (Z \o P) : j \in DOMAIN Z \/ \E i \in DOMAIN P : j = Len(Z) + i
          /\ \A i, j \in DOMAIN P : Len(Z) + i \notin DOMAIN Z /\ (Len(Z) + i = Len(Z) + j => i = j)
        BY <1>1, ConcatFacts
    <2> QED BY <2>1, <2>2, Zenon
<1>3. ASSUME x \notin Elems(P), NEW k, NEW j
      PROVE  At(zipped, x, k, j) <=> At(zipped', x, k, j)
    <2>1. CASE k = mo
        <3>1. \A i \in DOMAIN P : P[i] # x
            BY <1>3 DEF Elems
        <3> QED BY <1>2, <2>1, <3>1 DEF At
    <2>2. CASE k # mo
        BY <1>1, <2>2 DEF At
    <2> QED BY <2>1, <2>2
<1>4. ASSUME x \in Elems(P), OneLine(plain, x), NoLine(zipped, x)
      PROVE  OneLine(zipped', x)
    <2>1. PICK a, b : \A k, j : At(plain, x, k, j) <=> (k = a /\ j = b)
        BY <1>4, OneLineAt
    <2>2. PICK i \in DOMAIN P : P[i] = x
        BY <1>4 DEF Elems
    <2>3. a = mo /\ b = i
        BY <2>1, <2>2 DEF At
    <2>4. \A j \in DOMAIN P : P[j] = x => j = i
        BY <2>1, <2>3 DEF At
    <2>5. ASSUME NEW k, NEW j
          PROVE  At(zipped', x, k, j) <=> (k = mo /\ j = Len(Z) + i)
        <3>0. ~At(zipped, x, k, j)
            BY <1>4, NoLineAt
        <3>1. CASE k = mo
            <4>1. ASSUME At(zipped', x, k, j)
                  PROVE  j = Len(Z) + i
                <5>1. j \in DOMAIN zipped'[mo] /\ zipped'[mo][j] = x
                    BY <3>1, <4>1 DEF At
                <5>2. j \notin DOMAIN Z
                    BY <1>2, <3>0, <3>1, <5>1 DEF At
                <5>3. PICK l \in DOMAIN P : j = Len(Z) + l
                    BY <1>2, <5>1, <5>2
                <5>4. P[l] = x
                    BY <1>2, <5>1, <5>3
                <5> QED BY <2>4, <5>3, <5>4
            <4>2. At(zipped', x, mo, Len(Z) + i)
                BY <1>2, <2>2 DEF At
            <4> QED BY <3>1, <4>1, <4>2
        <3>2. CASE k # mo
            BY <1>1, <3>0, <3>2 DEF At
        <3> QED BY <3>1, <3>2
    <2>6. PICK n : n = Len(Z) + i
        OBVIOUS
    <2>7. \A k, j : At(zipped', x, k, j) <=> (k = mo /\ j = n)
        BY <2>5, <2>6
    <2>8. \E c, d : \A k, j : At(zipped', x, k, j) <=> (k = c /\ j = d)
        BY <2>7
    <2> QED BY <2>8, OneLineAt, Zenon
<1> QED BY <1>3, <1>4

\* Dropping a shard takes the line of a message that it names, and leaves the others'.
LEMMA UnlinkLines ==
    ASSUME ArchiveInv, NEW x, item \in Month,
           \A k \in Month : plain'[k] = IF k = item THEN <<>> ELSE plain[k]
    PROVE  /\ x \notin Elems(plain[item]) => \A k, j : At(plain, x, k, j) <=> At(plain', x, k, j)
           /\ x \in Elems(plain[item]) /\ OneLine(plain, x) => NoLine(plain', x)
<1>0. DOMAIN <<>> = {}
    OBVIOUS
<1>1. ASSUME x \notin Elems(plain[item]), NEW k, NEW j
      PROVE  At(plain, x, k, j) <=> At(plain', x, k, j)
    <2>1. CASE k = item
        BY <1>0, <1>1, <2>1 DEF At, Elems
    <2>2. CASE k # item
        BY <2>2 DEF At
    <2> QED BY <2>1, <2>2
<1>2. ASSUME x \in Elems(plain[item]), OneLine(plain, x)
      PROVE  NoLine(plain', x)
    <2>1. PICK a, b : \A k, j : At(plain, x, k, j) <=> (k = a /\ j = b)
        BY <1>2, OneLineAt
    <2>2. PICK i \in DOMAIN plain[item] : plain[item][i] = x
        BY <1>2 DEF Elems
    <2>3. a = item
        BY <2>1, <2>2 DEF At
    <2>4. ASSUME NEW k, NEW j
          PROVE  ~At(plain', x, k, j)
        <3>1. CASE k = item
            BY <1>0, <3>1 DEF At
        <3>2. CASE k # item
            BY <2>1, <2>3, <3>2 DEF At
        <3> QED BY <3>1, <3>2
    <2> QED BY <2>4, NoLineAt
<1> QED BY <1>1, <1>2

\* A step that writes no shard, moves no file of x and neither leaves nor enters a move.
LEMMA LineStays ==
    ASSUME NEW x, LineOf(x), UNCHANGED shards, x \in live' <=> x \in live,
           \/ UNCHANGED <<pc, item>>
           \/ /\ pc' \notin {"remove", "unlink"}
              /\ pc = "remove" => x # item
              /\ pc = "unlink" => x \notin Elems(plain[item])
    PROVE  LineOf(x)'
<1>1. plain' = plain /\ zipped' = zipped
    BY DEF shards
<1>2. NoLine(plain, x)' = NoLine(plain, x) /\ NoLine(zipped, x)' = NoLine(zipped, x)
    BY <1>1
<1>3. OneLine(plain, x)' = OneLine(plain, x) /\ OneLine(zipped, x)' = OneLine(zipped, x)
    BY <1>1
<1>4. InOneLine(x)' = InOneLine(x)
    BY <1>2, <1>3 DEF InOneLine
<1>5. CASE UNCHANGED <<pc, item>>
    BY <1>1, <1>2, <1>3, <1>4, <1>5 DEF LineOf
<1>6. CASE /\ pc' \notin {"remove", "unlink"}
           /\ pc = "remove" => x # item
           /\ pc = "unlink" => x \notin Elems(plain[item])
    BY <1>1, <1>2, <1>3, <1>4, <1>6 DEF LineOf
<1> QED BY <1>5, <1>6

\* A live message has no line in the shards unless it is the one being moved.
LEMMA LiveHasNoLine ==
    ASSUME ArchiveInv, NEW x \in live, x \notin cut, pc # "remove" \/ x # item
    PROVE  NoLine(plain, x) /\ NoLine(zipped, x)
BY DEF ArchiveInv, FileTypes, LinesOK, LineOf

LEMMA LinesSteps == ASSUME ArchiveInv, [Next]_vars PROVE LinesOK'
<1> SUFFICES ASSUME NEW x \in arrived' \ cut' PROVE LineOf(x)'
    BY DEF LinesOK
<1>0. /\ x \in arrived => x \notin cut /\ LineOf(x)
      /\ (\A m \in Msg : ~Arrive(m)) => x \in arrived
    <2>1. cut \subseteq cut' /\ ((\A m \in Msg : ~Arrive(m)) => arrived' = arrived)
        BY DEF Next, SweepStep, RecallStep, Arrive, NextMonth, BeginSweep, AppendToShard, AppendError,
               RemoveLive, ListClosed, Compress, Unlink, ZipError, EndSweep, Crash, BeginRecall, ReadLive,
               ListShards, ReadShard, EndRecall, TakeRecall, vars
    <2> QED BY <2>1 DEF ArchiveInv, LinesOK
<1>1. ASSUME NEW m \in Msg, Arrive(m)
      PROVE  LineOf(x)'
    <2>1. /\ live' = live \cup {m} /\ arrived' = arrived \cup {m} /\ m \notin arrived
          /\ UNCHANGED <<shards, pc, item>>
        BY <1>1 DEF Arrive, relay
    <2>2. CASE x = m
        <3>1. NoLine(plain, x) /\ NoLine(zipped, x)
            BY <2>1, <2>2, LinesArrived DEF NoLine
        <3>2. NoLine(plain, x)' /\ NoLine(zipped, x)'
            BY <2>1, <3>1 DEF shards
        <3> QED BY <2>1, <2>2, <3>2 DEF LineOf
    <2>3. CASE x # m
        BY <1>0, <2>1, <2>3, LineStays
    <2> QED BY <2>2, <2>3
<1>2. ASSUME NEW m \in Msg, AppendToShard(m)
      PROVE  LineOf(x)'
    <2>1. /\ pc = "list" /\ pc' = "remove" /\ item' = m /\ UNCHANGED <<live, zipped, arrived, cut>>
          /\ m \in live
        BY <1>2, Appends DEF AppendToShard
    <2>2. CASE x = m
        <3>1. NoLine(plain, m) /\ NoLine(zipped, m)
            BY <1>0, <2>1, <2>2, LiveHasNoLine
        <3>2. OneLine(plain', m) /\ NoLine(zipped', m)
            BY <1>2, <2>1, <3>1, AppendLines
        <3>3. InOneLine(m)'
            BY <3>2 DEF InOneLine
        <3> QED BY <2>1, <2>2, <3>3 DEF LineOf
    <2>3. CASE x # m
        <3>1. \A k, j : At(plain, x, k, j) <=> At(plain', x, k, j)
            BY <1>2, <2>3, AppendLines
        <3>2. (NoLine(plain, x) <=> NoLine(plain', x)) /\ (OneLine(plain, x) <=> OneLine(plain', x))
            BY <3>1, SameLines
        <3>3. \/ x \in live /\ NoLine(plain, x) /\ NoLine(zipped, x)
              \/ x \notin live /\ InOneLine(x)
            BY <1>0, <2>1 DEF LineOf
        <3>4. InOneLine(x) => InOneLine(x)'
            BY <2>1, <3>2 DEF InOneLine
        <3> QED BY <2>1, <3>2, <3>3, <3>4 DEF LineOf
    <2> QED BY <2>2, <2>3
<1>3. CASE RemoveLive
    <2>1. /\ pc = "remove" /\ pc' = "list" /\ UNCHANGED <<plain, zipped, arrived>> /\ x \in arrived
          /\ \/ live' = live \ {item}
             \/ cut' = cut \cup {item} /\ live' = live
        BY <1>0, <1>3 DEF RemoveLive, LiveWithout, shards
    <2>2. CASE x # item
        BY <1>0, <2>1, <2>2, LineStays DEF shards
    <2>3. CASE x = item
        <3>1. InOneLine(x)
            <4>1. PICK mo \in Month : x \in Elems(plain[mo])
                BY <1>3, <2>3 DEF ArchiveInv, SweepOK, RemoveLive
            <4>2. ~NoLine(plain, x)
                BY <4>1 DEF NoLine
            <4> QED BY <1>0, <2>1, <4>2 DEF LineOf
        <3>2. InOneLine(x)'
            BY <2>1, <3>1 DEF InOneLine
        <3> QED BY <2>1, <2>3, <3>2 DEF LineOf
    <2> QED BY <2>2, <2>3
<1>4. ASSUME NEW mo \in Month, Compress(mo)
      PROVE  LineOf(x)'
    <2>1. /\ pc = "zip" /\ pc' = "unlink" /\ item' = mo /\ UNCHANGED <<live, plain, arrived, cut>>
          /\ x \in arrived
        BY <1>0, <1>4 DEF Compress
    <2>2. \/ x \in live /\ NoLine(plain, x) /\ NoLine(zipped, x)
          \/ x \notin live /\ InOneLine(x)
        BY <1>0, <2>1 DEF LineOf
    <2>3. CASE x \in Elems(plain[mo])
        <3>1. x \notin live /\ OneLine(plain, x) /\ NoLine(zipped, x)
            BY <2>2, <2>3 DEF NoLine, InOneLine
        <3>2. OneLine(zipped', x) /\ OneLine(plain', x)
            BY <1>4, <2>1, <2>3, <3>1, CompressLines
        <3> QED BY <2>1, <2>3, <3>1, <3>2 DEF LineOf
    <2>4. CASE x \notin Elems(plain[mo])
        <3>1. \A k, j : At(zipped, x, k, j) <=> At(zipped', x, k, j)
            BY <1>4, <2>4, CompressLines
        <3>2. (NoLine(zipped, x) <=> NoLine(zipped', x)) /\ (OneLine(zipped, x) <=> OneLine(zipped', x))
            BY <3>1, SameLines
        <3>3. InOneLine(x) => InOneLine(x)'
            BY <2>1, <3>2 DEF InOneLine
        <3> QED BY <2>1, <2>2, <2>4, <3>2, <3>3 DEF LineOf
    <2> QED BY <2>3, <2>4
<1>5. CASE Unlink
    <2>1. /\ pc = "unlink" /\ pc' = "zip" /\ UNCHANGED <<live, zipped, arrived>> /\ x \in arrived
          /\ item \in Month
        BY <1>0, <1>5, Unlinks DEF Unlink
    <2>2. CASE \A k \in Month : plain'[k] = IF k = item THEN <<>> ELSE plain[k]
        <3>1. CASE x \in Elems(plain[item])
            <4>1. OneLine(plain, x) /\ OneLine(zipped, x) /\ x \notin live
                BY <1>0, <2>1, <3>1 DEF LineOf, NoLine
            <4>2. NoLine(plain', x) /\ OneLine(zipped', x)
                BY <2>1, <2>2, <3>1, <4>1, UnlinkLines
            <4>3. InOneLine(x)'
                BY <4>2 DEF InOneLine
            <4> QED BY <2>1, <4>1, <4>3 DEF LineOf
        <3>2. CASE x \notin Elems(plain[item])
            <4>1. \A k, j : At(plain, x, k, j) <=> At(plain', x, k, j)
                BY <2>1, <2>2, <3>2, UnlinkLines
            <4>2. (NoLine(plain, x) <=> NoLine(plain', x)) /\ (OneLine(plain, x) <=> OneLine(plain', x))
                BY <4>1, SameLines
            <4>3. \/ x \in live /\ NoLine(plain, x) /\ NoLine(zipped, x)
                  \/ x \notin live /\ InOneLine(x)
                BY <1>0, <2>1, <3>2 DEF LineOf
            <4>4. InOneLine(x) => InOneLine(x)'
                BY <2>1, <4>2 DEF InOneLine
            <4> QED BY <2>1, <4>2, <4>3, <4>4 DEF LineOf
        <3> QED BY <3>1, <3>2
    <2>3. CASE plain' = plain /\ cut' = cut \cup Elems(plain[item])
        <3>1. x \notin Elems(plain[item]) /\ UNCHANGED shards
            BY <2>1, <2>3 DEF shards
        <3> QED BY <1>0, <2>1, <3>1, LineStays
    <2> QED BY <1>5, <2>2, <2>3, Unlinks
<1>6. CASE Crash
    <2>1. /\ pc' = "idle" /\ UNCHANGED <<live, shards>> /\ x \in arrived
          /\ pc = "remove" => cut' = cut \cup {item}
          /\ pc = "unlink" => cut' = cut \cup Elems(plain[item])
        BY <1>0, <1>6 DEF Crash
    <2> QED BY <1>0, <2>1, LineStays
<1>7. CASE \/ \E S \in SUBSET live : BeginSweep(S)
           \/ ListClosed \/ EndSweep
    <2>1. /\ UNCHANGED <<live, shards, arrived>> /\ x \in arrived
          /\ {pc, pc'} \cap {"remove", "unlink"} = {}
        BY <1>0, <1>7 DEF BeginSweep, ListClosed, EndSweep
    <2> QED BY <1>0, <2>1, LineStays
<1>8. CASE \/ RecallStep \/ NextMonth \/ UNCHANGED vars
           \/ (\E m \in Msg : AppendError(m)) \/ (\E mo \in Month : ZipError(mo))
    <2>1. UNCHANGED <<live, shards, arrived, pc, item>>
        BY <1>8 DEF RecallStep, NextMonth, AppendError, ZipError, BeginRecall, ReadLive, ListShards, ReadShard,
               EndRecall, TakeRecall, vars, relay
    <2>2. x \in arrived
        BY <2>1
    <2> QED BY <1>0, <2>1, <2>2, LineStays
<1> QED BY <1>1, <1>2, <1>3, <1>4, <1>5, <1>6, <1>7, <1>8 DEF Next, SweepStep

LEMMA ArchiveStep == ArchiveInv /\ [Next]_vars => ArchiveInv'
BY TypesStep, SweepSteps, RecallSteps, ClosedSteps, LinesSteps DEF ArchiveInv

LEMMA ArchiveAlways == Spec => []ArchiveInv
<1>1. Init => ArchiveInv
    BY ArchiveStart
<1>2. ArchiveInv /\ [Next]_vars => ArchiveInv'
    BY ArchiveStep
<1> QED BY <1>1, <1>2, PTL DEF Spec

-----------------------------------------------------------------------------
(***************************************************************************)
(* What the archive keeps                                                  *)
(***************************************************************************)
\* Type correctness: a .gz is of a past month, the sweep's list and the recall's hold only
\* what they may, whatever the interleaving.
THEOREM ArchiveTypeCorrect == Spec => []ArchiveTypeOK
<1>1. ArchiveInv => ArchiveTypeOK
    BY DEF ArchiveInv, FileTypes, SweepOK, RecallOK, ArchiveTypeOK
<1> QED BY <1>1, ArchiveAlways, PTL

\* gzipClosedMonths never reopens a month: a shard and a .gz of one month are there together
\* only while the shard is dropped, with every line of it in the .gz.
THEOREM MonthsStayClosed == Spec => []ClosedStaysClosed
<1>1. ArchiveInv => ClosedStaysClosed
    BY DEF ArchiveInv
<1> QED BY <1>1, ArchiveAlways, PTL

\* A message is in the inbox or in one line of the shards, but for the one a step moves and
\* those whose move failed: the sweep archives nothing twice and drops nothing.
THEOREM OneLineEach == Spec => []ArchivedOnce
<1>1. ArchiveInv => ArchivedOnce
    BY DEF ArchiveInv, LinesOK, LineOf, ArchivedOnce
<1> QED BY <1>1, ArchiveAlways, PTL

\* readCorpus, which takes no lock, misses only what was being compressed as it ran.
THEOREM RecallNearlyWhole == Spec => []RecallMissesOnlyClosing
<1>1. ArchiveInv => RecallMissesOnlyClosing
    BY DEF ArchiveInv, RecallOK, RecallMissesOnlyClosing
<1> QED BY <1>1, ArchiveAlways, PTL

\* "Nothing is deleted": no step, crash or failed file operation takes from what the bot holds.
THEOREM NothingIsDeleted == Spec => NothingDeleted
<1>1. ArchiveInv /\ [Next]_vars => [Holding \subseteq Holding']_vars
    BY HoldingGrows
<1> QED BY <1>1, ArchiveAlways, PTL DEF Spec, NothingDeleted
=============================================================================

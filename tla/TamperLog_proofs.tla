---------------------------- MODULE TamperLog_proofs ----------------------------
(***************************************************************************)
(* Theorems about the Android app's tamper log and about one of those who    *)
(* write it, the screen capture: TamperLog for a file and a tail of any      *)
(* length, ScreenCapture for any number of consents and of waiting commands. *)
(* An attempt that is not written down is the same visit as one that was, a  *)
(* killed session is noticed and on record and no other is called a kill, an *)
(* armed mode is watched; and a capture leaves no projection behind and no   *)
(* session without an end.                                                   *)
(***************************************************************************)
EXTENDS TamperLog, ScreenCapture, SequenceTheorems, FiniteSetTheorems, WellFoundedInduction,
        TLAPS

-----------------------------------------------------------------------------
(* The lines of the file *)

\* What trimming and tailing keep: the last n lines, the newest last.
LEMMA LastLinesEnd ==
  ASSUME NEW S, NEW lines \in Seq(S), NEW n \in Nat \ {0}
  PROVE  /\ LastLines(lines, n) \in Seq(S)
         /\ Len(LastLines(lines, n)) = (IF Len(lines) > n THEN n ELSE Len(lines))
         /\ \A i \in 1..Len(lines) :
              i > Len(lines) - n =>
                \E k \in DOMAIN LastLines(lines, n) : LastLines(lines, n)[k] = lines[i]
         /\ Len(lines) > 0 =>
              LastLines(lines, n)[Len(LastLines(lines, n))] = lines[Len(lines)]
  <1> DEFINE len == Len(lines)
             from == IF len > n THEN len - n + 1 ELSE 1
             tail == SubSeq(lines, from, len)
  <1>1. len \in Nat
    BY LenProperties
  <1>2. from \in Nat /\ from >= 1 /\ from <= len + 1 /\ len - from + 1 \in Nat
    <2> HIDE DEF len
    <2> QED
      BY <1>1
  <1>3. len - from + 1 = IF len > n THEN n ELSE len
    <2> HIDE DEF len
    <2> QED
      BY <1>1
  <1>4. \A i \in 1..len : i > len - n => i >= from
    <2> HIDE DEF len
    <2> QED
      BY <1>1
  <1>5. \A i \in from..len : lines[i] \in S
    <2> HIDE DEF from
    <2> QED
      BY <1>1, <1>2, ElementOfSeq
  <1>6. /\ tail \in Seq(S)
        /\ Len(tail) = len - from + 1
        /\ \A k \in 1..(len - from + 1) : tail[k] = lines[from + k - 1]
    <2> HIDE DEF from
    <2> QED
      BY <1>1, <1>2, <1>5, SubSeqProperties
  <1>7. LastLines(lines, n) = tail
    BY DEF LastLines
  <1> HIDE DEF tail, from, len
  <1>8. DOMAIN tail = 1..(len - from + 1)
    BY <1>6, LenProperties
  <1>9. ASSUME NEW i \in 1..len, i > len - n
        PROVE  \E k \in DOMAIN tail : tail[k] = lines[i]
    <2>1. i >= from /\ i \in Int
      BY <1>1, <1>4, <1>9
    <2>2. i - from + 1 \in 1..(len - from + 1) /\ from + (i - from + 1) - 1 = i
      BY <1>1, <1>2, <1>9, <2>1
    <2> QED
      BY <1>6, <1>8, <2>2
  <1>10. ASSUME len > 0 PROVE tail[Len(tail)] = lines[len]
    <2>1. len - from + 1 > 0
      BY <1>1, <1>3, <1>10
    <2>2. len - from + 1 \in 1..(len - from + 1) /\ from + (len - from + 1) - 1 = len
      BY <1>1, <1>2, <2>1
    <2> QED
      BY <1>6, <2>2
  <1> QED
    BY <1>3, <1>6, <1>7, <1>9, <1>10 DEF len

\* A line written behind whole lines is a line of its own.
LEMMA JoinedType ==
  ASSUME LogTypeOK, NEW entry \in Lines
  PROVE  /\ Joined(file, entry) \in Seq(Lines)
         /\ end = "newline" => Joined(file, entry) = Append(file, entry)
  <1>1. file \in Seq(Lines) /\ end \in {"newline", "torn", "whole"}
    BY DEF LogTypeOK
  <1>2. NoEntry \in Lines
    BY SizesAssumption DEF NoEntry, Lines, Clock
  <1> DEFINE spoilt == [file EXCEPT ![Len(file)] = NoEntry]
  <1>3. spoilt \in Seq(Lines)
    <2>1. file \in [1..Len(file) -> Lines] /\ Len(file) \in Nat
      BY <1>1, LenProperties
    <2>2. spoilt \in [1..Len(file) -> Lines]
      BY <1>2, <2>1
    <2> HIDE DEF spoilt
    <2> QED
      BY <2>1, <2>2, SeqDef
  <1>4. Append(file, entry) \in Seq(Lines)
    BY <1>1, AppendProperties
  <1> HIDE DEF spoilt
  <1>5. Joined(file, entry) \in {Append(file, entry), file, spoilt}
    BY <1>1 DEF Joined, spoilt
  <1>6. end = "newline" => Joined(file, entry) = Append(file, entry)
    BY DEF Joined
  <1> QED
    BY <1>1, <1>3, <1>4, <1>5, <1>6

\* What the log writes is a line, with the event and the time it was written for.
LEMMA EntryType ==
  ASSUME LogTypeOK, NEW event \in Events, NEW t \in Clock
  PROVE  Entry(event, t) \in Lines /\ Entry(event, t).event = event /\ Entry(event, t).at = t
BY DEF Entry, Lines

\* The number of lines a load counts.
LEMMA Loaded ==
  ASSUME LogTypeOK
  PROVE  LoadedCount \in Nat
  <1>1. Len(file) \in Nat
    BY LenProperties DEF LogTypeOK
  <1> QED
    BY <1>1 DEF LoadedCount, LogTypeOK

\* What is written of an event that is not coalesced.
LEMMA RecordPlain ==
  ASSUME LogTypeOK, NEW entry \in Lines, entry.event # "blocked", Record(entry)
  PROVE  /\ file' \in Seq(Lines) /\ lineCount' \in Nat /\ lastEntry' \in Lines
         /\ end' = "newline" /\ loaded' = TRUE
         /\ lastEntry'.event # "blocked"
  <1> DEFINE note == Entry("note", clock)
             lines == Joined(file, entry)
             trims == LoadedCount + 1 >= MaxEntries + Slack /\ Len(lines) > MaxEntries
             short == Append(LastLines(lines, MaxEntries), note)
  <1>1. ShouldRecord(LoadedLast, entry)
    BY DEF ShouldRecord
  <1>2. LoadedCount \in Nat
    BY Loaded
  <1>3. note \in Lines /\ note.event = "note"
    BY EntryType DEF LogTypeOK, Events
  <1>4. lines \in Seq(Lines)
    BY JoinedType
  <1>5. short \in Seq(Lines)
    <2>1. LastLines(lines, MaxEntries) \in Seq(Lines)
      <3> HIDE DEF lines
      <3> QED
        BY <1>4, LastLinesEnd, SizesAssumption
    <2> HIDE DEF note, lines
    <2> QED
      BY <1>3, <2>1, AppendProperties
  <1>6. loaded' = TRUE
    BY DEF Record
  <1>7. end' = "newline"
    BY <1>1 DEF Record
  <1>8. CASE trims
    <2>1. file' = short /\ lineCount' = MaxEntries + 1 /\ lastEntry' = note
      BY <1>1, <1>8 DEF Record, Remembered
    <2> HIDE DEF short, note
    <2> QED
      BY <1>3, <1>5, <1>6, <1>7, <2>1, SizesAssumption
  <1>9. CASE ~trims
    <2>1. file' = lines /\ lineCount' = LoadedCount + 1 /\ lastEntry' = entry
      BY <1>1, <1>9 DEF Record, Remembered
    <2> HIDE DEF lines
    <2> QED
      BY <1>2, <1>4, <1>6, <1>7, <2>1
  <1> HIDE DEF trims
  <1> QED
    BY <1>8, <1>9

\* A blocked attempt is folded into the last entry, or it is the last entry, or the note
\* about the trim it set off is.
LEMMA RecordBlocked ==
  ASSUME LogTypeOK, loaded, Record(Entry("blocked", clock))
  PROVE  /\ file' \in Seq(Lines) /\ lineCount' \in Nat /\ lastEntry' \in Lines
         /\ end' \in {"newline", "torn", "whole"} /\ loaded' = TRUE
         /\ IF ShouldRecord(LoadedLast, Entry("blocked", clock))
              THEN lastEntry'.event = "blocked" => lastEntry'.at = clock
              ELSE lastEntry' = lastEntry /\ ~ShouldRecord(lastEntry, Entry("blocked", clock))
  <1> DEFINE entry == Entry("blocked", clock)
             note == Entry("note", clock)
             lines == Joined(file, entry)
             trims == LoadedCount + 1 >= MaxEntries + Slack /\ Len(lines) > MaxEntries
             short == Append(LastLines(lines, MaxEntries), note)
  <1>1. LoadedLast = lastEntry /\ LoadedCount = lineCount
    BY DEF LoadedLast, LoadedCount
  <1>2. /\ file \in Seq(Lines) /\ lineCount \in Nat /\ lastEntry \in Lines
        /\ end \in {"newline", "torn", "whole"}
    BY DEF LogTypeOK
  <1>3. /\ note \in Lines /\ note.event = "note"
        /\ entry \in Lines /\ entry.event = "blocked" /\ entry.at = clock
    BY EntryType DEF LogTypeOK, Events
  <1>4. lines \in Seq(Lines)
    <2> HIDE DEF entry
    <2> QED
      BY <1>3, JoinedType
  <1>5. short \in Seq(Lines)
    <2>1. LastLines(lines, MaxEntries) \in Seq(Lines)
      <3> HIDE DEF lines
      <3> QED
        BY <1>4, LastLinesEnd, SizesAssumption
    <2> HIDE DEF note, lines
    <2> QED
      BY <1>3, <2>1, AppendProperties
  <1>6. loaded' = TRUE
    BY DEF Record
  <1>7. CASE ~ShouldRecord(LoadedLast, entry)
    <2>1. /\ lastEntry' = LoadedLast /\ lineCount' = LoadedCount
          /\ file' = file /\ end' = end
      BY <1>7 DEF Record
    <2> QED
      BY <1>1, <1>2, <1>6, <1>7, <2>1
  <1>8. CASE ShouldRecord(LoadedLast, entry) /\ trims
    <2>1. /\ file' = short /\ lineCount' = MaxEntries + 1 /\ lastEntry' = note
          /\ end' = "newline"
      BY <1>8 DEF Record, Remembered
    <2> HIDE DEF short, note
    <2> QED
      BY <1>3, <1>5, <1>6, <1>8, <2>1, SizesAssumption
  <1>9. CASE ShouldRecord(LoadedLast, entry) /\ ~trims
    <2>1. /\ file' = lines /\ lineCount' = LoadedCount + 1 /\ lastEntry' = entry
          /\ end' = "newline"
      BY <1>9 DEF Record, Remembered
    <2>2. lineCount' \in Nat
      BY <1>1, <1>2, <2>1
    <2>3. ShouldRecord(LoadedLast, entry)
      BY <1>9
    <2> HIDE DEF lines
    <2> QED
      BY <1>3, <1>4, <1>6, <2>1, <2>2, <2>3
  <1> HIDE DEF trims
  <1> QED
    BY <1>7, <1>8, <1>9

-----------------------------------------------------------------------------
(* What holds of the log in every state. A blocked attempt can only be folded  *)
(* into an entry the running process wrote itself, so while the guard is on    *)
(* what is in memory is the last attempt on record, if it is an attempt at     *)
(* all; and nothing can cut the last line short between the event of a kill    *)
(* that was found out and the connect behind it.                               *)

OnIsLoaded == service = "on" => loaded
LastIsCounted == (service = "on" /\ lastEntry.event = "blocked") => attempt = lastEntry.at
ConnectIsClean == (service = "connecting" /\ start = "UNCLEAN_STOP") => end = "newline"
LogInv ==
  LogTypeOK /\ OnIsLoaded /\ LastIsCounted /\ ConnectIsClean /\ AttemptsCounted

\* An event that is not coalesced leaves a log whose last line ends, and nothing to fold
\* an attempt into.
LEMMA Written ==
  ASSUME LogTypeOK, NEW entry \in Lines, entry.event # "blocked", Record(entry)
  PROVE  /\ file' \in Seq(Lines) /\ end' \in {"newline", "torn", "whole"}
         /\ loaded' \in BOOLEAN /\ lastEntry' \in Lines /\ lineCount' \in Nat
         /\ OnIsLoaded' /\ LastIsCounted' /\ ConnectIsClean'
  <1>1. /\ file' \in Seq(Lines) /\ lineCount' \in Nat /\ lastEntry' \in Lines
        /\ end' = "newline" /\ loaded' = TRUE
        /\ lastEntry'.event # "blocked"
    BY RecordPlain
  <1> QED
    BY <1>1 DEF OnIsLoaded, LastIsCounted, ConnectIsClean

\* An entry of another kind is never an attempt.
LEMMA Note ==
  ASSUME LogTypeOK, NEW t \in Clock
  PROVE  Entry("note", t) \in Lines /\ Entry("note", t).event # "blocked"
BY EntryType DEF Events

\* A reading of the status leaves the file whole lines, and the memory what it was.
LEMMA ObserveKeeps ==
  ASSUME LogInv, Observe, UNCHANGED <<clock, session, attempts>>
  PROVE  /\ file' \in Seq(Lines) /\ end' \in {"newline", "torn", "whole"}
         /\ loaded' \in BOOLEAN /\ lastEntry' \in Lines /\ lineCount' \in Nat
         /\ OnIsLoaded' /\ LastIsCounted' /\ ConnectIsClean'
         /\ health' \in {"none", "PROTECTING", "UNPROTECTED", "IDLE"}
  <1>1. LogTypeOK
    BY DEF LogInv
  <1>2. health' \in {"none", "PROTECTING", "UNPROTECTED", "IDLE"}
    BY DEF Observe, Health
  <1>3. CASE Record(Entry("note", clock))
    <2>1. clock \in Clock
      BY <1>1 DEF LogTypeOK
    <2>2. Entry("note", clock) \in Lines /\ Entry("note", clock).event # "blocked"
      BY <1>1, <2>1, Note
    <2> QED
      BY <1>1, <1>2, <1>3, <2>2, Written
  <1>4. CASE UNCHANGED store
    BY <1>1, <1>2, <1>4
    DEF LogInv, LogTypeOK, store, session, attempts, OnIsLoaded, LastIsCounted, ConnectIsClean
  <1> QED
    BY <1>3, <1>4 DEF Observe

\* What a kill cuts short is still a file of lines.
LEMMA CutType ==
  ASSUME LogTypeOK, NEW entry \in Underway, AppendCut(entry) \/ TrimCut(entry)
  PROVE  file' \in Seq(Lines) /\ end' \in {"newline", "torn", "whole"}
  <1>1. entry \in Lines
    BY DEF Underway, LogTypeOK, Entry, Lines, Events
  <1>2. NoEntry \in Lines
    BY SizesAssumption DEF NoEntry, Lines, Clock
  <1>3. CASE AppendCut(entry)
    <2>1. PICK e \in {"torn", "whole"} :
            /\ end' = IF end = "newline" THEN e ELSE end
            /\ file' = Joined(file, IF e = "torn" THEN NoEntry ELSE entry)
      BY <1>3 DEF AppendCut
    <2>2. (IF e = "torn" THEN NoEntry ELSE entry) \in Lines
      BY <1>1, <1>2
    <2>3. file' \in Seq(Lines)
      BY <2>1, <2>2, JoinedType
    <2> QED
      BY <2>1, <2>3 DEF LogTypeOK
  <1>4. CASE TrimCut(entry)
    <2>1. Joined(file, entry) \in Seq(Lines)
      BY <1>1, JoinedType
    <2>2. LastLines(Joined(file, entry), MaxEntries) \in Seq(Lines)
      BY <2>1, LastLinesEnd, SizesAssumption
    <2> QED
      BY <1>4, <2>2 DEF TrimCut
  <1> QED
    BY <1>3, <1>4

\* No step of the log breaks its invariant.
LEMMA LogInvNext ==
  ASSUME LogInv, [LogNext]_logVars
  PROVE  LogInv'
  <1>1. LogTypeOK /\ OnIsLoaded /\ LastIsCounted /\ ConnectIsClean /\ AttemptsCounted
    BY DEF LogInv
  <1>2. clock \in Clock
    BY <1>1 DEF LogTypeOK
  <1>3. Entry("note", clock) \in Lines /\ Entry("note", clock).event # "blocked"
    BY <1>1, <1>2, Note
  <1> USE DEF store, session, attempts, watch
  <1>4. CASE Connect
    <2>1. start' \in Starts
      BY <1>4 DEF Connect, Classify, Starts
    <2>2. /\ file' \in Seq(Lines) /\ end' \in {"newline", "torn", "whole"}
          /\ loaded' \in BOOLEAN /\ lastEntry' \in Lines /\ lineCount' \in Nat
          /\ OnIsLoaded' /\ LastIsCounted' /\ ConnectIsClean'
      <3>1. CASE start' = "UNCLEAN_STOP"
        BY <1>1, <1>3, <1>4, <3>1, Written DEF Connect
      <3>2. CASE start' # "UNCLEAN_STOP"
        BY <1>1, <1>4, <3>2
        DEF Connect, LogTypeOK, OnIsLoaded, LastIsCounted, ConnectIsClean
      <3> QED
        BY <3>1, <3>2
    <2> QED
      BY <1>1, <1>4, <2>1, <2>2 DEF Connect, LogInv, LogTypeOK, AttemptsCounted
  <1>5. CASE Connected
    <2> DEFINE on == [Entry("on", clock) EXCEPT !.detail = start]
    <2>1. on \in Lines /\ on.event # "blocked"
      BY <1>1 DEF LogTypeOK, Lines, Entry, Events
    <2>2. Record(on)
      BY <1>5 DEF Connected
    <2>3. /\ file' \in Seq(Lines) /\ end' \in {"newline", "torn", "whole"}
          /\ loaded' \in BOOLEAN /\ lastEntry' \in Lines /\ lineCount' \in Nat
          /\ OnIsLoaded' /\ LastIsCounted' /\ ConnectIsClean'
      <3> HIDE DEF on
      <3> QED
        BY <1>1, <2>1, <2>2, Written
    <2>4. asked' \in BOOLEAN
      BY <1>1, <1>5 DEF Connected, AskStatus, LogTypeOK, KeepRunning
    <2>5. /\ clock' = clock /\ enabled' = enabled /\ start' = start /\ mode' = mode
          /\ health' = health /\ pending' = pending /\ tried' = tried /\ attempt' = attempt
          /\ service' = "on" /\ fate' = "none" /\ kept' \in BOOLEAN
      BY <1>5 DEF Connected
    <2> QED
      BY <1>1, <2>3, <2>4, <2>5 DEF LogInv, LogTypeOK, AttemptsCounted
  <1>6. CASE Disable
    <2>1. /\ file' \in Seq(Lines) /\ end' \in {"newline", "torn", "whole"}
          /\ loaded' \in BOOLEAN /\ lastEntry' \in Lines /\ lineCount' \in Nat
          /\ OnIsLoaded' /\ LastIsCounted' /\ ConnectIsClean'
      <3>1. CASE service = "on"
        <4>1. Entry("off", clock) \in Lines /\ Entry("off", clock).event # "blocked"
          BY <1>1, <1>2, EntryType DEF Events
        <4> QED
          BY <1>1, <1>6, <3>1, <4>1, Written DEF Disable
      <3>2. CASE service # "on"
        BY <1>1, <1>6, <3>2
        DEF Disable, LogTypeOK, OnIsLoaded, LastIsCounted, ConnectIsClean
      <3> QED
        BY <3>1, <3>2
    <2> QED
      BY <1>1, <1>6, <2>1 DEF Disable, LogInv, LogTypeOK, AttemptsCounted
  <1>7. CASE Blocked
    <2>1. loaded
      BY <1>1, <1>7 DEF Blocked, OnIsLoaded
    <2>2. LoadedLast = lastEntry
      BY <2>1 DEF LoadedLast
    <2>3. /\ file' \in Seq(Lines) /\ lineCount' \in Nat /\ lastEntry' \in Lines
          /\ end' \in {"newline", "torn", "whole"} /\ loaded' = TRUE
          /\ IF ShouldRecord(LoadedLast, Entry("blocked", clock))
               THEN lastEntry'.event = "blocked" => lastEntry'.at = clock
               ELSE lastEntry' = lastEntry /\ ~ShouldRecord(lastEntry, Entry("blocked", clock))
      BY <1>1, <1>7, <2>1, RecordBlocked DEF Blocked
    <2>4. /\ service = "on" /\ tried' = clock
          /\ attempt' = IF ShouldRecord(LoadedLast, Entry("blocked", clock))
                          THEN clock ELSE attempt
          /\ UNCHANGED <<clock, enabled, service, start, fate, kept, mode, health, asked, pending>>
      BY <1>7 DEF Blocked
    <2>5. LogTypeOK'
      BY <1>1, <1>2, <2>3, <2>4 DEF LogTypeOK
    <2>6. OnIsLoaded' /\ ConnectIsClean'
      BY <2>3, <2>4 DEF OnIsLoaded, ConnectIsClean
    <2>7. CASE ShouldRecord(LoadedLast, Entry("blocked", clock))
      <3>1. attempt' = clock /\ tried' = clock /\ clock \in Int /\ clock # Never
        BY <1>2, <2>4, <2>7, SizesAssumption DEF Clock, Never
      <3>2. LastIsCounted'
        BY <2>3, <2>7, <3>1 DEF LastIsCounted
      <3>3. AttemptsCounted'
        BY <3>1, SizesAssumption DEF AttemptsCounted
      <3> QED
        BY <2>5, <2>6, <3>2, <3>3 DEF LogInv
    <2>8. CASE ~ShouldRecord(LoadedLast, Entry("blocked", clock))
      <3>1. lastEntry' = lastEntry /\ ~ShouldRecord(lastEntry, Entry("blocked", clock))
        BY <2>3, <2>8
      <3>2. attempt' = attempt
        BY <2>4, <2>8
      <3>3. /\ lastEntry.event = "blocked" /\ lastEntry.at <= clock
            /\ clock - lastEntry.at < Coalesce
        <4>1. Entry("blocked", clock).event = "blocked" /\ Entry("blocked", clock).at = clock
          BY DEF Entry
        <4>2. lastEntry.at \in Int /\ clock \in Int /\ Coalesce \in Int
          BY <1>1, <1>2, SizesAssumption DEF LogTypeOK, Lines, Clock
        <4> QED
          BY <3>1, <4>1, <4>2 DEF ShouldRecord
      <3>4. attempt = lastEntry.at
        BY <1>1, <2>4, <3>3 DEF LastIsCounted
      <3>5. LastIsCounted'
        BY <3>1, <3>2, <3>4 DEF LastIsCounted
      <3>6. AttemptsCounted'
        <4>1. attempt # Never
          BY <1>1, <3>4, SizesAssumption DEF LogTypeOK, Lines, Clock, Never
        <4> QED
          BY <2>4, <3>2, <3>3, <3>4, <4>1 DEF AttemptsCounted
      <3> QED
        BY <2>5, <2>6, <3>5, <3>6 DEF LogInv
    <2> QED
      BY <2>7, <2>8
  <1>8. ASSUME Check \/ StartCommand PROVE LogInv'
    <2>1. /\ Observe /\ UNCHANGED <<clock, enabled, session, mode, pending, attempts>>
          /\ asked' \in BOOLEAN
      BY <1>1, <1>8 DEF Check, StartCommand, LogTypeOK
    <2>2. /\ file' \in Seq(Lines) /\ end' \in {"newline", "torn", "whole"}
          /\ loaded' \in BOOLEAN /\ lastEntry' \in Lines /\ lineCount' \in Nat
          /\ OnIsLoaded' /\ LastIsCounted' /\ ConnectIsClean'
          /\ health' \in {"none", "PROTECTING", "UNPROTECTED", "IDLE"}
      BY <2>1, ObserveKeeps
    <2> QED
      BY <1>1, <2>1, <2>2 DEF LogInv, LogTypeOK, AttemptsCounted
  <1>9. CASE SetMode
    <2>1. /\ file' \in Seq(Lines) /\ end' \in {"newline", "torn", "whole"}
          /\ loaded' \in BOOLEAN /\ lastEntry' \in Lines /\ lineCount' \in Nat
          /\ OnIsLoaded' /\ LastIsCounted' /\ ConnectIsClean'
      BY <1>1, <1>3, <1>9, Written DEF SetMode
    <2> QED
      BY <1>1, <1>9, <2>1 DEF SetMode, LogInv, LogTypeOK, AttemptsCounted
  <1>10. CASE CaptureRecords
    <2>1. pending \in Clock
      BY <1>1, <1>10 DEF CaptureRecords, LogTypeOK
    <2>2. Entry("note", pending) \in Lines /\ Entry("note", pending).event # "blocked"
      BY <1>1, <2>1, Note
    <2>3. /\ file' \in Seq(Lines) /\ end' \in {"newline", "torn", "whole"}
          /\ loaded' \in BOOLEAN /\ lastEntry' \in Lines /\ lineCount' \in Nat
          /\ OnIsLoaded' /\ LastIsCounted' /\ ConnectIsClean'
      BY <1>1, <1>10, <2>2, Written DEF CaptureRecords
    <2> QED
      BY <1>1, <1>10, <2>3 DEF CaptureRecords, LogInv, LogTypeOK, AttemptsCounted
  <1>11. CASE Kill
    <2>1. file' \in Seq(Lines) /\ end' \in {"newline", "torn", "whole"}
      <3>1. CASE UNCHANGED <<file, end, kept>>
        BY <1>1, <3>1 DEF LogTypeOK
      <3>2. CASE \E entry \in Underway : AppendCut(entry) \/ TrimCut(entry)
        BY <1>1, <3>2, CutType
      <3> QED
        BY <1>11, <3>1, <3>2 DEF Kill
    <2>2. /\ fate' \in {"none", "clean", "killed", "rebooted"} /\ kept' \in BOOLEAN
          /\ asked' \in BOOLEAN
      BY <1>1, <1>11 DEF Kill, LogTypeOK
    <2>3. /\ ProcessGone /\ UNCHANGED <<clock, enabled, mode, tried, attempt>>
      BY <1>11 DEF Kill
    <2>4. NoEntry \in Lines
      BY SizesAssumption DEF NoEntry, Lines, Clock
    <2> QED
      BY <1>1, <2>1, <2>2, <2>3, <2>4
      DEF ProcessGone, LogInv, LogTypeOK, OnIsLoaded, LastIsCounted, ConnectIsClean,
          AttemptsCounted
  <1>12. CASE Reboot
    <2>1. NoEntry \in Lines /\ 0 \in Clock
      BY SizesAssumption DEF NoEntry, Lines, Clock
    <2> QED
      BY <1>1, <1>12, <2>1
      DEF Reboot, ProcessGone, LogInv, LogTypeOK, OnIsLoaded, LastIsCounted, ConnectIsClean,
          AttemptsCounted
  <1>13. CASE ClockTicks
    <2>1. clock' \in Clock
      BY <1>2, <1>13, SizesAssumption DEF ClockTicks, Clock
    <2> QED
      BY <1>1, <1>13, <2>1
      DEF ClockTicks, LogInv, LogTypeOK, OnIsLoaded, LastIsCounted, ConnectIsClean,
          AttemptsCounted
  <1>14. ASSUME Enable \/ Open \/ WindowEnds \/ CaptureStamps \/ UNCHANGED logVars
         PROVE  LogInv'
    <2>1. /\ UNCHANGED <<store, clock, session, attempts>>
          /\ enabled' \in BOOLEAN /\ mode' \in {"OFF", "ARMED", "DISARMED"}
          /\ health' = health /\ asked' \in BOOLEAN /\ pending' \in Clock \cup {Never}
      BY <1>1, <1>14
      DEF Enable, Open, WindowEnds, CaptureStamps, logVars, LogTypeOK, AskStatus, KeepRunning
    <2> QED
      BY <1>1, <2>1
      DEF LogInv, LogTypeOK, OnIsLoaded, LastIsCounted, ConnectIsClean, AttemptsCounted
  <1> QED
    BY <1>4, <1>5, <1>6, <1>7, <1>8, <1>9, <1>10, <1>11, <1>12, <1>13, <1>14 DEF LogNext

\* The invariant holds when the app is first started.
LEMMA LogInvInit ==
  ASSUME LogInit
  PROVE  LogInv
  <1>1. NoEntry \in Lines /\ 0 \in Clock /\ <<>> \in Seq(Lines)
    BY EmptySeq, SizesAssumption DEF NoEntry, Lines, Clock
  <1> QED
    BY <1>1
    DEF LogInit, LogInv, LogTypeOK, OnIsLoaded, LastIsCounted, ConnectIsClean, AttemptsCounted

\* The invariant of the log holds in every reachable state, for a file of any length.
THEOREM LogInvAlways == LogSpec => []LogInv
  <1>1. LogInit => LogInv
    BY LogInvInit
  <1>2. LogInv /\ [LogNext]_logVars => LogInv'
    BY LogInvNext
  <1> QED
    BY <1>1, <1>2, PTL DEF LogSpec

\* Every state of the log is one its code can read (TamperLogStore).
THEOREM LogTypeCorrect == LogSpec => []LogTypeOK
  <1>1. LogInv => LogTypeOK
    BY DEF LogInv
  <1> QED
    BY <1>1, LogInvAlways, PTL

\* An attempt that is folded away is the same visit as one that is on record, on this boot,
\* for whatever the window is and however the writers come between (shouldRecord).
THEOREM AttemptsAlwaysCounted == LogSpec => []AttemptsCounted
  <1>1. LogInv => AttemptsCounted
    BY DEF LogInv
  <1> QED
    BY <1>1, LogInvAlways, PTL

\* The connect behind a kill that was found out is the last line of the log, or the last
\* but one when it set off a trim (recordConnect, trim).
THEOREM KillAlwaysOnRecord == LogSpec => KillIsOnRecord
  <1> DEFINE Told == (Connected /\ start = "UNCLEAN_STOP")
                       => \E l \in Range(LastLines(file', 2)) : l.detail = "UNCLEAN_STOP"
  <1>1. ASSUME LogInv, Connected, start = "UNCLEAN_STOP"
        PROVE  \E l \in Range(LastLines(file', 2)) : l.detail = "UNCLEAN_STOP"
    <2> DEFINE on == [Entry("on", clock) EXCEPT !.detail = start]
               note == Entry("note", clock)
               lines == Append(file, on)
               kept2 == LastLines(file', 2)
    <2>1. /\ LogTypeOK /\ end = "newline"
      BY <1>1 DEF LogInv, ConnectIsClean, Connected
    <2>2. on \in Lines /\ on.event # "blocked" /\ on.detail = "UNCLEAN_STOP"
      BY <1>1, <2>1 DEF LogTypeOK, Lines, Entry, Events
    <2>3. Record(on)
      BY <1>1 DEF Connected
    <2> HIDE DEF on
    <2>4. Joined(file, on) = lines
      BY <2>1, <2>2, JoinedType
    <2>5. file \in Seq(Lines) /\ note \in Lines
      BY <2>1, Note DEF LogTypeOK
    <2> HIDE DEF note
    <2>6. /\ lines \in Seq(Lines) /\ Len(lines) = Len(file) + 1 /\ Len(file) \in Nat
          /\ lines[Len(lines)] = on
      BY <2>2, <2>5, AppendProperties, LenProperties
    <2>7. ShouldRecord(LoadedLast, on)
      BY <2>2 DEF ShouldRecord
    <2> HIDE DEF lines
    <2>8. /\ file' \in Seq(Lines)
          /\ \E i \in 1..Len(file') : i > Len(file') - 2 /\ file'[i] = on
      <3>1. CASE file' = lines
        <4>1. Len(lines) \in 1..Len(lines) /\ Len(lines) > Len(lines) - 2
          BY <2>6
        <4> QED
          BY <2>6, <3>1, <4>1
      <3>2. CASE file' = Append(LastLines(lines, MaxEntries), note)
        <4> DEFINE short == LastLines(lines, MaxEntries)
        <4>1. /\ short \in Seq(Lines)
              /\ Len(short) = (IF Len(lines) > MaxEntries THEN MaxEntries ELSE Len(lines))
              /\ short[Len(short)] = lines[Len(lines)]
          <5>1. Len(lines) > 0
            BY <2>6
          <5> QED
            BY <2>6, <5>1, LastLinesEnd, SizesAssumption
        <4> HIDE DEF short
        <4>2. Len(short) \in Nat /\ Len(short) >= 1
          BY <2>6, <4>1, SizesAssumption
        <4>3. /\ file' = Append(short, note) /\ file' \in Seq(Lines)
              /\ Len(file') = Len(short) + 1
              /\ file'[Len(short)] = short[Len(short)]
          BY <2>5, <3>2, <4>1, <4>2, AppendProperties DEF short
        <4>4. Len(short) \in 1..Len(file') /\ Len(short) > Len(file') - 2
          BY <4>2, <4>3
        <4> QED
          BY <2>6, <4>1, <4>3, <4>4
      <3> QED
        BY <2>3, <2>4, <2>7, <3>1, <3>2 DEF Record, note
    <2>9. \E k \in DOMAIN kept2 : kept2[k] = on
      <3>1. PICK i \in 1..Len(file') : i > Len(file') - 2 /\ file'[i] = on
        BY <2>8
      <3> QED
        BY <2>8, <3>1, LastLinesEnd
    <2>10. on \in Range(kept2)
      <3> HIDE DEF kept2
      <3> QED
        BY <2>9 DEF Range
    <2> QED
      BY <2>2, <2>10
  <1>2. LogInv /\ [LogNext]_logVars => [Told]_logVars
    BY <1>1
  <1> QED
    BY <1>2, LogInvAlways, PTL DEF LogSpec, KillIsOnRecord

\* No step of the app leaves an armed mode, or one released for a while, without a status
\* service that runs or is on its way (shouldKeepRunning, GuardStatusService.start).
THEOREM ModeAlwaysWatched == LogSpec => ModeIsWatched
  <1> DEFINE Left == (Watched /\ ~Watched') => (Kill \/ Reboot)
  <1>1. ASSUME LogNext, Watched PROVE Watched' \/ Kill \/ Reboot
    <2> USE DEF watch, session, store, attempts
    <2>1. ASSUME Check \/ StartCommand PROVE Watched'
      BY <2>1 DEF Check, StartCommand, Observe, KeepRunning, Health, Watched
    <2>2. ASSUME Connected \/ Open PROVE Watched'
      BY <1>1, <2>2 DEF Connected, Open, AskStatus, Watched
    <2>3. ASSUME SetMode \/ WindowEnds PROVE Watched'
      BY <1>1, <2>3 DEF SetMode, WindowEnds, Watched
    <2>4. ASSUME Connect \/ Disable \/ Enable \/ Blocked \/ CaptureStamps \/ CaptureRecords
                   \/ ClockTicks
          PROVE  Watched'
      BY <1>1, <2>4
      DEF Connect, Disable, Enable, Blocked, CaptureStamps, CaptureRecords, ClockTicks, Watched
    <2> QED
      BY <1>1, <2>1, <2>2, <2>3, <2>4 DEF LogNext
  <1>2. [LogNext]_logVars => [Left]_logVars
    BY <1>1
  <1> QED
    BY <1>2, PTL DEF LogSpec, ModeIsWatched

-----------------------------------------------------------------------------
(* What the file tells of the last session. The boundary a connect starts from *)
(* is the last one in the file: an "off" as long as the last session ended in  *)
(* order, an "on" if it was killed and its "on" was a line of its own, with no *)
(* line since that is later than now. A trim takes lines away at the front     *)
(* only, and a line that was cut short is the last one and says nothing.       *)

IsLast(lines, b) ==
  /\ lines[b].event \in {"on", "off"}
  /\ \A i \in 1..Len(lines) : i > b => lines[i].event \notin {"on", "off"}
Tells(lines, events, t) ==
  \A b \in 1..Len(lines) : IsLast(lines, b) =>
    lines[b].event \in events /\ \A i \in 1..Len(lines) : i >= b => lines[i].at <= t

TornIsLast == end = "torn" => (file # <<>> /\ file[Len(file)] = NoEntry)
OnIsClean == service = "on" => end = "newline"
StampIsPast == pending # Never => pending <= clock
CleanIsTold == fate = "clean" => (service # "on" /\ Tells(file, {"off"}, MaxClock))
NoneIsTold == (fate = "none" /\ service # "on") => Tells(file, {}, MaxClock)
SessionIsTold == (kept /\ (service = "on" \/ fate = "killed")) => Tells(file, {"on"}, clock)
FateInv ==
  /\ TornIsLast /\ OnIsClean /\ StampIsPast
  /\ CleanIsTold /\ NoneIsTold /\ SessionIsTold

\* A set of places has a last one.
LEMMA LastExists ==
  ASSUME NEW n \in Nat, NEW M \in SUBSET (1..n), M # {}
  PROVE  Max(M) \in M /\ \A k \in M : Max(M) >= k
  <1> DEFINE above(k) == {j \in M : j > k}
             T == {above(k) : k \in M}
  <1>1. IsFiniteSet(M)
    <2>1. IsFiniteSet(1..n)
      BY FS_Interval
    <2> QED
      BY <2>1, FS_Subset
  <1>2. T \subseteq FiniteSubsetsOf(M) /\ T # {}
    <2>1. \A k \in M : above(k) \in SUBSET M
      OBVIOUS
    <2>2. \A k \in M : IsFiniteSet(above(k))
      BY <1>1, <2>1, FS_Subset
    <2>3. PICK k \in M : TRUE
      OBVIOUS
    <2> HIDE DEF above
    <2>4. \A j \in M : above(j) \in FiniteSubsetsOf(M)
      BY <2>1, <2>2 DEF FiniteSubsetsOf
    <2>5. above(k) \in T
      OBVIOUS
    <2>6. \A t \in T : t \in FiniteSubsetsOf(M)
      BY <2>4, Zenon
    <2> QED
      BY <2>5, <2>6, Zenon
  <1>3. PICK s \in T : \A u \in T : <<u, s>> \notin StrictSubsetOrdering(M)
    <2> HIDE DEF T
    <2> QED
      BY <1>2, WFMin, FS_StrictSubsetOrderingWellFounded
  <1>4. PICK m \in M : s = above(m)
    OBVIOUS
  <1>5. ASSUME NEW k \in M, k > m PROVE FALSE
    <2>1. k \in above(m) /\ k \notin above(k)
      BY <1>5
    <2>2. above(k) \subseteq above(m)
      <3> SUFFICES ASSUME NEW j \in M, j > k PROVE j > m
        OBVIOUS
      <3>1. j \in Int /\ k \in Int /\ m \in Int
        OBVIOUS
      <3> QED
        BY <1>5, <3>1
    <2>3. <<above(k), s>> \in StrictSubsetOrdering(M)
      BY <1>4, <2>1, <2>2 DEF StrictSubsetOrdering
    <2> QED
      BY <1>3, <2>3
  <1>6. \A k \in M : m >= k
    BY <1>5
  <1> QED
    BY <1>6 DEF Max

\* A line that bounds no session, written behind the others, leaves what they tell.
LEMMA TellsMore ==
  ASSUME NEW lines \in Seq(Lines), NEW events, NEW t \in Int, Tells(lines, events, t),
         NEW l \in Lines, l.event \notin {"on", "off"}, l.at <= t
  PROVE  Tells(Append(lines, l), events, t)
  <1> DEFINE long == Append(lines, l)
  <1>1. /\ Len(lines) \in Nat /\ Len(long) = Len(lines) + 1
        /\ \A i \in 1..Len(lines) : long[i] = lines[i]
        /\ long[Len(lines) + 1] = l
    BY AppendProperties, LenProperties
  <1> HIDE DEF long
  <1> SUFFICES ASSUME NEW b \in 1..Len(long), IsLast(long, b)
               PROVE  /\ long[b].event \in events
                      /\ \A i \in 1..Len(long) : i >= b => long[i].at <= t
    BY DEF Tells, long
  <1>2. \A i \in 1..Len(long) : i \in 1..Len(lines) \/ i = Len(lines) + 1
    BY <1>1
  <1>3. b \in 1..Len(lines)
    BY <1>1, <1>2 DEF IsLast
  <1>4. IsLast(lines, b)
    <2>1. \A i \in 1..Len(lines) : i \in 1..Len(long)
      BY <1>1
    <2> QED
      BY <1>1, <1>3, <2>1 DEF IsLast
  <1>5. /\ lines[b].event \in events
        /\ \A i \in 1..Len(lines) : i >= b => lines[i].at <= t
    BY <1>3, <1>4 DEF Tells
  <1> QED
    BY <1>1, <1>2, <1>3, <1>5

\* A boundary written behind the others is the last one.
LEMMA TellsItself ==
  ASSUME NEW lines \in Seq(Lines), NEW events, NEW t \in Int,
         NEW l \in Lines, l.event \in events, l.event \in {"on", "off"}, l.at <= t
  PROVE  Tells(Append(lines, l), events, t)
  <1> DEFINE long == Append(lines, l)
  <1>1. /\ Len(lines) \in Nat /\ Len(long) = Len(lines) + 1
        /\ long[Len(lines) + 1] = l
    BY AppendProperties, LenProperties
  <1> HIDE DEF long
  <1> SUFFICES ASSUME NEW b \in 1..Len(long), IsLast(long, b)
               PROVE  /\ long[b].event \in events
                      /\ \A i \in 1..Len(long) : i >= b => long[i].at <= t
    BY DEF Tells, long
  <1>2. b = Len(long)
    <2>1. Len(long) \in 1..Len(long)
      BY <1>1
    <2>2. ~(Len(long) > b)
      BY <1>1, <2>1 DEF IsLast
    <2> QED
      BY <1>1, <2>2
  <1> QED
    BY <1>1, <1>2

\* The newest lines of a file tell nothing else than the whole of it.
LEMMA TellsStill ==
  ASSUME NEW lines \in Seq(Lines), NEW events, NEW t \in Int, Tells(lines, events, t),
         NEW n \in Nat \ {0}
  PROVE  Tells(LastLines(lines, n), events, t)
  <1> DEFINE len == Len(lines)
             from == IF len > n THEN len - n + 1 ELSE 1
             tail == SubSeq(lines, from, len)
  <1>1. len \in Nat
    BY LenProperties
  <1>2. from \in Nat /\ from >= 1 /\ from <= len + 1 /\ len - from + 1 \in Nat
    <2> HIDE DEF len
    <2> QED
      BY <1>1
  <1>3. \A i \in from..len : lines[i] \in Lines
    <2> HIDE DEF from
    <2> QED
      BY <1>1, <1>2, ElementOfSeq
  <1>4. /\ Len(tail) = len - from + 1
        /\ \A k \in 1..(len - from + 1) : tail[k] = lines[from + k - 1]
    <2> HIDE DEF from
    <2> QED
      BY <1>1, <1>2, <1>3, SubSeqProperties
  <1>5. LastLines(lines, n) = tail
    BY DEF LastLines
  <1> HIDE DEF tail, from
  <1> SUFFICES ASSUME NEW b \in 1..Len(tail), IsLast(tail, b)
               PROVE  /\ tail[b].event \in events
                      /\ \A i \in 1..Len(tail) : i >= b => tail[i].at <= t
    BY <1>5 DEF Tells
  <1> DEFINE place(k) == from + k - 1
  <1>6. \A k \in 1..Len(tail) : place(k) \in 1..len /\ tail[k] = lines[place(k)]
    <2> HIDE DEF len
    <2> QED
      BY <1>1, <1>2, <1>4
  <1>7. IsLast(lines, place(b))
    <2>1. lines[place(b)].event \in {"on", "off"}
      BY <1>6 DEF IsLast
    <2>2. ASSUME NEW i \in 1..Len(lines), i > place(b)
          PROVE  lines[i].event \notin {"on", "off"}
      <3>1. /\ i - from + 1 \in 1..Len(tail) /\ i - from + 1 > b
            /\ from + (i - from + 1) - 1 = i
        BY <1>1, <1>2, <1>4, <2>2
      <3>2. tail[i - from + 1] = lines[i]
        BY <1>4, <3>1
      <3>3. tail[i - from + 1].event \notin {"on", "off"}
        BY <3>1 DEF IsLast
      <3> QED
        BY <3>2, <3>3
    <2> QED
      BY <2>1, <2>2 DEF IsLast
  <1>8. /\ lines[place(b)].event \in events
        /\ \A i \in 1..Len(lines) : i >= place(b) => lines[i].at <= t
    BY <1>6, <1>7 DEF Tells
  <1>9. \A i \in 1..Len(tail) : i >= b => place(i) >= place(b)
    BY <1>1, <1>2, <1>4
  <1> QED
    <2> HIDE DEF place
    <2> QED
      BY <1>6, <1>8, <1>9

\* A clock that goes on makes no line later than it is.
LEMMA TellsLater ==
  ASSUME LogTypeOK, NEW events, NEW t \in Int, NEW u \in Int, t <= u, Tells(file, events, t)
  PROVE  Tells(file, events, u)
  <1>1. \A i \in 1..Len(file) : file[i].at \in Int
    <2>1. \A i \in 1..Len(file) : file[i] \in Lines
      BY ElementOfSeq DEF LogTypeOK
    <2> QED
      BY <2>1, SizesAssumption DEF Lines, Clock
  <1>2. SUFFICES ASSUME NEW b \in 1..Len(file), IsLast(file, b)
                 PROVE  /\ file[b].event \in events
                        /\ \A i \in 1..Len(file) : i >= b => file[i].at <= u
    BY DEF Tells
  <1>3. /\ file[b].event \in events
        /\ \A i \in 1..Len(file) : i >= b => file[i].at <= t
    BY <1>2 DEF Tells
  <1> QED
    BY <1>1, <1>3

\* What is written behind a line that was cut short is lost, and nothing else is.
LEMMA JoinedTorn ==
  ASSUME LogTypeOK, TornIsLast, NEW entry \in Lines, end # "newline"
  PROVE  Joined(file, entry) = file
  <1>1. file \in Seq(Lines) /\ end \in {"torn", "whole"}
    BY DEF LogTypeOK
  <1>2. CASE end = "whole"
    BY <1>2 DEF Joined
  <1>3. CASE end = "torn"
    <2>1. file # <<>> /\ file[Len(file)] = NoEntry
      BY <1>3 DEF TornIsLast
    <2>2. file \in [1..Len(file) -> Lines] /\ Len(file) \in Nat
      BY <1>1, LenProperties
    <2>3. [file EXCEPT ![Len(file)] = NoEntry] = file
      BY <2>1, <2>2
    <2> QED
      BY <1>3, <2>3 DEF Joined
  <1> QED
    BY <1>1, <1>2, <1>3

\* What the joined lines tell: no more than the file when the entry bounds no session or
\* cannot be read, and the entry itself when it does and can.
LEMMA TellsJoined ==
  ASSUME LogTypeOK, TornIsLast, NEW entry \in Lines, NEW events, NEW t \in Int, entry.at <= t,
         \/ /\ Tells(file, events, t)
            /\ entry.event \notin {"on", "off"} \/ end # "newline"
         \/ entry.event \in events \cap {"on", "off"} /\ end = "newline"
  PROVE  Joined(file, entry) \in Seq(Lines) /\ Tells(Joined(file, entry), events, t)
  <1>1. file \in Seq(Lines)
    BY DEF LogTypeOK
  <1>2. Joined(file, entry) \in Seq(Lines)
    BY JoinedType
  <1>3. CASE end # "newline"
    BY <1>2, <1>3, JoinedTorn
  <1>4. CASE end = "newline"
    <2>1. Joined(file, entry) = Append(file, entry)
      BY <1>4, JoinedType
    <2>2. CASE entry.event \notin {"on", "off"}
      <3>1. Tells(file, events, t)
        BY <2>2
      <3> QED
        BY <1>1, <1>2, <2>1, <2>2, <3>1, TellsMore
    <2>3. CASE entry.event \in {"on", "off"}
      <3>1. entry.event \in events
        BY <1>4, <2>3
      <3> QED
        BY <1>1, <1>2, <2>1, <2>3, <3>1, TellsItself
    <2> QED
      BY <2>2, <2>3
  <1> QED
    BY <1>3, <1>4

\* What the file tells once an entry is recorded, and perhaps a trim behind it.
LEMMA TellsRecorded ==
  ASSUME LogTypeOK, TornIsLast, NEW entry \in Lines, NEW events, NEW t \in Int, Record(entry),
         entry.at <= t, clock <= t,
         \/ /\ Tells(file, events, t)
            /\ entry.event \notin {"on", "off"} \/ end # "newline"
         \/ entry.event \in events \cap {"on", "off"} /\ end = "newline"
  PROVE  Tells(file', events, t)
  <1> DEFINE note == Entry("note", clock)
             lines == Joined(file, entry)
             tail == LastLines(lines, MaxEntries)
  <1>1. lines \in Seq(Lines) /\ Tells(lines, events, t)
    BY TellsJoined
  <1>2. note \in Lines /\ note.event = "note" /\ note.at = clock
    BY EntryType DEF LogTypeOK, Events
  <1>3. CASE ~ShouldRecord(LoadedLast, entry)
    <2>1. file' = file /\ entry.event = "blocked"
      BY <1>3 DEF Record, ShouldRecord
    <2>2. Tells(file, events, t)
      BY <2>1
    <2> QED
      BY <2>1, <2>2
  <1>4. CASE ShouldRecord(LoadedLast, entry)
    <2>1. file' = lines \/ file' = Append(tail, note)
      BY <1>4 DEF Record
    <2>2. tail \in Seq(Lines) /\ Tells(tail, events, t)
      <3> HIDE DEF lines
      <3> QED
        BY <1>1, LastLinesEnd, TellsStill, SizesAssumption
    <2>3. Tells(Append(tail, note), events, t)
      <3> HIDE DEF tail, note
      <3> QED
        BY <1>2, <2>2, TellsMore
    <2> QED
      BY <1>1, <2>1, <2>3
  <1> QED
    BY <1>3, <1>4

\* What ends the last line once an entry is recorded.
LEMMA EndRecorded ==
  ASSUME LogTypeOK, TornIsLast, NEW entry \in Lines, Record(entry)
  PROVE  /\ TornIsLast'
         /\ (end = "newline" \/ entry.event # "blocked") => end' = "newline"
  <1>1. CASE ~ShouldRecord(LoadedLast, entry)
    <2>1. file' = file /\ end' = end /\ entry.event = "blocked"
      BY <1>1 DEF Record, ShouldRecord
    <2> QED
      BY <2>1 DEF TornIsLast
  <1>2. CASE ShouldRecord(LoadedLast, entry)
    <2>1. end' = "newline"
      BY <1>2 DEF Record
    <2> QED
      BY <2>1 DEF TornIsLast
  <1> QED
    BY <1>1, <1>2

\* A note taken on a clock that was read before leaves the fate of the session as told.
LEMMA FateNoted ==
  ASSUME LogTypeOK, FateInv, NEW entry \in Lines, entry.event \notin {"on", "off"},
         entry.at <= clock, Record(entry),
         UNCHANGED <<clock, fate, kept>>, service' = service \/ {service, service'} \cap {"on"} = {},
         pending' \in {pending, Never, clock}
  PROVE  FateInv'
  <1>1. TornIsLast /\ OnIsClean /\ StampIsPast /\ CleanIsTold /\ NoneIsTold /\ SessionIsTold
    BY DEF FateInv
  <1>2. clock \in Int /\ MaxClock \in Int /\ clock <= MaxClock /\ entry.at <= MaxClock
    BY SizesAssumption DEF LogTypeOK, Clock, Lines
  <1>3. TornIsLast' /\ (end = "newline" => end' = "newline")
    BY <1>1, EndRecorded
  <1>4. \A events : Tells(file, events, MaxClock) => Tells(file', events, MaxClock)
    BY <1>1, <1>2, TellsRecorded
  <1>5. \A events : Tells(file, events, clock) => Tells(file', events, clock)
    BY <1>1, <1>2, TellsRecorded
  <1>6. service' = "on" <=> service = "on"
    OBVIOUS
  <1>7. StampIsPast'
    BY <1>1, <1>2 DEF StampIsPast
  <1>8. OnIsClean'
    BY <1>1, <1>3, <1>6 DEF OnIsClean
  <1>9. CleanIsTold' /\ NoneIsTold'
    BY <1>1, <1>4, <1>6 DEF CleanIsTold, NoneIsTold
  <1>10. SessionIsTold'
    BY <1>1, <1>5, <1>6 DEF SessionIsTold
  <1> QED
    BY <1>3, <1>7, <1>8, <1>9, <1>10 DEF FateInv

\* Nor does a step that writes nothing.
LEMMA FateStill ==
  ASSUME LogTypeOK, FateInv, UNCHANGED <<file, end, clock, fate, kept>>,
         service' = service \/ {service, service'} \cap {"on"} = {},
         pending' \in {pending, Never, clock}
  PROVE  FateInv'
  <1>1. service' = "on" <=> service = "on"
    OBVIOUS
  <1>2. clock \in Int
    BY DEF LogTypeOK, Clock
  <1>3. TornIsLast' /\ OnIsClean'
    BY <1>1 DEF FateInv, TornIsLast, OnIsClean
  <1>4. StampIsPast'
    BY <1>2 DEF FateInv, StampIsPast
  <1>5. CleanIsTold' /\ NoneIsTold' /\ SessionIsTold'
    BY <1>1 DEF FateInv, CleanIsTold, NoneIsTold, SessionIsTold
  <1> QED
    BY <1>3, <1>4, <1>5 DEF FateInv

\* A session that begins: its "on" is the last boundary, if it can be read.
LEMMA FateBegins ==
  ASSUME LogTypeOK, FateInv, Connected
  PROVE  FateInv'
  <1> DEFINE on == [Entry("on", clock) EXCEPT !.detail = start]
  <1>1. TornIsLast /\ StampIsPast
    BY DEF FateInv
  <1>2. on \in Lines /\ on.event = "on" /\ on.at = clock
    BY DEF LogTypeOK, Lines, Entry, Events
  <1>3. Record(on) /\ service' = "on" /\ fate' = "none" /\ kept' = (end = "newline")
        /\ clock' = clock /\ pending' = pending
    BY DEF Connected
  <1> HIDE DEF on
  <1>4. TornIsLast' /\ end' = "newline"
    BY <1>1, <1>2, <1>3, EndRecorded
  <1>5. CleanIsTold' /\ NoneIsTold' /\ OnIsClean' /\ StampIsPast'
    BY <1>1, <1>3, <1>4 DEF CleanIsTold, NoneIsTold, OnIsClean, StampIsPast
  <1>6. ASSUME end = "newline" PROVE Tells(file', {"on"}, clock)
    <2>1. clock \in Int
      BY DEF LogTypeOK, Clock
    <2>2. on.event \in {"on"} \cap {"on", "off"} /\ on.at <= clock /\ clock <= clock
      BY <1>2, <2>1
    <2> QED
      BY <1>1, <1>2, <1>3, <1>6, <2>1, <2>2, TellsRecorded
  <1>7. SessionIsTold'
    BY <1>3, <1>6 DEF SessionIsTold
  <1> QED
    BY <1>4, <1>5, <1>7 DEF FateInv

\* A session that ends in order: its "off" is the last boundary.
LEMMA FateEnds ==
  ASSUME LogTypeOK, FateInv, Disable
  PROVE  FateInv'
  <1>1. TornIsLast /\ OnIsClean /\ StampIsPast
    BY DEF FateInv
  <1>2. CASE service # "on"
    <2>1. UNCHANGED <<file, end, clock, fate, kept, pending>> /\ service' = "off"
      BY <1>2 DEF Disable, store
    <2> QED
      BY <1>2, <2>1, FateStill
  <1>3. CASE service = "on"
    <2> DEFINE off == Entry("off", clock)
    <2>1. off \in Lines /\ off.event = "off" /\ off.at = clock
      BY EntryType DEF LogTypeOK, Events
    <2>2. /\ Record(off) /\ service' = "off" /\ fate' = "clean"
          /\ clock' = clock /\ pending' = pending
      BY <1>3 DEF Disable
    <2> HIDE DEF off
    <2>3. TornIsLast'
      BY <1>1, <2>1, <2>2, EndRecorded
    <2>4. OnIsClean' /\ StampIsPast' /\ NoneIsTold' /\ SessionIsTold'
      BY <1>1, <2>2 DEF OnIsClean, StampIsPast, NoneIsTold, SessionIsTold
    <2>5. Tells(file', {"off"}, MaxClock)
      <3>1. /\ MaxClock \in Int /\ clock <= MaxClock /\ off.at <= MaxClock
            /\ off.event \in {"off"} \cap {"on", "off"} /\ end = "newline"
        BY <1>1, <1>3, <2>1, SizesAssumption DEF LogTypeOK, Clock, OnIsClean
      <3> QED
        BY <1>1, <2>1, <2>2, <3>1, TellsRecorded
    <2>6. CleanIsTold'
      BY <2>2, <2>5 DEF CleanIsTold
    <2> QED
      BY <2>3, <2>4, <2>6 DEF FateInv
  <1> QED
    BY <1>2, <1>3

\* A write that is cut short: the "on" of a session that begins with it is the last boundary
\* if it can be read, and any other tells nothing.
LEMMA TellsCut ==
  ASSUME LogTypeOK, TornIsLast, NEW entry \in Underway, AppendCut(entry) \/ TrimCut(entry),
         NEW events, NEW t \in Int, entry.at <= t, 0 <= t,
         \/ /\ Tells(file, events, t)
            /\ entry.event = "note" \/ end # "newline" \/ end' = "torn"
         \/ /\ entry.event \in events \cap {"on", "off"} /\ end = "newline" /\ end' # "torn"
  PROVE  Tells(file', events, t)
  <1>1. entry \in Lines
    BY DEF Underway, LogTypeOK, Entry, Lines, Events
  <1>2. NoEntry \in Lines /\ NoEntry.event = "torn" /\ NoEntry.at = 0
    BY SizesAssumption DEF NoEntry, Lines, Clock
  <1>3. CASE AppendCut(entry)
    <2>1. PICK e \in {"torn", "whole"} :
            /\ end' = IF end = "newline" THEN e ELSE end
            /\ file' = Joined(file, IF e = "torn" THEN NoEntry ELSE entry)
      BY <1>3 DEF AppendCut
    <2>2. CASE e = "whole"
      <3>1. file' = Joined(file, entry) /\ (end = "newline" => end' = "whole")
        BY <2>1, <2>2
      <3> QED
        BY <1>1, <3>1, TellsJoined
    <2>3. CASE e = "torn"
      <3>1. file' = Joined(file, NoEntry) /\ (end = "newline" => end' = "torn")
        BY <2>1, <2>3
      <3>2. Tells(file, events, t)
        BY <3>1
      <3> QED
        BY <1>2, <3>1, <3>2, TellsJoined
    <2> QED
      BY <2>2, <2>3
  <1>4. CASE TrimCut(entry)
    <2> DEFINE lines == Joined(file, entry)
    <2>1. file' = LastLines(lines, MaxEntries) /\ end' = "newline"
      BY <1>4 DEF TrimCut
    <2>2. lines \in Seq(Lines) /\ Tells(lines, events, t)
      BY <1>1, <2>1, TellsJoined
    <2> HIDE DEF lines
    <2> QED
      BY <2>1, <2>2, TellsStill, SizesAssumption
  <1> QED
    BY <1>3, <1>4

\* A line that was cut short is the last one.
LEMMA EndCut ==
  ASSUME LogTypeOK, TornIsLast, NEW entry \in Underway, AppendCut(entry) \/ TrimCut(entry)
  PROVE  TornIsLast'
  <1>1. NoEntry \in Lines
    BY SizesAssumption DEF NoEntry, Lines, Clock
  <1>2. SUFFICES ASSUME end' = "torn" PROVE file' # <<>> /\ file'[Len(file')] = NoEntry
    BY DEF TornIsLast
  <1>3. AppendCut(entry)
    BY <1>2 DEF TrimCut
  <1>4. PICK e \in {"torn", "whole"} :
          /\ end' = IF end = "newline" THEN e ELSE end
          /\ file' = Joined(file, IF e = "torn" THEN NoEntry ELSE entry)
    BY <1>3 DEF AppendCut
  <1>5. CASE end = "newline"
    <2>1. file' = Append(file, NoEntry)
      BY <1>1, <1>2, <1>4, <1>5, JoinedType
    <2> QED
      BY <1>1, <2>1, AppendProperties DEF LogTypeOK
  <1>6. CASE end # "newline"
    <2>1. end = "torn"
      BY <1>2, <1>4, <1>6
    <2>2. (IF e = "torn" THEN NoEntry ELSE entry) \in Lines
      BY <1>1 DEF Underway, LogTypeOK, Entry, Lines, Events
    <2>3. file' = file
      BY <1>4, <1>6, <2>2, JoinedTorn
    <2> QED
      BY <2>1, <2>3 DEF TornIsLast
  <1> QED
    BY <1>5, <1>6

\* A session that is killed, or a process without one, perhaps in the middle of a write.
LEMMA FateKilled ==
  ASSUME LogTypeOK, FateInv, Kill
  PROVE  FateInv'
  <1>1. TornIsLast /\ OnIsClean /\ StampIsPast /\ CleanIsTold /\ NoneIsTold /\ SessionIsTold
    BY DEF FateInv
  <1>2. service' = "off" /\ pending' = Never /\ clock' = clock
    BY DEF Kill, ProcessGone
  <1>3. OnIsClean' /\ StampIsPast'
    BY <1>2 DEF OnIsClean, StampIsPast
  <1>4. CASE /\ UNCHANGED <<file, end, kept>>
             /\ fate' = IF service = "on" THEN "killed" ELSE fate
    <2>1. TornIsLast'
      BY <1>1, <1>4 DEF TornIsLast
    <2>2. CleanIsTold' /\ NoneIsTold'
      BY <1>1, <1>2, <1>4 DEF CleanIsTold, NoneIsTold
    <2>3. SessionIsTold'
      BY <1>1, <1>2, <1>4 DEF SessionIsTold
    <2> QED
      BY <1>3, <2>1, <2>2, <2>3 DEF FateInv
  <1>5. ASSUME NEW entry \in Underway, AppendCut(entry) \/ TrimCut(entry),
               LET begun == entry.event = "on" /\ end = "newline" /\ end' # "torn"
               IN /\ fate' = IF service = "on" \/ begun THEN "killed" ELSE fate
                  /\ kept' = (begun \/ kept)
        PROVE  FateInv'
    <2> DEFINE begun == entry.event = "on" /\ end = "newline" /\ end' # "torn"
    <2>1. /\ fate' = IF service = "on" \/ begun THEN "killed" ELSE fate
          /\ kept' = (begun \/ kept)
      BY <1>5
    <2>2. /\ clock \in Int /\ MaxClock \in Int /\ 0 <= clock /\ clock <= MaxClock
          /\ 0 <= MaxClock
      BY SizesAssumption DEF LogTypeOK, Clock
    <2>3. /\ entry.event \in {"on", "note"} /\ entry.at <= clock
          /\ entry.event = "on" => service = "connecting"
      <3>1. CASE entry \in {Entry("note", x) : x \in {pending} \ {Never}}
        BY <1>1, <3>1 DEF Entry, StampIsPast
      <3>2. CASE entry \in {[Entry("on", clock) EXCEPT !.detail = start] :
                              s \in {service} \cap {"connecting"}}
        <4>1. entry = [Entry("on", clock) EXCEPT !.detail = start] /\ service = "connecting"
          BY <3>2
        <4>2. entry.event = "on" /\ entry.at = clock
          BY <4>1 DEF Entry
        <4> QED
          BY <2>2, <4>1, <4>2
      <3> QED
        BY <3>1, <3>2 DEF Underway
    <2>4. entry.at <= MaxClock
      <3>1. entry.at \in Int
        BY DEF Underway, LogTypeOK, Entry, Clock, Never
      <3> QED
        BY <2>2, <2>3, <3>1
    <2>5. TornIsLast'
      BY <1>1, <1>5, EndCut
    <2>6. CASE begun
      <3>1. Tells(file', {"on"}, clock)
        <4>1. entry.event \in {"on"} \cap {"on", "off"} /\ end = "newline" /\ end' # "torn"
          BY <2>6
        <4> QED
          BY <1>1, <1>5, <2>2, <2>3, <4>1, TellsCut
      <3>2. fate' = "killed"
        BY <2>1, <2>6
      <3> QED
        BY <1>2, <1>3, <2>5, <3>1, <3>2
        DEF FateInv, CleanIsTold, NoneIsTold, SessionIsTold
    <2>7. CASE ~begun
      <3>1. entry.event = "note" \/ end # "newline" \/ end' = "torn"
        BY <2>3, <2>7
      <3>2. \A events : Tells(file, events, MaxClock) => Tells(file', events, MaxClock)
        BY <1>1, <1>5, <2>2, <2>4, <3>1, TellsCut
      <3>3. \A events : Tells(file, events, clock) => Tells(file', events, clock)
        BY <1>1, <1>5, <2>2, <2>3, <3>1, TellsCut
      <3>4. fate' = (IF service = "on" THEN "killed" ELSE fate) /\ (kept' <=> kept)
        BY <2>1, <2>7
      <3> HIDE DEF begun
      <3>5. CleanIsTold' /\ NoneIsTold'
        BY <1>1, <1>2, <3>2, <3>4 DEF CleanIsTold, NoneIsTold
      <3>6. SessionIsTold'
        BY <1>1, <1>2, <3>3, <3>4 DEF SessionIsTold
      <3> QED
        BY <1>3, <2>5, <3>5, <3>6 DEF FateInv
    <2> QED
      BY <2>6, <2>7
  <1> QED
    BY <1>4, <1>5 DEF Kill

\* No step of the log makes the file tell anything else of the last session.
LEMMA FateInvNext ==
  ASSUME LogTypeOK, FateInv, [LogNext]_logVars
  PROVE  FateInv'
  <1>1. clock \in Clock
    BY DEF LogTypeOK
  <1>2. clock \in Int /\ Entry("note", clock) \in Lines
        /\ Entry("note", clock).event \notin {"on", "off"} /\ Entry("note", clock).at <= clock
    BY <1>1, EntryType DEF Events, Clock
  <1> USE DEF store, session, attempts, watch
  <1>3. CASE Connect
    <2>1. UNCHANGED <<clock, fate, kept, pending>> /\ service = "off" /\ service' = "connecting"
      BY <1>3 DEF Connect
    <2>2. Record(Entry("note", clock)) \/ UNCHANGED <<file, end>>
      BY <1>3 DEF Connect
    <2> QED
      BY <1>2, <2>1, <2>2, FateNoted, FateStill
  <1>4. ASSUME Check \/ StartCommand \/ SetMode PROVE FateInv'
    <2>1. UNCHANGED <<clock, fate, kept, pending, service>>
      BY <1>4 DEF Check, StartCommand, SetMode
    <2>2. Record(Entry("note", clock)) \/ UNCHANGED <<file, end>>
      BY <1>4 DEF Check, StartCommand, SetMode, Observe
    <2> QED
      BY <1>2, <2>1, <2>2, FateNoted, FateStill
  <1>5. CASE Blocked
    <2>1. Entry("blocked", clock) \in Lines /\ Entry("blocked", clock).event = "blocked"
          /\ Entry("blocked", clock).at <= clock
      BY <1>1, <1>2, EntryType DEF Events
    <2>2. UNCHANGED <<clock, fate, kept, pending, service>> /\ Record(Entry("blocked", clock))
      BY <1>5 DEF Blocked
    <2> QED
      BY <2>1, <2>2, FateNoted
  <1>6. CASE CaptureRecords
    <2>1. /\ UNCHANGED <<clock, fate, kept, service>> /\ pending' = Never
          /\ Record(Entry("note", pending)) /\ pending # Never /\ pending \in Clock
      BY <1>6 DEF CaptureRecords, LogTypeOK
    <2>2. Entry("note", pending) \in Lines /\ Entry("note", pending).event = "note"
          /\ Entry("note", pending).at <= clock
      <3>1. pending <= clock
        BY <2>1 DEF FateInv, StampIsPast
      <3> QED
        BY <2>1, <3>1, EntryType DEF Events
    <2> QED
      BY <2>1, <2>2, FateNoted
  <1>7. ASSUME Enable \/ Open \/ WindowEnds \/ CaptureStamps \/ UNCHANGED logVars
        PROVE  FateInv'
    <2>1. /\ UNCHANGED <<file, end, clock, fate, kept, service>>
          /\ pending' \in {pending, Never, clock}
      BY <1>7 DEF Enable, Open, WindowEnds, CaptureStamps, logVars
    <2> QED
      BY <2>1, FateStill
  <1>8. CASE Reboot
    <2>1. /\ UNCHANGED <<file, end, kept>> /\ service' = "off" /\ pending' = Never
          /\ fate' = IF service = "on" \/ fate = "killed" THEN "rebooted" ELSE fate
      BY <1>8 DEF Reboot, ProcessGone
    <2>2. TornIsLast' /\ OnIsClean' /\ StampIsPast'
      BY <2>1 DEF FateInv, TornIsLast, OnIsClean, StampIsPast
    <2>3. CleanIsTold' /\ NoneIsTold'
      BY <2>1 DEF FateInv, CleanIsTold, NoneIsTold
    <2>4. SessionIsTold'
      BY <2>1 DEF SessionIsTold
    <2> QED
      BY <2>2, <2>3, <2>4 DEF FateInv
  <1>9. CASE ClockTicks
    <2>1. /\ UNCHANGED <<file, end, fate, kept, service, pending>>
          /\ clock' = clock + 1
      BY <1>9 DEF ClockTicks
    <2>2. TornIsLast' /\ OnIsClean' /\ CleanIsTold' /\ NoneIsTold'
      BY <2>1 DEF FateInv, TornIsLast, OnIsClean, CleanIsTold, NoneIsTold
    <2>3. StampIsPast'
      <3>1. pending \in Int
        BY DEF LogTypeOK, Clock, Never
      <3> QED
        BY <1>2, <2>1, <3>1 DEF FateInv, StampIsPast
    <2>4. SessionIsTold'
      <3>1. clock <= clock + 1 /\ clock + 1 \in Int
        BY <1>2
      <3>2. Tells(file, {"on"}, clock) => Tells(file, {"on"}, clock + 1)
        BY <1>2, <3>1, TellsLater
      <3> QED
        BY <2>1, <3>2 DEF FateInv, SessionIsTold
    <2> QED
      BY <2>2, <2>3, <2>4 DEF FateInv
  <1> QED
    BY <1>3, <1>4, <1>5, <1>6, <1>7, <1>8, <1>9, FateBegins, FateEnds, FateKilled DEF LogNext

\* It tells of no session when the app is first started.
LEMMA FateInvInit ==
  ASSUME LogInit
  PROVE  FateInv
  <1>1. \A events, t : Tells(<<>>, events, t)
    <2>1. Len(<<>>) = 0
      OBVIOUS
    <2>2. 1..Len(<<>>) = {}
      BY <2>1
    <2> QED
      BY <2>2 DEF Tells
  <1> QED
    BY <1>1
    DEF LogInit, FateInv, TornIsLast, OnIsClean, StampIsPast, CleanIsTold, NoneIsTold,
        SessionIsTold

\* The boundary a connect starts from is the last one of the file, though unreadable lines
\* count among those it looks at.
LEMMA BoundaryIsLast ==
  ASSUME LogTypeOK, Boundaries(Recent) # {}
  PROVE  /\ Boundary(Recent) \in 1..Len(file) /\ IsLast(file, Boundary(Recent))
         /\ SinceBoundary(Recent) \subseteq {i \in 1..Len(file) : i >= Boundary(Recent)}
         /\ Boundary(Recent) \in SinceBoundary(Recent)
  <1> DEFINE b == Boundary(Recent)
  <1>1. /\ Len(file) \in Nat /\ DOMAIN file = 1..Len(file)
        /\ \A i \in 1..Len(file) : file[i] \in Lines
    BY LenProperties, ElementOfSeq DEF LogTypeOK
  <1>2. Recent \subseteq 1..Len(file)
    BY <1>1 DEF Recent, Readable
  <1>3. b \in Boundaries(Recent) /\ \A k \in Boundaries(Recent) : b >= k
    <2>1. Boundaries(Recent) \in SUBSET (1..Len(file))
      BY <1>2 DEF Boundaries
    <2> QED
      BY <1>1, <2>1, LastExists DEF Boundary
  <1> HIDE DEF b
  <1>4. /\ b \in Recent /\ b \in 1..Len(file) /\ file[b].event \in {"on", "off"}
        /\ b > Len(file) - Tail64
    BY <1>2, <1>3 DEF Boundaries, Recent
  <1>5. ASSUME NEW i \in 1..Len(file), i > b PROVE file[i].event \notin {"on", "off"}
    <2>1. i > Len(file) - Tail64
      BY <1>1, <1>4, <1>5, SizesAssumption
    <2>2. ~(b >= i)
      BY <1>4, <1>5
    <2>3. i \notin Boundaries(Recent)
      BY <1>3, <2>2
    <2> QED
      BY <1>1, <2>1, <2>3 DEF Boundaries, Recent, Readable
  <1>6. IsLast(file, b)
    BY <1>4, <1>5 DEF IsLast
  <1>7. SinceBoundary(Recent) \subseteq {i \in 1..Len(file) : i >= b} /\ b \in SinceBoundary(Recent)
    <2>1. SinceBoundary(Recent) = {i \in Recent : i >= b}
      BY DEF SinceBoundary, b
    <2>2. b >= b
      BY <1>1, <1>4
    <2> QED
      BY <1>2, <1>4, <2>1, <2>2
  <1> QED
    BY <1>4, <1>6, <1>7 DEF b

\* The file tells how the last session ended in every reachable state, for a file and a
\* tail of any length.
THEOREM FateInvAlways == LogSpec => []FateInv
  <1>1. LogInit => FateInv
    BY FateInvInit
  <1>2. LogInv /\ FateInv /\ [LogNext]_logVars => FateInv'
    BY FateInvNext DEF LogInv
  <1> QED
    BY <1>1, <1>2, LogInvAlways, PTL DEF LogSpec

\* Nobody is accused of a kill who turned the guard off in the settings, nor who restarted
\* the phone, while its uptime is still below what it was (classifyConnect).
THEOREM NoAlarmIsFalse == LogSpec => NoFalseAlarm
  <1> DEFINE Fair == (Connect /\ start' = "UNCLEAN_STOP")
                       => (fate = "killed" \/ (fate = "rebooted" /\ clock >= Anchor.at))
  <1>1. ASSUME LogInv, FateInv, Connect, start' = "UNCLEAN_STOP"
        PROVE  fate = "killed" \/ (fate = "rebooted" /\ clock >= Anchor.at)
    <2> DEFINE b == Boundary(Recent)
    <2>1. LogTypeOK
      BY <1>1 DEF LogInv
    <2>2. /\ Boundaries(Recent) # {} /\ file[b].event # "off"
          /\ ~FallsTo(SinceBoundary(Recent), clock)
      BY <1>1 DEF Connect, Classify
    <2>3. b \in 1..Len(file) /\ IsLast(file, b) /\ b \in SinceBoundary(Recent)
      BY <2>1, <2>2, BoundaryIsLast
    <2>4. clock >= Anchor.at
      <3>1. ~(clock < file[b].at)
        BY <2>2, <2>3 DEF FallsTo
      <3>2. clock \in Int /\ file[b].at \in Int
        <4>1. file[b] \in Lines
          <5> HIDE DEF b
          <5> QED
            BY <2>1, <2>3, ElementOfSeq DEF LogTypeOK
        <4> QED
          BY <2>1, <4>1 DEF LogTypeOK, Lines, Clock
      <3> QED
        BY <3>1, <3>2 DEF Anchor
    <2> HIDE DEF b
    <2>5. fate # "clean"
      BY <1>1, <2>2, <2>3 DEF FateInv, CleanIsTold, Tells
    <2>6. fate # "none"
      <3>1. service # "on"
        BY <1>1 DEF Connect
      <3> QED
        BY <1>1, <2>3, <3>1 DEF FateInv, NoneIsTold, Tells
    <2> QED
      BY <2>1, <2>4, <2>5, <2>6 DEF LogTypeOK
  <1>2. LogInv /\ FateInv /\ [LogNext]_logVars => [Fair]_logVars
    BY <1>1
  <1> QED
    BY <1>2, LogInvAlways, FateInvAlways, PTL DEF LogSpec, NoFalseAlarm

\* A kill is found out by the next connect of the same boot, as long as the session's "on"
\* could be written, is still among the lines it looks at, and no two writers crossed.
THEOREM KillAlwaysNoticed == LogSpec => KillIsNoticed
  <1> DEFINE Noticed == (/\ Connect /\ fate = "killed" /\ kept
                         /\ Anchored /\ ~ClockFalls(SinceBoundary(Recent)))
                          => start' = "UNCLEAN_STOP"
  <1>1. ASSUME LogInv, FateInv, Connect, fate = "killed", kept,
               Anchored, ~ClockFalls(SinceBoundary(Recent))
        PROVE  start' = "UNCLEAN_STOP"
    <2> DEFINE b == Boundary(Recent)
    <2>1. LogTypeOK
      BY <1>1 DEF LogInv
    <2>2. Boundaries(Recent) # {}
      BY <1>1 DEF Anchored
    <2>3. /\ b \in 1..Len(file) /\ IsLast(file, b)
          /\ SinceBoundary(Recent) \subseteq {i \in 1..Len(file) : i >= b}
      BY <2>1, <2>2, BoundaryIsLast
    <2>4. Tells(file, {"on"}, clock)
      BY <1>1 DEF FateInv, SessionIsTold
    <2> HIDE DEF b
    <2>5. file[b].event = "on" /\ \A i \in 1..Len(file) : i >= b => file[i].at <= clock
      BY <2>3, <2>4 DEF Tells
    <2>6. \A i \in SinceBoundary(Recent) : ~(clock < file[i].at)
      <3>1. \A i \in 1..Len(file) : file[i].at \in Int
        <4>1. \A i \in 1..Len(file) : file[i] \in Lines
          BY <2>1, ElementOfSeq DEF LogTypeOK
        <4> QED
          BY <4>1 DEF Lines, Clock
      <3>2. clock \in Int
        BY <2>1 DEF LogTypeOK, Clock
      <3> QED
        BY <2>3, <2>5, <3>1, <3>2
    <2>7. ~FallsTo(SinceBoundary(Recent), clock)
      BY <1>1, <2>6 DEF FallsTo
    <2>8. start' = Classify(Recent, clock)
      BY <1>1 DEF Connect
    <2> QED
      BY <2>2, <2>5, <2>7, <2>8 DEF Classify, b
  <1>2. LogInv /\ FateInv /\ [LogNext]_logVars => [Noticed]_logVars
    BY <1>1
  <1> QED
    BY <1>2, LogInvAlways, FateInvAlways, PTL DEF LogSpec, KillIsNoticed

-----------------------------------------------------------------------------
(* The commands that wait for the main thread *)

Commands == [kind : {"start", "stop", "destroy"}, token : Sessions \cup {None}]
Beginning == {"register", "reader", "display", "check", "running", "started"}
Tearing == {"clear", "unset", "close", "quit", "log"}

\* The sessions that commands ask to start.
Asked(box) == {box[i].token : i \in {k \in 1..Len(box) : box[k].kind = "start"}}

\* Each of the first n sessions is asked for at most once, and never behind a stop.
StopsLast(box) ==
  \A i, j \in 1..Len(box) : (i < j /\ box[i].kind = "stop") => box[j].kind # "start"
AskedOnce(box) ==
  \A i, j \in 1..Len(box) :
    (i # j /\ box[i].kind = "start" /\ box[j].kind = "start") => box[i].token # box[j].token
Orderly(box, n) == StopsLast(box) /\ AskedOnce(box) /\ Asked(box) \subseteq 1..n

\* The service is told to end before it is asked to start another session.
EndsFirst(box) ==
  \E j \in 1..Len(box) :
    /\ box[j].kind \in {"stop", "destroy"}
    /\ \A i \in 1..Len(box) : i < j => box[i].kind # "start"
Finished == ~up \/ EndsFirst(inbox)

\* Taking the first command shifts the others by one place.
LEMMA ShortBox ==
  ASSUME NEW box \in Seq(Commands), box # <<>>
  PROVE  /\ Len(box) \in Nat \ {0} /\ Head(box) = box[1] /\ Head(box) \in Commands
         /\ Tail(box) \in Seq(Commands) /\ Len(Tail(box)) = Len(box) - 1
         /\ \A i \in 1..Len(Tail(box)) : i + 1 \in 1..Len(box) /\ Tail(box)[i] = box[i + 1]
  <1>1. Len(box) \in Nat \ {0}
    BY EmptySeq
  <1>2. /\ Head(box) \in Commands /\ Tail(box) \in Seq(Commands)
        /\ Len(Tail(box)) = Len(box) - 1
        /\ \A i \in 1..Len(Tail(box)) : Tail(box)[i] = box[i + 1]
    BY HeadTailProperties
  <1>3. \A i \in 1..Len(Tail(box)) : i + 1 \in 1..Len(box)
    BY <1>1, <1>2
  <1>4. Head(box) = box[1]
    OBVIOUS
  <1> QED
    BY <1>1, <1>2, <1>3, <1>4

\* A new command is the last one.
LEMMA LongBox ==
  ASSUME NEW box \in Seq(Commands), NEW c \in Commands
  PROVE  /\ Append(box, c) \in Seq(Commands) /\ Append(box, c) # <<>>
         /\ Len(box) \in Nat /\ Len(Append(box, c)) = Len(box) + 1
         /\ \A i \in 1..Len(Append(box, c)) :
              Append(box, c)[i] = IF i = Len(box) + 1 THEN c ELSE box[i]
  <1>1. /\ Append(box, c) \in Seq(Commands) /\ Append(box, c) # <<>>
        /\ Len(Append(box, c)) = Len(box) + 1
        /\ \A i \in 1..Len(box) : Append(box, c)[i] = box[i]
        /\ Append(box, c)[Len(box) + 1] = c
    BY AppendProperties
  <1>2. Len(box) \in Nat
    BY LenProperties
  <1>3. ASSUME NEW i \in 1..Len(Append(box, c)) PROVE i = Len(box) + 1 \/ i \in 1..Len(box)
    BY <1>1, <1>2
  <1> QED
    BY <1>1, <1>2, <1>3

\* A command other than a start may always be sent, a start unless a stop waits.
LEMMA SendOrderly ==
  ASSUME NEW box \in Seq(Commands), NEW c \in Commands, NEW n \in Nat, NEW m \in Nat, m >= n,
         Orderly(box, n),
         c.kind = "start" => /\ c.token \in 1..m /\ c.token > n
                             /\ \A i \in 1..Len(box) : box[i].kind # "stop"
  PROVE  /\ Orderly(Append(box, c), m)
         /\ Asked(Append(box, c)) \subseteq Asked(box) \cup {x \in {c.token} : c.kind = "start"}
  <1> DEFINE long == Append(box, c)
  <1>1. /\ Len(box) \in Nat /\ Len(long) = Len(box) + 1
        /\ \A i \in 1..Len(long) : long[i] = IF i = Len(box) + 1 THEN c ELSE box[i]
    BY LongBox
  <1> HIDE DEF long
  <1>2. \A i \in 1..Len(long) : i # Len(box) + 1 => i \in 1..Len(box)
    BY <1>1
  <1>3. Asked(long) \subseteq Asked(box) \cup {x \in {c.token} : c.kind = "start"}
    BY <1>1, <1>2 DEF Asked
  <1>4. Asked(box) \subseteq 1..n /\ Asked(box) \subseteq 1..m
    BY DEF Orderly
  <1>5. Asked(long) \subseteq 1..m
    BY <1>3, <1>4
  <1>6. StopsLast(long)
    <2> SUFFICES ASSUME NEW i \in 1..Len(long), NEW j \in 1..Len(long),
                        i < j, long[i].kind = "stop"
                 PROVE  long[j].kind # "start"
      BY DEF StopsLast
    <2>1. i \in 1..Len(box) /\ long[i] = box[i]
      BY <1>1, <1>2
    <2>2. CASE j = Len(box) + 1
      BY <1>1, <2>1, <2>2
    <2>3. CASE j # Len(box) + 1
      BY <1>1, <1>2, <2>1, <2>3 DEF Orderly, StopsLast
    <2> QED
      BY <2>2, <2>3
  <1>7. AskedOnce(long)
    <2> SUFFICES ASSUME NEW i \in 1..Len(long), NEW j \in 1..Len(long), i < j,
                        long[i].kind = "start", long[j].kind = "start"
                 PROVE  long[i].token # long[j].token
      <3> HIDE DEF long
      <3> QED
        BY <1>1 DEF AskedOnce
    <2>1. i \in 1..Len(box) /\ long[i] = box[i]
      BY <1>1, <1>2
    <2>2. CASE j = Len(box) + 1
      <3>1. box[i].token \in 1..n
        BY <1>4, <2>1 DEF Asked
      <3>2. long[j] = c
        BY <1>1, <2>2
      <3> QED
        BY <2>1, <3>1, <3>2
    <2>3. CASE j # Len(box) + 1
      <3>1. j \in 1..Len(box) /\ long[j] = box[j] /\ i # j
        BY <1>1, <1>2, <2>3
      <3> QED
        BY <2>1, <3>1 DEF Orderly, AskedOnce
    <2> QED
      BY <2>2, <2>3
  <1> QED
    BY <1>3, <1>5, <1>6, <1>7 DEF Orderly, long

\* With a start goes its request, and no start is left behind a stop.
LEMMA TakeOrderly ==
  ASSUME NEW box \in Seq(Commands), box # <<>>, NEW n \in Nat, Orderly(box, n)
  PROVE  /\ Orderly(Tail(box), n)
         /\ Asked(Tail(box)) \subseteq Asked(box)
         /\ Head(box).kind = "start" =>
              /\ Head(box).token \in Asked(box) /\ Head(box).token \notin Asked(Tail(box))
         /\ Head(box).kind = "stop" =>
              \A i \in 1..Len(Tail(box)) : Tail(box)[i].kind # "start"
  <1> DEFINE rest == Tail(box)
  <1>1. /\ Len(box) \in Nat \ {0} /\ Head(box) = box[1] /\ Len(rest) = Len(box) - 1
        /\ \A i \in 1..Len(rest) : i + 1 \in 1..Len(box) /\ rest[i] = box[i + 1]
    BY ShortBox
  <1> HIDE DEF rest
  <1>2. 1 \in 1..Len(box) /\ \A i \in 1..Len(rest) : 1 < i + 1 /\ 1 # i + 1
    BY <1>1
  <1>3. Asked(rest) \subseteq Asked(box)
    BY <1>1 DEF Asked
  <1>4. StopsLast(rest)
    <2> SUFFICES ASSUME NEW i \in 1..Len(rest), NEW j \in 1..Len(rest),
                        i < j, rest[i].kind = "stop"
                 PROVE  rest[j].kind # "start"
      BY DEF StopsLast
    <2>1. i + 1 < j + 1
      OBVIOUS
    <2> QED
      BY <1>1, <2>1 DEF Orderly, StopsLast
  <1>5. AskedOnce(rest)
    <2> SUFFICES ASSUME NEW i \in 1..Len(rest), NEW j \in 1..Len(rest), i # j,
                        rest[i].kind = "start", rest[j].kind = "start"
                 PROVE  rest[i].token # rest[j].token
      BY DEF AskedOnce
    <2>1. i + 1 # j + 1
      OBVIOUS
    <2> QED
      BY <1>1, <2>1 DEF Orderly, AskedOnce
  <1>6. ASSUME Head(box).kind = "start"
        PROVE  /\ Head(box).token \in Asked(box) /\ Head(box).token \notin Asked(rest)
    <2>1. box[1].kind = "start" /\ Head(box).token = box[1].token
      BY <1>1, <1>6
    <2>2. Head(box).token \in Asked(box)
      BY <1>2, <2>1 DEF Asked
    <2>3. \A i \in 1..Len(rest) : rest[i].kind = "start" => rest[i].token # box[1].token
      BY <1>1, <1>2, <2>1 DEF Orderly, AskedOnce
    <2> QED
      BY <2>1, <2>2, <2>3 DEF Asked
  <1>7. ASSUME Head(box).kind = "stop"
        PROVE  \A i \in 1..Len(rest) : rest[i].kind # "start"
    BY <1>1, <1>2, <1>7 DEF Orderly, StopsLast
  <1> QED
    BY <1>3, <1>4, <1>5, <1>6, <1>7 DEF Orderly, rest

\* Whatever is sent later, a service that is told to end first still is.
LEMMA StillEndsFirst ==
  ASSUME NEW box \in Seq(Commands), NEW c \in Commands
  PROVE  /\ EndsFirst(box) => EndsFirst(Append(box, c))
         /\ (c.kind # "start" /\ \A i \in 1..Len(box) : box[i].kind # "start")
              => EndsFirst(Append(box, c))
  <1> DEFINE long == Append(box, c)
  <1>1. /\ Len(box) \in Nat /\ Len(long) = Len(box) + 1
        /\ \A i \in 1..Len(long) : long[i] = IF i = Len(box) + 1 THEN c ELSE box[i]
    BY LongBox
  <1> HIDE DEF long
  <1>2. \A i \in 1..Len(box) : i \in 1..Len(long) /\ i # Len(box) + 1 /\ long[i] = box[i]
    BY <1>1
  <1>3. ASSUME EndsFirst(box) PROVE EndsFirst(long)
    <2>1. PICK j \in 1..Len(box) :
            /\ box[j].kind \in {"stop", "destroy"}
            /\ \A i \in 1..Len(box) : i < j => box[i].kind # "start"
      BY <1>3 DEF EndsFirst
    <2>2. j \in 1..Len(long) /\ long[j].kind \in {"stop", "destroy"}
      BY <1>2, <2>1
    <2>3. ASSUME NEW i \in 1..Len(long), i < j PROVE long[i].kind # "start"
      <3>1. i \in 1..Len(box)
        BY <1>1, <2>3
      <3> QED
        BY <1>2, <2>1, <2>3, <3>1
    <2> QED
      BY <2>2, <2>3 DEF EndsFirst
  <1>4. ASSUME c.kind # "start", \A i \in 1..Len(box) : box[i].kind # "start"
        PROVE  EndsFirst(long)
    <2> DEFINE last == Len(box) + 1
    <2>1. last \in 1..Len(long) /\ long[last] = c
      BY <1>1
    <2>2. c.kind \in {"stop", "destroy"}
      BY <1>4 DEF Commands
    <2>3. ASSUME NEW i \in 1..Len(long), i < last PROVE long[i].kind # "start"
      <3>1. i \in 1..Len(box)
        BY <1>1, <2>3
      <3> QED
        BY <1>2, <1>4, <3>1
    <2> HIDE DEF last
    <2> QED
      BY <2>1, <2>2, <2>3 DEF EndsFirst
  <1> QED
    BY <1>3, <1>4 DEF long

\* One at the head ends it, and a start at the head does not.
LEMMA HeadDecides ==
  ASSUME NEW box \in Seq(Commands), box # <<>>
  PROVE  /\ Head(box).kind # "start" => EndsFirst(box)
         /\ Head(box).kind = "start" => ~EndsFirst(box)
  <1>1. /\ Len(box) \in Nat \ {0} /\ Head(box) = box[1] /\ Head(box) \in Commands
    BY ShortBox
  <1>2. 1 \in 1..Len(box) /\ \A j \in 1..Len(box) : ~(j < 1) /\ (j # 1 => 1 < j)
    BY <1>1
  <1>3. ASSUME Head(box).kind # "start" PROVE EndsFirst(box)
    <2>1. box[1].kind \in {"stop", "destroy"}
      BY <1>1, <1>3 DEF Commands
    <2> QED
      BY <1>2, <2>1 DEF EndsFirst
  <1>4. ASSUME Head(box).kind = "start" PROVE ~EndsFirst(box)
    <2>1. box[1].kind = "start"
      BY <1>1, <1>4
    <2>2. ASSUME NEW j \in 1..Len(box), box[j].kind \in {"stop", "destroy"}
          PROVE  1 < j
      BY <1>2, <2>1, <2>2
    <2> QED
      BY <1>2, <2>1, <2>2 DEF EndsFirst
  <1> QED
    BY <1>3, <1>4

MainBegins == at[Main] \in Beginning => (up /\ inbox # <<>> /\ Head(inbox).kind = "start")
MainEnds ==
  at[Main] \in Tearing => (up /\ inbox # <<>> /\ Head(inbox).kind \in {"stop", "destroy"})
Roles ==
  /\ at[Main] \in {"idle"} \cup Beginning \cup Tearing
  /\ \A s \in Sessions : at[s] \in {"idle", "gate", "handed"} \cup Tearing
Control == TypeOK /\ Orderly(inbox, consents) /\ MainBegins /\ MainEnds /\ Roles
\* The commands whose handling has not begun.
Queued == IF at[Main] \in Beginning THEN Tail(inbox) ELSE inbox

\* What no step does to the commands that wait.
BoxKept ==
  /\ inbox' \in Seq(Commands) /\ Orderly(inbox', consents')
  /\ Finished => Finished'
  /\ Asked(Queued') \subseteq Asked(Queued) \cup {n \in {consents'} : consents' # consents}
  /\ MainBegins' /\ MainEnds'

\* Control, in the form the proofs below use it.
LEMMA Ranges ==
  ASSUME Control
  PROVE  /\ inbox \in Seq(Commands) /\ consents \in Nat /\ consents <= MaxSessions
         /\ Main \in Threads /\ Main = 0 /\ Main \notin Sessions /\ None \notin Sessions
         /\ Sessions \subseteq Threads /\ at \in [Threads -> Steps]
         /\ up \in BOOLEAN
         /\ Orderly(inbox, consents) /\ MainBegins /\ MainEnds /\ Roles
  <1>1. inbox \in Seq(Commands) /\ consents \in 0..MaxSessions
        /\ at \in [Threads -> Steps] /\ up \in BOOLEAN
    BY DEF Control, TypeOK, Commands
  <1>2. MaxSessions \in Nat
    BY BoundsAssumption
  <1> QED
    BY <1>1, <1>2 DEF Control, Main, None, Threads, Sessions

\* One thread steps, the others stay where they are.
LEMMA Moves ==
  ASSUME Control, NEW t \in Threads, NEW step \in Steps, Go(t, step)
  PROVE  /\ at' \in [Threads -> Steps] /\ at'[t] = step
         /\ \A u \in Threads : u # t => at'[u] = at[u]
BY DEF Control, TypeOK, Go

\* The main thread goes on, or starts on the command at the head.
LEMMA QuietBox ==
  ASSUME Control, UNCHANGED <<inbox, up, consents>>,
         at'[Main] \in Beginning => at[Main] \in Beginning \/ Handles("start"),
         at'[Main] \in Tearing => at[Main] \in Tearing \/ Handles("stop") \/ Handles("destroy"),
         at[Main] \in Beginning => at'[Main] \in Beginning
  PROVE  BoxKept
  <1>1. /\ inbox \in Seq(Commands) /\ Orderly(inbox, consents) /\ MainBegins /\ MainEnds
        /\ consents \in Nat
    BY Ranges
  <1>2. inbox' = inbox /\ up' = up /\ consents' = consents
    OBVIOUS
  <1>3. inbox' \in Seq(Commands) /\ Orderly(inbox', consents') /\ (Finished => Finished')
    BY <1>1, <1>2 DEF Finished
  <1>4. MainBegins' /\ MainEnds'
    BY <1>1, <1>2 DEF MainBegins, MainEnds, Handles
  <1>5. Asked(Queued') \subseteq Asked(Queued)
    <2>1. CASE Queued' = Queued
      BY <2>1 DEF Asked
    <2>2. CASE Queued' # Queued
      <3>1. at[Main] \notin Beginning /\ at'[Main] \in Beginning
        BY <1>2, <2>2 DEF Queued
      <3>2. Queued' = Tail(inbox) /\ Queued = inbox /\ inbox # <<>>
        BY <1>2, <3>1 DEF Queued, Handles
      <3> QED
        BY <1>1, <3>2, TakeOrderly
    <2> QED
      BY <2>1, <2>2
  <1> QED
    BY <1>3, <1>4, <1>5 DEF BoxKept

\* onDestroy is a command.
LEMMA DestroyCommand ==
  Command("destroy", None) \in Commands /\ Command("destroy", None).kind = "destroy"
BY DEF Command, Commands

\* The system asks for onDestroy once.
LEMMA Destroys ==
  ASSUME NEW box \in Seq(Commands)
  PROVE  /\ WithDestroy(box) \in Seq(Commands)
         /\ WithDestroy(box) = IF Waits("destroy") THEN box
                               ELSE Append(box, Command("destroy", None))
  <1>1. Command("destroy", None) \in Commands
    BY DestroyCommand
  <1>2. Append(box, Command("destroy", None)) \in Seq(Commands)
    BY <1>1, LongBox
  <1> QED
    BY <1>1, <1>2 DEF WithDestroy

\* onDestroy behind the others asks for no session.
LEMMA DestroyKept ==
  ASSUME NEW box \in Seq(Commands), NEW n \in Nat, Orderly(box, n)
  PROVE  /\ Orderly(WithDestroy(box), n)
         /\ Asked(WithDestroy(box)) \subseteq Asked(box)
         /\ EndsFirst(box) => EndsFirst(WithDestroy(box))
  <1> DEFINE c == Command("destroy", None)
  <1>1. c \in Commands /\ c.kind = "destroy"
    BY DestroyCommand
  <1> HIDE DEF c
  <1>2. CASE WithDestroy(box) = box
    BY <1>2
  <1>3. CASE WithDestroy(box) = Append(box, c)
    <2>1. Orderly(Append(box, c), n) /\ Asked(Append(box, c)) \subseteq Asked(box)
      BY <1>1, SendOrderly
    <2>2. EndsFirst(box) => EndsFirst(Append(box, c))
      BY <1>1, StillEndsFirst
    <2> QED
      BY <1>3, <2>1, <2>2
  <1> QED
    BY <1>2, <1>3, Destroys DEF c

\* begin gives up, or the start is refused.
LEMMA RefuseBox ==
  ASSUME Control, up, inbox # <<>>, Head(inbox).kind = "start", Refuse,
         UNCHANGED <<up, consents>>
  PROVE  BoxKept
  <1>1. /\ inbox \in Seq(Commands) /\ Orderly(inbox, consents) /\ consents \in Nat
        /\ Main \in Threads
    BY Ranges
  <1>2. at'[Main] = "idle"
    BY <1>1, Moves DEF Refuse, Steps
  <1>3. ~Finished
    BY <1>1, HeadDecides DEF Finished
  <1>4. /\ Tail(inbox) \in Seq(Commands) /\ Orderly(Tail(inbox), consents)
        /\ Asked(Tail(inbox)) \subseteq Asked(inbox)
    BY <1>1, TakeOrderly, ShortBox
  <1>5. /\ inbox' = WithDestroy(Tail(inbox)) /\ inbox' \in Seq(Commands)
        /\ Orderly(inbox', consents) /\ Asked(inbox') \subseteq Asked(Tail(inbox))
    BY <1>1, <1>4, Destroys, DestroyKept DEF Refuse
  <1>6. Queued' = inbox'
    BY <1>2 DEF Queued, Beginning
  <1>7. Asked(Queued') \subseteq Asked(Queued)
    BY <1>4, <1>5, <1>6 DEF Queued
  <1>8. MainBegins' /\ MainEnds'
    BY <1>2 DEF MainBegins, MainEnds, Beginning, Tearing
  <1> QED
    BY <1>3, <1>5, <1>7, <1>8 DEF BoxKept

\* A start that is done with, or that finds a capture under way.
LEMMA DoneBox ==
  ASSUME Control, up, inbox # <<>>, Head(inbox).kind = "start", inbox' = Tail(inbox),
         at'[Main] = "idle", UNCHANGED <<up, consents>>
  PROVE  BoxKept
  <1>1. /\ inbox \in Seq(Commands) /\ Orderly(inbox, consents) /\ consents \in Nat
    BY Ranges
  <1>3. ~Finished
    BY <1>1, HeadDecides DEF Finished
  <1>4. /\ Tail(inbox) \in Seq(Commands) /\ Orderly(Tail(inbox), consents)
        /\ Asked(Tail(inbox)) \subseteq Asked(inbox)
    BY <1>1, TakeOrderly, ShortBox
  <1>6. Queued' = inbox'
    BY DEF Queued, Beginning
  <1>7. Asked(Queued') \subseteq Asked(Queued)
    BY <1>4, <1>6 DEF Queued
  <1>8. MainBegins' /\ MainEnds'
    BY DEF MainBegins, MainEnds, Beginning, Tearing
  <1> QED
    BY <1>3, <1>4, <1>7, <1>8 DEF BoxKept

\* The main thread is done with a stop or with the service's end: either way the service
\* ends before it starts anything.
LEMMA ReturnMainBox ==
  ASSUME Control, up, inbox # <<>>, Head(inbox).kind \in {"stop", "destroy"},
         Return(Main), at'[Main] = "idle", UNCHANGED consents
  PROVE  BoxKept /\ Finished'
  <1>1. /\ inbox \in Seq(Commands) /\ Orderly(inbox, consents) /\ consents \in Nat
    BY Ranges
  <1>2. /\ Tail(inbox) \in Seq(Commands) /\ Orderly(Tail(inbox), consents)
        /\ Asked(Tail(inbox)) \subseteq Asked(inbox)
    BY <1>1, TakeOrderly, ShortBox
  <1>3. /\ up' = (Head(inbox).kind # "destroy")
        /\ inbox' = IF Head(inbox).kind = "stop" THEN WithDestroy(Tail(inbox)) ELSE Tail(inbox)
    BY DEF Return
  <1>4. /\ inbox' \in Seq(Commands) /\ Orderly(inbox', consents)
        /\ Asked(inbox') \subseteq Asked(Tail(inbox))
    <2>1. CASE Head(inbox).kind = "stop"
      BY <1>1, <1>2, <1>3, <2>1, Destroys, DestroyKept
    <2>2. CASE Head(inbox).kind # "stop"
      BY <1>2, <1>3, <2>2
    <2> QED
      BY <2>1, <2>2
  <1>5. Finished'
    <2>1. CASE Head(inbox).kind = "destroy"
      BY <1>3, <2>1 DEF Finished
    <2>2. CASE Head(inbox).kind = "stop"
      <3> DEFINE rest == Tail(inbox)
                 c == Command("destroy", None)
      <3>1. /\ rest \in Seq(Commands) /\ Len(rest) = Len(inbox) - 1 /\ Len(inbox) \in Nat
            /\ Head(inbox) = inbox[1]
            /\ \A i \in 1..Len(rest) : rest[i] = inbox[i + 1]
        BY <1>1, ShortBox
      <3>2. \A i \in 1..Len(rest) : rest[i].kind # "start"
        BY <1>1, <2>2, TakeOrderly
      <3>3. inbox' = WithDestroy(rest)
        BY <1>3, <2>2
      <3>4. c \in Commands /\ c.kind = "destroy"
        BY DestroyCommand
      <3> HIDE DEF rest, c
      <3>5. CASE Waits("destroy")
        <4>1. PICK i \in 1..Len(inbox) : inbox[i].kind = "destroy"
          BY <3>5 DEF Waits
        <4>2. i # 1
          BY <2>2, <3>1, <4>1
        <4>3. i - 1 \in 1..Len(rest) /\ (i - 1) + 1 = i
          BY <3>1, <4>2
        <4>4. rest[i - 1].kind = "destroy"
          BY <3>1, <4>1, <4>3
        <4>5. EndsFirst(rest)
          BY <3>2, <4>3, <4>4 DEF EndsFirst
        <4>6. inbox' = rest
          BY <3>1, <3>3, <3>5, Destroys
        <4> QED
          BY <4>5, <4>6 DEF Finished
      <3>6. CASE ~Waits("destroy")
        <4>1. inbox' = Append(rest, c)
          BY <3>1, <3>3, <3>6, Destroys DEF c
        <4>2. EndsFirst(Append(rest, c))
          BY <3>1, <3>2, <3>4, StillEndsFirst
        <4> QED
          BY <4>1, <4>2 DEF Finished
      <3> QED
        BY <3>5, <3>6
    <2> QED
      BY <2>1, <2>2
  <1>6. Queued' = inbox'
    BY DEF Queued, Beginning
  <1>7. at[Main] \notin Beginning
    BY Ranges DEF MainBegins
  <1>8. Asked(Queued') \subseteq Asked(Queued)
    BY <1>2, <1>4, <1>6, <1>7 DEF Queued
  <1>9. MainBegins' /\ MainEnds'
    BY DEF MainBegins, MainEnds, Beginning, Tearing
  <1> QED
    BY <1>4, <1>5, <1>8, <1>9 DEF BoxKept

\* Something other than a start is sent.
LEMMA SentBox ==
  ASSUME Control, NEW c \in Commands, c.kind # "start", inbox' = Append(inbox, c),
         at'[Main] = at[Main], UNCHANGED <<up, consents>>
  PROVE  BoxKept
  <1>1. /\ inbox \in Seq(Commands) /\ Orderly(inbox, consents) /\ consents \in Nat
        /\ MainBegins /\ MainEnds
    BY Ranges
  <1>2. /\ inbox' \in Seq(Commands) /\ Orderly(inbox', consents)
        /\ Asked(inbox') \subseteq Asked(inbox)
    BY <1>1, LongBox, SendOrderly
  <1>3. Finished => Finished'
    BY <1>1, StillEndsFirst DEF Finished
  <1>4. inbox # <<>> => Head(inbox') = Head(inbox) /\ inbox' # <<>>
    BY <1>1, HeadTailAppend, LongBox
  <1>5. MainBegins' /\ MainEnds'
    BY <1>1, <1>4 DEF MainBegins, MainEnds
  <1>6. Asked(Queued') \subseteq Asked(Queued)
    <2>1. CASE at[Main] \in Beginning
      <3>1. inbox # <<>> /\ Queued = Tail(inbox) /\ Queued' = Tail(inbox')
        BY <1>1, <2>1 DEF MainBegins, Queued
      <3>2. Tail(inbox') = Append(Tail(inbox), c)
        BY <1>1, <3>1, HeadTailAppend
      <3>3. Tail(inbox) \in Seq(Commands) /\ Orderly(Tail(inbox), consents)
        BY <1>1, <3>1, TakeOrderly, ShortBox
      <3>4. Asked(Append(Tail(inbox), c)) \subseteq Asked(Tail(inbox))
        <4> DEFINE rest == Tail(inbox)
        <4> HIDE DEF rest
        <4>1. rest \in Seq(Commands) /\ Orderly(rest, consents)
          BY <3>3 DEF rest
        <4>2. Asked(Append(rest, c)) \subseteq Asked(rest)
          BY <1>1, <4>1, SendOrderly
        <4> QED
          BY <4>2 DEF rest
      <3> QED
        BY <3>1, <3>2, <3>4
    <2>2. CASE at[Main] \notin Beginning
      BY <1>2, <2>2 DEF Queued
    <2> QED
      BY <2>1, <2>2
  <1> QED
    BY <1>2, <1>3, <1>5, <1>6 DEF BoxKept

\* A consent asks for a session nobody has asked for, and no stop is waiting.
LEMMA ConsentBox ==
  ASSUME Control, NEW sent \in BOOLEAN, Consent(sent)
  PROVE  BoxKept
  <1>1. /\ inbox \in Seq(Commands) /\ Orderly(inbox, consents) /\ consents \in Nat
        /\ MainBegins /\ MainEnds /\ MaxSessions \in Nat /\ consents < MaxSessions
    BY Ranges, BoundsAssumption DEF Consent
  <1>2. /\ at[Main] = "idle" /\ at' = at /\ up' = up /\ consents' = consents + 1
    BY DEF Consent
  <1>3. MainBegins' /\ MainEnds'
    BY <1>2 DEF MainBegins, MainEnds, Beginning, Tearing
  <1>4. Queued = inbox /\ Queued' = inbox'
    BY <1>2 DEF Queued, Beginning
  <1> DEFINE c == Command("start", consents + 1)
  <1>5. c \in Commands /\ c.kind = "start" /\ c.token = consents + 1
    BY <1>1 DEF Command, Commands, Sessions
  <1>6. CASE ~sent
    <2>1. inbox' = inbox
      BY <1>6 DEF Consent
    <2>2. Asked(inbox) \subseteq 1..(consents + 1)
      BY <1>1 DEF Orderly
    <2>3. Orderly(inbox, consents + 1)
      BY <1>1, <2>2 DEF Orderly
    <2>4. Finished => Finished'
      BY <1>2, <2>1 DEF Finished
    <2> QED
      BY <1>1, <1>2, <1>3, <1>4, <2>1, <2>3, <2>4 DEF BoxKept
  <1>7. CASE sent
    <2> HIDE DEF c
    <2>1. inbox' = Append(inbox, c)
      BY <1>7 DEF Consent, c
    <2>2. \A i \in 1..Len(inbox) : inbox[i].kind # "stop"
      BY DEF Consent, Waits
    <2>3. consents + 1 \in Nat /\ consents + 1 >= consents /\ consents + 1 > consents
          /\ consents + 1 \in 1..(consents + 1) /\ consents + 1 # consents
      BY <1>1
    <2>4. /\ Orderly(inbox', consents + 1)
          /\ Asked(inbox') \subseteq Asked(inbox) \cup {x \in {c.token} : c.kind = "start"}
      BY <1>1, <1>5, <2>1, <2>2, <2>3, SendOrderly
    <2>5. inbox' \in Seq(Commands) /\ (Finished => Finished')
      BY <1>1, <1>2, <1>5, <2>1, LongBox, StillEndsFirst DEF Finished
    <2>6. Asked(Queued') \subseteq Asked(Queued) \cup {n \in {consents'} : consents' # consents}
      BY <1>2, <1>4, <1>5, <2>3, <2>4
    <2> QED
      BY <1>2, <1>3, <2>4, <2>5, <2>6 DEF BoxKept
  <1> QED
    BY <1>6, <1>7

-----------------------------------------------------------------------------
(* What a frame is reduced to *)

\* The bits of a row lie between those of the rows around it.
LEMMA BitNumber ==
  ASSUME NEW rows \in Nat \ {0}, NEW w \in Nat, NEW r \in 0..(rows - 1), NEW k \in Nat, k < w
  PROVE  (r * w) + k \in 0..((rows * w) - 1)
  <1>1. r * w \in Nat /\ rows * w \in Int /\ (rows - 1) * w \in Int
    BY SMT
  <1>2. r * w <= (rows - 1) * w
    BY SMT
  <1>3. (rows - 1) * w = (rows * w) - w
    BY SMT
  <1> QED
    BY <1>1, <1>2, <1>3

\* The hash of a plane is a set of bits.
LEMMA HashType ==
  ASSUME NEW plane
  PROVE  DHash(LumaGrid(plane)) \in Hashes
  <1> DEFINE grid == LumaGrid(plane)
  <1>1. DOMAIN grid = (0..(GridHeight - 1)) \X (0..(GridWidth - 1))
    BY DEF LumaGrid
  <1> HIDE DEF grid
  <1>2. ASSUME NEW c \in DOMAIN grid, c[2] < GridWidth - 1
        PROVE  (c[1] * (GridWidth - 1)) + c[2] \in 0..((GridHeight * (GridWidth - 1)) - 1)
    <2>1. /\ GridHeight \in Nat \ {0} /\ GridWidth - 1 \in Nat
          /\ c[1] \in 0..(GridHeight - 1) /\ c[2] \in Nat
      BY <1>1, PlanesAssumption
    <2> QED
      BY <1>2, <2>1, BitNumber
  <1>3. DHash(grid) \subseteq 0..((GridHeight * (GridWidth - 1)) - 1)
    BY <1>2 DEF DHash
  <1> QED
    BY <1>3 DEF Hashes, grid

-----------------------------------------------------------------------------
(* Types, commands and roles *)

\* A start names a session that was consented to and that no other command asks for.
LEMMA TokenType ==
  ASSUME Control, inbox # <<>>, Head(inbox).kind = "start"
  PROVE  /\ Token \in Sessions /\ Token \in 1..consents /\ Token # Main /\ Token # None
         /\ Token \notin Asked(Tail(inbox))
  <1>1. /\ inbox \in Seq(Commands) /\ Orderly(inbox, consents) /\ consents \in Nat
        /\ consents <= MaxSessions /\ MaxSessions \in Nat
    BY Ranges, BoundsAssumption
  <1>2. Token \in Asked(inbox) /\ Token \notin Asked(Tail(inbox))
    BY <1>1, TakeOrderly DEF Token
  <1>3. Token \in 1..consents
    BY <1>1, <1>2 DEF Orderly
  <1> QED
    BY <1>1, <1>2, <1>3 DEF Sessions, Main, None

\* While the main thread begins a session the start it handles heads the queue.
LEMMA BeginningToken ==
  ASSUME Control, at[Main] \in Beginning \/ Handles("start")
  PROVE  /\ up /\ inbox # <<>> /\ Head(inbox).kind = "start" /\ ~Finished
         /\ Token \in Sessions /\ Token \in 1..consents /\ Token # Main /\ Token # None
         /\ Token \notin Asked(Tail(inbox))
  <1>1. up /\ inbox # <<>> /\ Head(inbox).kind = "start" /\ inbox \in Seq(Commands)
    BY Ranges DEF MainBegins, Handles
  <1>2. ~Finished
    BY <1>1, HeadDecides DEF Finished
  <1> QED
    BY <1>1, <1>2, TokenType

\* While the main thread tears down, the service has been told to end.
LEMMA EndingIsFinished ==
  ASSUME Control, at[Main] \in Tearing \/ Handles("stop") \/ Handles("destroy")
  PROVE  /\ up /\ inbox # <<>> /\ Head(inbox).kind \in {"stop", "destroy"} /\ Finished
  <1>1. /\ up /\ inbox # <<>> /\ Head(inbox).kind \in {"stop", "destroy"}
        /\ inbox \in Seq(Commands)
    BY Ranges DEF MainEnds, Handles
  <1>2. Head(inbox).kind # "start"
    BY <1>1
  <1> QED
    BY <1>1, <1>2, HeadDecides DEF Finished

\* What a step of begin does to the main thread.
BeginStep ==
  Begin \/ Register \/ MakeReader \/ MakeDisplay \/ SetRunning
    \/ (CheckDisplay /\ display # None)

\* The steps of begin keep the commands as they are.
LEMMA BeginStepBox ==
  ASSUME Control, BeginStep
  PROVE  /\ BoxKept /\ at' \in [Threads -> Steps]
         /\ at'[Main] \in Beginning /\ \A s \in Sessions : at'[s] = at[s]
  <1>1. Main \in Threads /\ Main \notin Sessions /\ Sessions \subseteq Threads
    BY Ranges
  <1>2. /\ UNCHANGED <<inbox, up, consents>>
        /\ \E step \in Beginning : Go(Main, step)
        /\ at[Main] \in Beginning \/ Handles("start")
    <2>1. ASSUME Begin PROVE UNCHANGED <<inbox, up, consents>> /\ Go(Main, "register")
                             /\ Handles("start")
      BY <2>1 DEF Begin
    <2>2. ASSUME Register PROVE UNCHANGED <<inbox, up, consents>> /\ Go(Main, "reader")
                                /\ at[Main] = "register"
      BY <2>2 DEF Register
    <2>3. ASSUME MakeReader PROVE UNCHANGED <<inbox, up, consents>> /\ Go(Main, "display")
                                  /\ at[Main] = "reader"
      BY <2>3 DEF MakeReader
    <2>4. ASSUME MakeDisplay PROVE UNCHANGED <<inbox, up, consents>> /\ Go(Main, "check")
                                   /\ at[Main] = "display"
      BY <2>4 DEF MakeDisplay
    <2>5. ASSUME SetRunning PROVE UNCHANGED <<inbox, up, consents>> /\ Go(Main, "started")
                                  /\ at[Main] = "running"
      BY <2>5 DEF SetRunning
    <2>6. ASSUME CheckDisplay, display # None
          PROVE  UNCHANGED <<inbox, up, consents>> /\ Go(Main, "running") /\ at[Main] = "check"
      BY <2>6 DEF CheckDisplay
    <2> QED
      BY <2>1, <2>2, <2>3, <2>4, <2>5, <2>6 DEF BeginStep, Beginning
  <1>3. PICK step \in Beginning : Go(Main, step)
    BY <1>2
  <1>4. step \in Steps
    BY DEF Beginning, Steps
  <1>5. /\ at' \in [Threads -> Steps] /\ at'[Main] = step
        /\ \A s \in Sessions : at'[s] = at[s]
    BY <1>1, <1>3, <1>4, Moves
  <1>6. BoxKept
    <2>1. at'[Main] \in Beginning /\ at'[Main] \notin Tearing
      BY <1>5 DEF Beginning, Tearing
    <2> QED
      BY <1>2, <2>1, QuietBox
  <1> QED
    BY <1>5, <1>6

\* A start is done with: it was refused, or a capture runs, or begin is over.
StartStep ==
  \/ StartRefused \/ NoProjection \/ AlreadyCapturing \/ RecordStarted
  \/ (CheckDisplay /\ display = None)

\* A start that is over is taken from the queue.
LEMMA StartStepBox ==
  ASSUME Control, StartStep
  PROVE  /\ BoxKept /\ at' \in [Threads -> Steps]
         /\ at'[Main] = "idle" /\ \A s \in Sessions : at'[s] = at[s]
         /\ at[Main] \in Beginning \/ Handles("start")
  <1>1. /\ Main \in Threads /\ Main \notin Sessions /\ Sessions \subseteq Threads
        /\ at \in [Threads -> Steps]
    BY Ranges
  <1>2. at[Main] \in Beginning \/ Handles("start")
    BY DEF StartStep, StartRefused, NoProjection, AlreadyCapturing, RecordStarted, CheckDisplay,
           Beginning
  <1>3. up /\ inbox # <<>> /\ Head(inbox).kind = "start"
    BY <1>2, BeginningToken
  <1>4. UNCHANGED <<up, consents>>
    BY DEF StartStep, StartRefused, NoProjection, AlreadyCapturing, RecordStarted, CheckDisplay
  <1>5. "idle" \in Steps
    BY DEF Steps
  <1>6. CASE Refuse
    <2>1. BoxKept
      BY <1>3, <1>4, <1>6, RefuseBox
    <2>2. Go(Main, "idle")
      BY <1>6 DEF Refuse
    <2> QED
      BY <1>1, <1>2, <1>5, <2>1, <2>2, Moves
  <1>7. CASE AlreadyCapturing
    <2>1. at' = at /\ at[Main] = "idle" /\ inbox' = Tail(inbox)
      BY <1>7 DEF AlreadyCapturing, Handles
    <2> QED
      BY <1>1, <1>2, <1>3, <1>4, <2>1, DoneBox
  <1>8. CASE RecordStarted
    <2>1. Go(Main, "idle") /\ inbox' = Tail(inbox)
      BY <1>8 DEF RecordStarted
    <2>2. /\ at' \in [Threads -> Steps] /\ at'[Main] = "idle"
          /\ \A s \in Sessions : at'[s] = at[s]
      BY <1>1, <1>5, <2>1, Moves
    <2> QED
      BY <1>2, <1>3, <1>4, <2>1, <2>2, DoneBox
  <1> QED
    BY <1>6, <1>7, <1>8 DEF StartStep, StartRefused, NoProjection, CheckDisplay

\* A step of teardown but the last.
TearStep(t) == ClearProjection(t) \/ ClearRunning(t) \/ Close(t) \/ Quit(t)

\* The steps of teardown keep the commands as they are.
LEMMA TearStepBox ==
  ASSUME Control, NEW t \in Threads, TearStep(t)
  PROVE  /\ BoxKept /\ at' \in [Threads -> Steps]
         /\ at[t] \in Tearing /\ at'[t] \in Tearing \ {"clear"}
         /\ \A u \in Threads : u # t => at'[u] = at[u]
  <1>1. /\ UNCHANGED <<inbox, up, consents>> /\ at[t] \in Tearing
        /\ \E step \in Tearing \ {"clear"} : Go(t, step)
    <2>1. ASSUME ClearProjection(t)
          PROVE  UNCHANGED <<inbox, up, consents>> /\ Go(t, "unset") /\ at[t] = "clear"
      BY <2>1 DEF ClearProjection
    <2>2. ASSUME ClearRunning(t)
          PROVE  UNCHANGED <<inbox, up, consents>> /\ Go(t, "close") /\ at[t] = "unset"
      BY <2>2 DEF ClearRunning
    <2>3. ASSUME Close(t)
          PROVE  UNCHANGED <<inbox, up, consents>> /\ Go(t, "quit") /\ at[t] = "close"
      BY <2>3 DEF Close
    <2>4. ASSUME Quit(t)
          PROVE  UNCHANGED <<inbox, up, consents>> /\ Go(t, "log") /\ at[t] = "quit"
      BY <2>4 DEF Quit
    <2> QED
      BY <2>1, <2>2, <2>3, <2>4 DEF TearStep, Tearing
  <1>2. PICK step \in Tearing \ {"clear"} : Go(t, step)
    BY <1>1
  <1>3. step \in Steps
    BY DEF Tearing, Steps
  <1>4. /\ at' \in [Threads -> Steps] /\ at'[t] = step
        /\ \A u \in Threads : u # t => at'[u] = at[u]
    BY <1>2, <1>3, Moves
  <1>5. BoxKept
    <2>1. /\ at'[Main] \in Beginning => at[Main] \in Beginning
          /\ at'[Main] \in Tearing => at[Main] \in Tearing
          /\ at[Main] \in Beginning => at'[Main] \in Beginning
      <3>1. CASE t = Main
        BY <1>1, <1>4, <3>1, Ranges DEF Tearing, Beginning
      <3>2. CASE t # Main
        BY <1>4, <3>2, Ranges
      <3> QED
        BY <3>1, <3>2
    <2> QED
      BY <1>1, <2>1, QuietBox
  <1> QED
    BY <1>1, <1>4, <1>5

\* A session's thread returns without a command.
LEMMA ReturnSessionBox ==
  ASSUME Control, NEW s \in Sessions, Return(s), at'[Main] = at[Main], UNCHANGED consents
  PROVE  BoxKept /\ up' = up
  <1>1. inbox \in Seq(Commands) /\ s # Main
    BY Ranges
  <1>2. up' = up /\ inbox' = IF up THEN WithDestroy(inbox) ELSE inbox
    BY <1>1 DEF Return
  <1>3. CASE inbox' = inbox
    BY <1>2, <1>3, QuietBox
  <1>4. CASE inbox' = Append(inbox, Command("destroy", None))
    <2> DEFINE c == Command("destroy", None)
    <2>1. c \in Commands /\ c.kind # "start"
      BY DestroyCommand
    <2>2. inbox' = Append(inbox, c)
      BY <1>4
    <2> HIDE DEF c
    <2> QED
      BY <1>2, <2>1, <2>2, SentBox
  <1> QED
    BY <1>1, <1>2, <1>3, <1>4, Destroys

\* The last step of teardown, on the main thread the end of its command.
LEMMA RecordEndedBox ==
  ASSUME Control, NEW t \in Threads, RecordEnded(t)
  PROVE  /\ BoxKept /\ at' \in [Threads -> Steps]
         /\ at[t] = "log" /\ at'[t] = "idle"
         /\ \A u \in Threads : u # t => at'[u] = at[u]
         /\ t = Main => Finished'
         /\ t # Main => up' = up
  <1>1. /\ at[t] = "log" /\ Go(t, "idle") /\ Return(t) /\ UNCHANGED consents
        /\ "idle" \in Steps
    BY DEF RecordEnded, Steps
  <1>2. /\ at' \in [Threads -> Steps] /\ at'[t] = "idle"
        /\ \A u \in Threads : u # t => at'[u] = at[u]
    BY <1>1, Moves
  <1>3. CASE t = Main
    <2>1. up /\ inbox # <<>> /\ Head(inbox).kind \in {"stop", "destroy"}
      BY <1>1, <1>3, EndingIsFinished DEF Tearing
    <2> QED
      BY <1>1, <1>2, <1>3, <2>1, ReturnMainBox
  <1>4. CASE t # Main
    <2>1. t \in Sessions
      BY <1>4 DEF Threads
    <2>2. at'[Main] = at[Main]
      BY <1>2, <1>4, Ranges
    <2> QED
      BY <1>1, <1>2, <1>4, <2>1, <2>2, ReturnSessionBox
  <1> QED
    BY <1>3, <1>4

\* A stop or onDestroy enters teardown only with a projection in the field.
LEMMA StopOrDestroyBox ==
  ASSUME Control, StopOrDestroy
  PROVE  /\ BoxKept /\ at' \in [Threads -> Steps] /\ Finished /\ Finished'
         /\ at[Main] = "idle" /\ at'[Main] = IF projection = None THEN "idle" ELSE "clear"
         /\ \A s \in Sessions : at'[s] = at[s]
         /\ projection # None => up' = up
  <1>1. /\ at[Main] = "idle" /\ (Handles("stop") \/ Handles("destroy")) /\ Teardown(Main)
        /\ UNCHANGED consents
    BY DEF StopOrDestroy, Handles
  <1>2. up /\ inbox # <<>> /\ Head(inbox).kind \in {"stop", "destroy"} /\ Finished
    BY EndingIsFinished DEF StopOrDestroy
  <1>3. /\ Main \in Threads /\ Main \notin Sessions /\ Sessions \subseteq Threads
        /\ at \in [Threads -> Steps]
    BY Ranges
  <1>4. CASE projection = None
    <2>1. Return(Main) /\ at' = at
      BY <1>4 DEF StopOrDestroy, Teardown
    <2> QED
      BY <1>1, <1>2, <1>3, <1>4, <2>1, ReturnMainBox DEF StopOrDestroy, Handles
  <1>5. CASE projection # None
    <2>1. Go(Main, "clear") /\ UNCHANGED <<inbox, up, consents>> /\ "clear" \in Steps
      BY <1>5 DEF StopOrDestroy, Teardown, Steps
    <2>2. /\ at' \in [Threads -> Steps] /\ at'[Main] = "clear"
          /\ \A s \in Sessions : at'[s] = at[s]
      BY <1>3, <2>1, Moves
    <2>3. BoxKept
      <3>1. at'[Main] \notin Beginning /\ at[Main] \notin Beginning
        BY <2>2 DEF Beginning, StopOrDestroy, Handles
      <3> QED
        BY <2>1, <3>1, QuietBox DEF StopOrDestroy
    <2>4. Finished'
      BY <1>2, <2>3 DEF BoxKept
    <2> QED
      BY <1>2, <1>5, <2>1, <2>2, <2>3, <2>4 DEF StopOrDestroy, Handles
  <1> QED
    BY <1>4, <1>5

\* The callback of a session enters teardown only with a projection in the field.
LEMMA OnStopBox ==
  ASSUME Control, NEW s \in Sessions, OnStop(s)
  PROVE  /\ BoxKept /\ at' \in [Threads -> Steps] /\ up' = up
         /\ at[s] = "idle" /\ at'[s] = IF projection = None THEN "idle" ELSE "clear"
         /\ \A u \in Threads : u # s => at'[u] = at[u]
  <1>1. /\ Main \in Threads /\ s # Main /\ s \in Threads
        /\ at \in [Threads -> Steps]
    BY Ranges
  <1>2. at[s] = "idle" /\ Teardown(s) /\ UNCHANGED consents
    BY DEF OnStop
  <1>3. CASE projection = None
    <2>1. Return(s) /\ at' = at
      BY <1>2, <1>3 DEF Teardown
    <2> QED
      BY <1>1, <1>2, <1>3, <2>1, ReturnSessionBox
  <1>4. CASE projection # None
    <2>1. Go(s, "clear") /\ UNCHANGED <<inbox, up>> /\ "clear" \in Steps
      BY <1>2, <1>4 DEF Teardown, Steps
    <2>2. /\ at' \in [Threads -> Steps] /\ at'[s] = "clear"
          /\ \A u \in Threads : u # s => at'[u] = at[u]
      BY <1>1, <2>1, Moves
    <2>3. BoxKept
      BY <1>1, <1>2, <2>1, <2>2, QuietBox
    <2> QED
      BY <1>2, <1>4, <2>1, <2>2, <2>3
  <1> QED
    BY <1>3, <1>4

\* A step of the activity, of Android, or of a frame.
OtherStep ==
  \/ \E sent \in BOOLEAN : Consent(sent)
  \/ Disarm \/ Arm \/ Refresh \/ Tick
  \/ \E s \in Sessions :
       Revoke(s) \/ GateFrame(s) \/ HandOn(s) \/ \E plane \in Planes : Frame(s, plane)

\* What the screen, the frames and the mode do leaves the main thread where it is.
LEMMA OtherStepBox ==
  ASSUME Control, OtherStep
  PROVE  /\ BoxKept /\ at' \in [Threads -> Steps] /\ at'[Main] = at[Main] /\ up' = up
         /\ \A s \in Sessions : at'[s] # at[s] =>
              {at[s], at'[s]} \subseteq {"idle", "gate", "handed"}
  <1>1. /\ Main \in Threads /\ Main \notin Sessions /\ Sessions \subseteq Threads
        /\ at \in [Threads -> Steps] /\ inbox \in Seq(Commands)
    BY Ranges
  <1>2. ASSUME NEW sent \in BOOLEAN, Consent(sent)
        PROVE  BoxKept /\ at' = at /\ up' = up
    BY <1>2, ConsentBox DEF Consent
  <1>3. ASSUME Disarm \/ Refresh PROVE BoxKept /\ at' = at /\ up' = up
    <2>1. /\ at' = at /\ up' = up /\ consents' = consents /\ inbox' = Stopping(isRunning)
      BY <1>3 DEF Disarm, Refresh
    <2>2. CASE inbox' = inbox
      BY <2>1, <2>2, QuietBox
    <2>3. CASE inbox' = Append(inbox, Command("stop", None))
      <3> DEFINE c == Command("stop", None)
      <3>1. c \in Commands /\ c.kind # "start"
        BY DEF Command, Commands
      <3>2. inbox' = Append(inbox, c)
        BY <2>3
      <3> HIDE DEF c
      <3> QED
        BY <2>1, <3>1, <3>2, SentBox
    <2> QED
      BY <2>1, <2>2, <2>3 DEF Stopping
  <1>4. ASSUME Arm \/ Tick \/ \E s \in Sessions : Revoke(s)
        PROVE  BoxKept /\ at' = at /\ up' = up
    <2>1. UNCHANGED <<at, inbox, up, consents>>
      BY <1>4 DEF Arm, Tick, Revoke, control
    <2> QED
      BY <2>1, QuietBox
  <1>5. ASSUME NEW s \in Sessions,
               GateFrame(s) \/ HandOn(s) \/ \E plane \in Planes : Frame(s, plane)
        PROVE  /\ BoxKept /\ at' \in [Threads -> Steps] /\ at'[Main] = at[Main] /\ up' = up
               /\ {at[s], at'[s]} \subseteq {"idle", "gate", "handed"}
               /\ \A u \in Sessions : u # s => at'[u] = at[u]
    <2>1. /\ UNCHANGED <<inbox, up, consents>>
          /\ at[s] \in {"idle", "gate", "handed"}
          /\ \E step \in {"idle", "gate", "handed"} : Go(s, step)
      BY <1>5 DEF GateFrame, HandOn, Frame, Drop
    <2>2. PICK step \in {"idle", "gate", "handed"} : Go(s, step)
      BY <2>1
    <2>3. step \in Steps
      BY DEF Steps
    <2>4. /\ at' \in [Threads -> Steps] /\ at'[s] = step
          /\ \A u \in Threads : u # s => at'[u] = at[u]
      BY <1>1, <2>2, <2>3, Moves
    <2>5. at'[Main] = at[Main]
      BY <1>1, <2>4
    <2>6. BoxKept
      BY <2>1, <2>5, QuietBox
    <2> QED
      BY <1>1, <2>1, <2>4, <2>5, <2>6
  <1> QED
    BY <1>1, <1>2, <1>3, <1>4, <1>5 DEF OtherStep

\* The steps of the capture, by what they do to the threads.
LEMMA StepsOfNext ==
  ASSUME Next
  PROVE  \/ BeginStep \/ StartStep \/ StopOrDestroy \/ OtherStep
         \/ \E s \in Sessions : OnStop(s)
         \/ \E t \in Threads : TearStep(t) \/ RecordEnded(t)
  <1>1. ASSUME MainStep
        PROVE  BeginStep \/ StartStep \/ StopOrDestroy \/ TearStep(Main) \/ RecordEnded(Main)
    BY <1>1 DEF MainStep, BeginStep, StartStep, TeardownStep, TearStep
  <1>2. ASSUME NEW s \in Sessions, SessionStep(s)
        PROVE  OnStop(s) \/ TearStep(s) \/ RecordEnded(s) \/ OtherStep
    BY <1>2 DEF SessionStep, TeardownStep, TearStep, OtherStep
  <1>3. Main \in Threads /\ Sessions \subseteq Threads
    BY DEF Threads
  <1>4. ASSUME (\E sent \in BOOLEAN : Consent(sent)) \/ Disarm \/ Arm \/ Refresh \/ Tick
                 \/ \E s \in Sessions : Revoke(s) \/ \E plane \in Planes : Frame(s, plane)
        PROVE  OtherStep
    BY <1>4 DEF OtherStep
  <1> QED
    BY <1>1, <1>2, <1>3, <1>4 DEF Next

\* Every step keeps the commands in order and the threads in their roles.
LEMMA BoxAlways ==
  ASSUME Control, Next
  PROVE  BoxKept /\ Roles' /\ at' \in [Threads -> Steps]
  <1>1. /\ Main \in Threads /\ Main \notin Sessions /\ Sessions \subseteq Threads /\ Roles
    BY Ranges
  <1>2. ASSUME BeginStep \/ StartStep \/ StopOrDestroy
        PROVE  BoxKept /\ Roles' /\ at' \in [Threads -> Steps]
    <2>1. /\ BoxKept /\ at' \in [Threads -> Steps] /\ \A s \in Sessions : at'[s] = at[s]
          /\ at'[Main] \in {"idle", "clear"} \cup Beginning
      BY <1>2, BeginStepBox, StartStepBox, StopOrDestroyBox
    <2> QED
      BY <1>1, <2>1 DEF Roles, Tearing
  <1>3. ASSUME NEW s \in Sessions, OnStop(s)
        PROVE  BoxKept /\ Roles' /\ at' \in [Threads -> Steps]
    <2>1. /\ BoxKept /\ at' \in [Threads -> Steps]
          /\ at'[s] \in {"idle", "clear"} /\ \A u \in Threads : u # s => at'[u] = at[u]
      BY <1>3, OnStopBox
    <2> QED
      BY <1>1, <2>1 DEF Roles, Tearing
  <1>4. ASSUME NEW t \in Threads, TearStep(t) \/ RecordEnded(t)
        PROVE  BoxKept /\ Roles' /\ at' \in [Threads -> Steps]
    <2>1. /\ BoxKept /\ at' \in [Threads -> Steps]
          /\ at'[t] \in {"idle"} \cup Tearing /\ \A u \in Threads : u # t => at'[u] = at[u]
      BY <1>4, TearStepBox, RecordEndedBox
    <2> QED
      BY <1>1, <2>1 DEF Roles
  <1>5. ASSUME OtherStep PROVE BoxKept /\ Roles' /\ at' \in [Threads -> Steps]
    <2>1. /\ BoxKept /\ at' \in [Threads -> Steps] /\ at'[Main] = at[Main]
          /\ \A s \in Sessions : at'[s] # at[s] =>
               {at[s], at'[s]} \subseteq {"idle", "gate", "handed"}
      BY <1>5, OtherStepBox
    <2> QED
      BY <1>1, <2>1 DEF Roles
  <1> QED
    BY <1>2, <1>3, <1>4, <1>5, StepsOfNext

\* Each field in its own right: a step changes few of them.
LEMMA TypeParts ==
  ASSUME TypeOK
  PROVE  /\ isRunning \in BOOLEAN /\ guardActive \in BOOLEAN /\ up \in BOOLEAN
         /\ consents \in 0..MaxSessions
         /\ projection \in Sessions \cup {None} /\ display \in Sessions \cup {None}
         /\ reader \in Sessions \cup {None} /\ frameThread \in Sessions \cup {None}
         /\ media \in [Sessions -> {"unused", "live", "ended"}]
         /\ registered \subseteq Sessions /\ stopped \subseteq Sessions
         /\ looping \subseteq Sessions
         /\ mine \in [Threads -> Sessions \cup {None}]
         /\ started \in Nat /\ ended \in Nat
         /\ baseline \in Hashes \cup {NoFrame} /\ accepted \in Hashes \cup {NoFrame}
         /\ elapsed \in BOOLEAN /\ shot \in [Sessions -> Hashes \cup {NoFrame}]
BY DEF TypeOK

\* Every step keeps the types.
LEMMA TypeNext ==
  ASSUME Control, Next, BoxKept, at' \in [Threads -> Steps]
  PROVE  TypeOK'
  <1>1. TypeOK /\ inbox' \in Seq(Commands) /\ None = 0 /\ Main = 0 /\ MaxSessions \in Nat
    BY BoundsAssumption DEF Control, BoxKept, None, Main
  <1>2. /\ isRunning \in BOOLEAN /\ guardActive \in BOOLEAN /\ up \in BOOLEAN
        /\ consents \in 0..MaxSessions
        /\ projection \in Sessions \cup {None} /\ display \in Sessions \cup {None}
        /\ reader \in Sessions \cup {None} /\ frameThread \in Sessions \cup {None}
        /\ media \in [Sessions -> {"unused", "live", "ended"}]
        /\ registered \subseteq Sessions /\ stopped \subseteq Sessions /\ looping \subseteq Sessions
        /\ mine \in [Threads -> Sessions \cup {None}]
        /\ started \in Nat /\ ended \in Nat
        /\ baseline \in Hashes \cup {NoFrame} /\ accepted \in Hashes \cup {NoFrame}
        /\ elapsed \in BOOLEAN /\ shot \in [Sessions -> Hashes \cup {NoFrame}]
    BY <1>1, TypeParts
  <1> DEFINE Plain == /\ isRunning \in BOOLEAN /\ guardActive \in BOOLEAN /\ up \in BOOLEAN
                      /\ consents \in 0..MaxSessions
             Fields == /\ projection \in Sessions \cup {None} /\ display \in Sessions \cup {None}
                       /\ reader \in Sessions \cup {None} /\ frameThread \in Sessions \cup {None}
             Droid == /\ media \in [Sessions -> {"unused", "live", "ended"}]
                      /\ registered \subseteq Sessions /\ stopped \subseteq Sessions
                      /\ looping \subseteq Sessions
             Log == /\ mine \in [Threads -> Sessions \cup {None}]
                    /\ started \in Nat /\ ended \in Nat
             Gate == /\ baseline \in Hashes \cup {NoFrame} /\ accepted \in Hashes \cup {NoFrame}
                     /\ elapsed \in BOOLEAN /\ shot \in [Sessions -> Hashes \cup {NoFrame}]
  <1>3. SUFFICES Plain' /\ Fields' /\ Droid' /\ Log' /\ Gate'
    BY <1>1 DEF TypeOK, Commands
  <1> USE DEF fields, android, log, gate, control
  <1>4. CASE BeginStep
    <2>1. /\ at[Main] \in Beginning \/ Handles("start")
      BY <1>4 DEF BeginStep, Begin, Register, MakeReader, MakeDisplay, SetRunning, CheckDisplay,
                  Beginning
    <2>2. Token \in Sessions
      BY <2>1, BeginningToken
    <2>3. Plain'
      BY <1>2, <1>4
      DEF BeginStep, Begin, Register, MakeReader, MakeDisplay, SetRunning, CheckDisplay
    <2>4. Fields'
      BY <1>2, <1>4, <2>2
      DEF BeginStep, Begin, Register, MakeReader, MakeDisplay, SetRunning, CheckDisplay
    <2>5. Droid'
      BY <1>2, <1>4, <2>2
      DEF BeginStep, Begin, Register, MakeReader, MakeDisplay, SetRunning, CheckDisplay
    <2>6. Log' /\ Gate'
      BY <1>2, <1>4
      DEF BeginStep, Begin, Register, MakeReader, MakeDisplay, SetRunning, CheckDisplay
    <2> QED
      BY <2>3, <2>4, <2>5, <2>6
  <1>5. CASE StartStep
    <2>1. Plain'
      BY <1>2, <1>5 DEF StartStep, StartRefused, NoProjection, AlreadyCapturing, RecordStarted,
                        CheckDisplay, Refuse
    <2>2. Fields' /\ Droid' /\ Log' /\ Gate'
      BY <1>2, <1>5 DEF StartStep, StartRefused, NoProjection, AlreadyCapturing, RecordStarted,
                        CheckDisplay
    <2> QED
      BY <2>1, <2>2
  <1>6. CASE StopOrDestroy
    <2>1. Plain'
      BY <1>2, <1>6 DEF StopOrDestroy, Teardown, Return
    <2>2. Fields' /\ Droid' /\ Gate'
      BY <1>2, <1>6 DEF StopOrDestroy
    <2>3. Log'
      BY <1>2, <1>6 DEF StopOrDestroy, Teardown
    <2> QED
      BY <2>1, <2>2, <2>3
  <1>7. ASSUME NEW s \in Sessions, OnStop(s) PROVE Plain' /\ Fields' /\ Droid' /\ Log' /\ Gate'
    <2>1. Plain'
      <3>1. up' = up
        BY <1>7, OnStopBox
      <3> QED
        BY <1>2, <1>7, <3>1 DEF OnStop
    <2>2. Fields' /\ Droid' /\ Gate'
      BY <1>2, <1>7 DEF OnStop
    <2>3. Log'
      BY <1>2, <1>7 DEF OnStop, Teardown
    <2> QED
      BY <2>1, <2>2, <2>3
  <1>8. ASSUME NEW t \in Threads, TearStep(t) PROVE Plain' /\ Fields' /\ Droid' /\ Log' /\ Gate'
    <2>1. Plain' /\ Fields' /\ Log' /\ Gate'
      BY <1>2, <1>8 DEF TearStep, ClearProjection, ClearRunning, Close, Quit
    <2>2. Droid'
      BY <1>2, <1>8 DEF TearStep, ClearProjection, ClearRunning, Close, Quit
    <2> QED
      BY <2>1, <2>2
  <1>9. ASSUME NEW t \in Threads, RecordEnded(t)
        PROVE  Plain' /\ Fields' /\ Droid' /\ Log' /\ Gate'
    <2>1. Plain'
      <3>1. up' \in BOOLEAN
        BY <1>2, <1>9 DEF RecordEnded, Return
      <3> QED
        BY <1>2, <1>9, <3>1 DEF RecordEnded
    <2>2. Fields' /\ Droid' /\ Log' /\ Gate'
      BY <1>2, <1>9 DEF RecordEnded
    <2> QED
      BY <2>1, <2>2
  <1>10. ASSUME NEW sent \in BOOLEAN, Consent(sent)
         PROVE  Plain' /\ Fields' /\ Droid' /\ Log' /\ Gate'
    BY <1>1, <1>2, <1>10 DEF Consent
  <1>11. ASSUME Disarm \/ Arm \/ Refresh
         PROVE  Plain' /\ Fields' /\ Droid' /\ Log' /\ Gate'
    BY <1>2, <1>11 DEF Disarm, Arm, Refresh
  <1>12. ASSUME NEW s \in Sessions, Revoke(s)
         PROVE  Plain' /\ Fields' /\ Droid' /\ Log' /\ Gate'
    BY <1>2, <1>12 DEF Revoke
  <1>13. ASSUME NEW s \in Sessions, GateFrame(s) \/ HandOn(s)
         PROVE  Plain' /\ Fields' /\ Droid' /\ Log' /\ Gate'
    BY <1>2, <1>13 DEF GateFrame, HandOn, Drop
  <1>14. ASSUME NEW s \in Sessions, NEW plane \in Planes, Frame(s, plane)
         PROVE  Plain' /\ Fields' /\ Droid' /\ Log' /\ Gate'
    <2>1. DHash(LumaGrid(plane)) \in Hashes
      BY HashType
    <2> QED
      BY <1>2, <1>14, <2>1 DEF Frame
  <1>15. ASSUME Tick PROVE Plain' /\ Fields' /\ Droid' /\ Log' /\ Gate'
    BY <1>2, <1>15 DEF Tick
  <1> HIDE DEF Plain, Fields, Droid, Log, Gate
  <1>16. CASE OtherStep
    BY <1>10, <1>11, <1>12, <1>13, <1>14, <1>15, <1>16 DEF OtherStep
  <1> QED
    BY <1>4, <1>5, <1>6, <1>7, <1>8, <1>9, <1>16, StepsOfNext

\* Control is inductive, and a service that was told to end stays so.
LEMMA ControlNext ==
  ASSUME Control, [Next]_vars
  PROVE  Control' /\ (Finished => Finished')
  <1>1. CASE Next
    <2>1. BoxKept /\ Roles' /\ at' \in [Threads -> Steps]
      BY <1>1, BoxAlways
    <2>2. TypeOK'
      BY <1>1, <2>1, TypeNext
    <2> QED
      BY <2>1, <2>2 DEF Control, BoxKept
  <1>2. CASE UNCHANGED vars
    <2> USE DEF vars, fields, android, log, gate, control
    <2>1. TypeOK'
      BY <1>2 DEF Control, TypeOK
    <2>2. Orderly(inbox', consents') /\ MainBegins' /\ MainEnds' /\ Roles'
      BY <1>2 DEF Control, MainBegins, MainEnds, Roles
    <2>3. Finished => Finished'
      BY <1>2 DEF Finished
    <2> QED
      BY <2>1, <2>2, <2>3 DEF Control
  <1> QED
    BY <1>1, <1>2

-----------------------------------------------------------------------------
(* Why a capture ends. A session that is stopped finds its own projection in   *)
(* the field, or has it in hand, unless the service has been told to end: the  *)
(* order of the commands keeps a new session from taking the field while an    *)
(* old one is still being torn down.                                           *)

\* Nothing has been done for a session yet.
Untouched(s) ==
  /\ s \notin registered \cup stopped \cup looping
  /\ at[s] = "idle" /\ projection # s
  /\ \A t \in Threads : mine[t] # s
FreshSessions ==
  /\ \A s \in Asked(Queued) : media[s] = "unused"
  /\ \A s \in Sessions : s > consents => media[s] = "unused"
  /\ \A s \in Sessions : media[s] = "unused" => Untouched(s)
BeingRegistered ==
  /\ at[Main] \in Beginning => media[Token] # "unused"
  /\ at[Main] = "register" =>
       /\ projection = Token
       /\ Token \notin registered \cup stopped \cup looping /\ at[Token] = "idle"
HeardOnce ==
  \A s \in Sessions :
    /\ s \in stopped => (media[s] = "ended" /\ at[s] \notin Tearing)
    /\ at[s] \in Tearing => media[s] = "ended"
Lives == FreshSessions /\ BeingRegistered /\ HeardOnce

\* t has the projection of s in hand and has not yet released it.
Held(t, s) == at[t] \in {"clear", "unset", "close"} /\ mine[t] = s

\* A teardown about to clear the field has read it, and nothing else was put there since.
ClearsWhatItRead ==
  \A t \in Threads :
    at[t] = "clear" => (projection \in {None, mine[t]} /\ mine[t] # None)
ClearedTwice == \A t \in Threads : (at[t] = "clear" /\ projection = None) => Finished
\* A session's thread tears its own session down, and a session that will hear of its end
\* still has something to release, until the service is told to end.
ReadsItsOwn == \A s \in Sessions : at[s] = "clear" => (mine[s] = s \/ Finished)
HearsItsOwn == \A s \in stopped \cup registered : projection = s \/ Held(s, s) \/ Finished
\* A live projection is in the field or in some hand.
LiveIsHeld ==
  \A s \in Sessions : media[s] = "live" => (projection = s \/ \E t \in Threads : Held(t, s))
GoneIsClear == ~up => (projection = None /\ at[Main] = "idle")
MainCleared == at[Main] \in Tearing \ {"clear"} => projection = None
Handover ==
  /\ ClearsWhatItRead /\ ClearedTwice /\ ReadsItsOwn /\ HearsItsOwn
  /\ LiveIsHeld /\ GoneIsClear /\ MainCleared

\* Starts against ends: those being begun, torn down, or not yet claimed by a teardown.
Ending == {t \in Threads : at[t] \in Tearing}
BeginningNow == IF at[Main] \in Beginning THEN 1 ELSE 0
Unclaimed == IF projection # None /\ \A t \in Threads : at[t] # "clear" THEN 1 ELSE 0
EveryStartEnds == started + BeginningNow <= ended + Cardinality(Ending) + Unclaimed

-----------------------------------------------------------------------------
(* Handovers, step by step *)

\* The start being handled stays the same while it is.
LEMMA HeadKept ==
  ASSUME Control, Next, at[Main] \in Beginning, at'[Main] \in Beginning
  PROVE  Token' = Token
  <1>1. /\ inbox \in Seq(Commands) /\ inbox # <<>> /\ Main \notin Sessions
        /\ Sessions \subseteq Threads /\ Main \in Threads
    BY Ranges DEF MainBegins
  <1>2. at[Main] # "idle" /\ at[Main] # "log" /\ at[Main] \notin Tearing
    BY DEF Beginning, Tearing
  <1>3. CASE inbox' = inbox
    BY <1>3 DEF Token
  <1>4. CASE inbox' = WithDestroy(inbox)
    <2>1. Head(inbox') = Head(inbox)
      BY <1>1, <1>4, Destroys, HeadTailAppend
    <2> QED
      BY <2>1 DEF Token
  <1>5. ASSUME NEW s \in Sessions, Return(s)
        PROVE  inbox' = inbox \/ inbox' = WithDestroy(inbox)
    BY <1>1, <1>5 DEF Return
  <1>6. CASE BeginStep
    BY <1>3, <1>6
    DEF BeginStep, Begin, Register, MakeReader, MakeDisplay, SetRunning, CheckDisplay
  <1>7. CASE StartStep
    <2>1. at'[Main] = "idle"
      BY <1>7, StartStepBox
    <2> QED
      BY <2>1 DEF Beginning
  <1>8. CASE StopOrDestroy
    BY <1>2, <1>8 DEF StopOrDestroy, Handles
  <1>9. CASE OtherStep
    BY <1>2, <1>3, <1>9
    DEF OtherStep, Consent, Disarm, Arm, Refresh, Tick, Revoke, GateFrame, HandOn, Frame, control
  <1>10. ASSUME NEW s \in Sessions, OnStop(s) PROVE Token' = Token
    <2>1. inbox' = inbox \/ Return(s)
      BY <1>10 DEF OnStop, Teardown
    <2> QED
      BY <1>3, <1>4, <1>5, <2>1
  <1>11. ASSUME NEW t \in Threads, TearStep(t) PROVE Token' = Token
    BY <1>3, <1>11 DEF TearStep, ClearProjection, ClearRunning, Close, Quit
  <1>12. ASSUME NEW t \in Threads, RecordEnded(t) PROVE Token' = Token
    <2>1. t # Main
      BY <1>2, <1>12 DEF RecordEnded
    <2>2. t \in Sessions
      BY <2>1 DEF Threads
    <2> QED
      BY <1>3, <1>4, <1>5, <1>12, <2>2 DEF RecordEnded
  <1> QED
    BY <1>6, <1>7, <1>8, <1>9, <1>10, <1>11, <1>12, StepsOfNext

\* A session's projection is given once, and once ended it stays so.
LEMMA MediaMoves ==
  ASSUME Control, Lives, Next, NEW s \in Sessions
  PROVE  \/ media'[s] = media[s]
         \/ media[s] = "unused" /\ media'[s] = "live" /\ Begin /\ s = Token
         \/ media[s] # "unused" /\ media'[s] = "ended"
  <1>1. media \in [Sessions -> {"unused", "live", "ended"}]
    BY TypeParts DEF Control
  <1> USE DEF android
  <1>2. CASE Begin
    <2>1. Token \in Sessions /\ Token \in Asked(inbox) /\ Queued = inbox
      <3>1. /\ inbox \in Seq(Commands) /\ inbox # <<>> /\ Head(inbox).kind = "start"
            /\ Orderly(inbox, consents) /\ consents \in Nat
        BY <1>2, Ranges DEF Begin, Handles
      <3> QED
        BY <1>2, <3>1, TokenType, TakeOrderly DEF Token, Begin, Handles, Queued, Beginning
    <2>2. media[Token] = "unused"
      BY <2>1 DEF Lives, FreshSessions
    <2> QED
      BY <1>1, <1>2, <2>1, <2>2 DEF Begin
  <1>3. CASE BeginStep /\ ~Begin
    BY <1>3 DEF BeginStep, Register, MakeReader, MakeDisplay, SetRunning, CheckDisplay
  <1>4. CASE StartStep
    BY <1>4 DEF StartStep, StartRefused, NoProjection, AlreadyCapturing, RecordStarted,
                CheckDisplay
  <1>5. CASE StopOrDestroy
    BY <1>5 DEF StopOrDestroy
  <1>6. ASSUME NEW u \in Sessions, OnStop(u) PROVE media' = media
    BY <1>6 DEF OnStop
  <1>7. ASSUME NEW t \in Threads, TearStep(t)
        PROVE  \/ media'[s] = media[s]
               \/ media[s] # "unused" /\ media'[s] = "ended"
    <2>1. CASE ~Close(t)
      BY <1>7, <2>1 DEF TearStep, ClearProjection, ClearRunning, Quit
    <2>2. CASE Close(t)
      <3>1. mine[t] = s => media[s] # "unused"
        BY DEF Lives, FreshSessions, Untouched
      <3>2. media' = [media EXCEPT ![mine[t]] = "ended"]
        BY <2>2 DEF Close
      <3> QED
        BY <1>1, <3>1, <3>2
    <2> QED
      BY <2>1, <2>2
  <1>8. ASSUME NEW t \in Threads, RecordEnded(t) PROVE media' = media
    BY <1>8 DEF RecordEnded
  <1>9. CASE OtherStep
    <2>1. ASSUME NEW u \in Sessions, Revoke(u)
          PROVE  \/ media'[s] = media[s]
                 \/ media[s] # "unused" /\ media'[s] = "ended"
      BY <1>1, <2>1 DEF Revoke
    <2>2. ASSUME \/ \E sent \in BOOLEAN : Consent(sent)
                 \/ Disarm \/ Arm \/ Refresh \/ Tick
                 \/ \E u \in Sessions :
                      GateFrame(u) \/ HandOn(u) \/ \E plane \in Planes : Frame(u, plane)
          PROVE  media' = media
      BY <2>2 DEF Consent, Disarm, Arm, Refresh, Tick, GateFrame, HandOn, Frame
    <2> QED
      BY <1>9, <2>1, <2>2 DEF OtherStep
  <1> QED
    BY <1>2, <1>3, <1>4, <1>5, <1>6, <1>7, <1>8, <1>9, StepsOfNext DEF BeginStep

\* A frame moves its own thread only.
LEMMA FrameMoves ==
  ASSUME Control, NEW u \in Sessions,
         GateFrame(u) \/ HandOn(u) \/ \E plane \in Planes : Frame(u, plane),
         NEW t \in Threads, t # u
  PROVE  at'[t] = at[t]
  <1>1. \E step \in {"idle", "gate", "handed"} : Go(u, step)
    BY DEF GateFrame, HandOn, Frame, Drop
  <1>2. PICK step \in {"idle", "gate", "handed"} : Go(u, step)
    BY <1>1
  <1> QED
    BY <1>2, Ranges DEF Go

\* Nothing is done for a session before its start is handled.
LEMMA UntouchedNext ==
  ASSUME Control, Lives, Next, NEW s \in Sessions, media[s] = "unused", media'[s] = "unused"
  PROVE  Untouched(s)'
  <1>1. /\ s \notin registered \cup stopped \cup looping /\ at[s] = "idle" /\ projection # s
        /\ \A t \in Threads : mine[t] # s
    BY DEF Lives, FreshSessions, Untouched
  <1>2. /\ s # None /\ s # Main /\ s \in Threads /\ Main \in Threads
    BY Ranges
  <1>3. mine \in [Threads -> Sessions \cup {None}]
    BY TypeParts DEF Control
  <1>4. at[Main] \in Beginning => Token # s
    BY DEF Lives, BeingRegistered
  <1> USE DEF fields, android
  <1>5. CASE BeginStep
    <2>1. at'[s] = at[s]
      BY <1>5, BeginStepBox
    <2>2. mine' = mine
      BY <1>5 DEF BeginStep, Begin, Register, MakeReader, MakeDisplay, SetRunning, CheckDisplay
    <2>3. CASE Begin
      <3>1. Token # s
        <4>1. Token \in Sessions
          BY <2>3, BeginningToken DEF Begin
        <4>2. media'[Token] = "live"
          BY <2>3, <4>1, TypeParts DEF Begin, Control
        <4> QED
          BY <4>2
      <3> QED
        BY <1>1, <2>1, <2>2, <2>3, <3>1 DEF Begin, Untouched
    <2>4. CASE Register
      BY <1>1, <1>4, <2>1, <2>2, <2>4 DEF Register, Untouched, Beginning
    <2>5. CASE ~Begin /\ ~Register
      BY <1>1, <1>5, <2>1, <2>2, <2>5
      DEF BeginStep, MakeReader, MakeDisplay, SetRunning, CheckDisplay, Untouched
    <2> QED
      BY <2>3, <2>4, <2>5
  <1>6. CASE StartStep
    <2>1. at'[s] = at[s]
      BY <1>6, StartStepBox
    <2>2. UNCHANGED <<mine, projection, registered, stopped, looping>>
      BY <1>6 DEF StartStep, StartRefused, NoProjection, AlreadyCapturing, RecordStarted,
                  CheckDisplay
    <2> QED
      BY <1>1, <2>1, <2>2 DEF Untouched
  <1>7. CASE StopOrDestroy
    <2>1. at'[s] = at[s]
      BY <1>7, StopOrDestroyBox
    <2>2. /\ UNCHANGED <<projection, registered, stopped, looping>>
          /\ mine' = [mine EXCEPT ![Main] = projection]
      BY <1>7 DEF StopOrDestroy, Teardown
    <2> QED
      BY <1>1, <1>3, <2>1, <2>2 DEF Untouched
  <1>8. ASSUME NEW u \in Sessions, OnStop(u) PROVE Untouched(s)'
    <2>1. u # s
      BY <1>1, <1>8 DEF OnStop
    <2>2. at'[s] = at[s]
      BY <1>2, <1>8, <2>1, OnStopBox
    <2>3. /\ UNCHANGED <<projection, registered, looping>> /\ stopped' \subseteq stopped
          /\ mine' = [mine EXCEPT ![u] = projection]
      BY <1>8 DEF OnStop, Teardown
    <2> QED
      BY <1>1, <1>3, <2>2, <2>3 DEF Untouched
  <1>9. ASSUME NEW t \in Threads, TearStep(t) PROVE Untouched(s)'
    <2>1. t # s
      BY <1>1, <1>9, TearStepBox DEF Tearing
    <2>2. at'[s] = at[s]
      BY <1>2, <1>9, <2>1, TearStepBox
    <2>3. /\ projection' \in {projection, None} /\ registered' \subseteq registered
          /\ looping' \subseteq looping /\ stopped' = stopped /\ mine' = mine
      BY <1>9 DEF TearStep, ClearProjection, ClearRunning, Close, Quit
    <2> QED
      BY <1>1, <1>2, <2>2, <2>3 DEF Untouched
  <1>10. ASSUME NEW t \in Threads, RecordEnded(t) PROVE Untouched(s)'
    <2>1. t # s /\ at'[s] = at[s]
      BY <1>1, <1>2, <1>10, RecordEndedBox
    <2>2. /\ UNCHANGED <<projection, registered, stopped, looping>>
          /\ mine' = [mine EXCEPT ![t] = None]
      BY <1>10 DEF RecordEnded
    <2> QED
      BY <1>1, <1>2, <1>3, <2>1, <2>2 DEF Untouched
  <1>11. CASE OtherStep
    <2>1. /\ UNCHANGED <<mine, projection, registered, looping>>
          /\ stopped' \subseteq stopped \cup registered
      BY <1>11 DEF OtherStep, Consent, Disarm, Arm, Refresh, Tick, Revoke, GateFrame, HandOn, Frame,
                   control
    <2>2. at'[s] = at[s]
      <3>1. ASSUME NEW u \in Sessions,
                   GateFrame(u) \/ HandOn(u) \/ \E plane \in Planes : Frame(u, plane)
            PROVE  at'[s] = at[s]
        <4>1. u # s
          BY <1>1, <3>1 DEF GateFrame, HandOn, Frame
        <4> QED
          BY <1>2, <3>1, <4>1, FrameMoves
      <3>2. ASSUME \/ \E sent \in BOOLEAN : Consent(sent)
                   \/ Disarm \/ Arm \/ Refresh \/ Tick \/ \E u \in Sessions : Revoke(u)
            PROVE  at'[s] = at[s]
        BY <3>2 DEF Consent, Disarm, Arm, Refresh, Tick, Revoke, control
      <3> QED
        BY <1>11, <3>1, <3>2 DEF OtherStep
    <2> QED
      BY <1>1, <2>1, <2>2 DEF Untouched
  <1> QED
    BY <1>5, <1>6, <1>7, <1>8, <1>9, <1>10, <1>11, StepsOfNext

\* A session is untouched until its own start is taken.
LEMMA FreshNext ==
  ASSUME Control, Lives, Next
  PROVE  FreshSessions'
  <1>1. /\ inbox \in Seq(Commands) /\ Orderly(inbox, consents) /\ consents \in Nat
        /\ consents <= MaxSessions /\ MaxSessions \in Nat
    BY Ranges, BoundsAssumption
  <1>2. /\ Asked(Queued') \subseteq Asked(Queued) \cup {n \in {consents'} : consents' # consents}
    BY BoxAlways DEF BoxKept
  <1>3. Asked(Queued) \subseteq Asked(inbox)
    <2>1. CASE at[Main] \in Beginning
      BY <1>1, <2>1, BeginningToken, TakeOrderly DEF Queued
    <2>2. CASE at[Main] \notin Beginning
      BY <2>2 DEF Queued
    <2> QED
      BY <2>1, <2>2
  <1>4. Asked(Queued) \subseteq 1..consents
    BY <1>1, <1>3 DEF Orderly
  <1>5. consents' = consents \/ (consents' = consents + 1 /\ consents < MaxSessions)
    <2>1. CASE OtherStep
      BY <2>1 DEF OtherStep, Consent, Disarm, Arm, Refresh, Tick, Revoke, GateFrame, HandOn, Frame
    <2>2. CASE BeginStep \/ StartStep \/ StopOrDestroy
      BY <2>2 DEF BeginStep, Begin, Register, MakeReader, MakeDisplay, SetRunning, CheckDisplay,
                  StartStep, StartRefused, NoProjection, AlreadyCapturing, RecordStarted,
                  StopOrDestroy
    <2>3. ASSUME NEW s \in Sessions, OnStop(s) PROVE consents' = consents
      BY <2>3 DEF OnStop
    <2>4. ASSUME NEW t \in Threads, TearStep(t) \/ RecordEnded(t) PROVE consents' = consents
      BY <2>4 DEF TearStep, ClearProjection, ClearRunning, Close, Quit, RecordEnded
    <2> QED
      BY <2>1, <2>2, <2>3, <2>4, StepsOfNext
  <1>6. ASSUME NEW s \in Asked(Queued') PROVE media'[s] = "unused"
    <2>1. s \in Sessions /\ media[s] = "unused"
      <3>1. CASE s \in Asked(Queued)
        BY <1>1, <1>4, <3>1 DEF Lives, FreshSessions, Sessions
      <3>2. CASE s = consents + 1 /\ consents < MaxSessions
        BY <1>1, <3>2 DEF Lives, FreshSessions, Sessions
      <3> QED
        BY <1>1, <1>2, <1>5, <3>1, <3>2
    <2>2. ~(Begin /\ s = Token)
      <3> SUFFICES ASSUME Begin, s = Token PROVE FALSE
        OBVIOUS
      <3>1. Token \notin Asked(Tail(inbox))
        BY BeginningToken DEF Begin
      <3>2. at'[Main] \in Beginning /\ inbox' = inbox /\ consents' = consents
        BY BeginStepBox DEF BeginStep, Begin
      <3>3. Queued' = Tail(inbox)
        BY <3>2 DEF Queued
      <3> QED
        BY <3>1, <3>3
    <2> QED
      BY <2>1, <2>2, MediaMoves
  <1>7. ASSUME NEW s \in Sessions, s > consents' PROVE media'[s] = "unused"
    <2>1. s > consents
      BY <1>1, <1>5, <1>7 DEF Sessions
    <2>2. media[s] = "unused"
      BY <2>1 DEF Lives, FreshSessions
    <2>3. ~(Begin /\ s = Token)
      <3> SUFFICES ASSUME Begin, s = Token PROVE FALSE
        OBVIOUS
      <3>1. Token \in 1..consents
        BY BeginningToken DEF Begin
      <3> QED
        BY <1>1, <2>1, <3>1
    <2> QED
      BY <2>2, <2>3, MediaMoves
  <1>8. ASSUME NEW s \in Sessions, media'[s] = "unused" PROVE Untouched(s)'
    <2>1. media[s] = "unused"
      BY <1>8, MediaMoves
    <2> QED
      BY <1>8, <2>1, UntouchedNext
  <1> QED
    BY <1>6, <1>7, <1>8 DEF FreshSessions

\* The end of a projection is heard once, after it ended.
LEMMA HeardNext ==
  ASSUME Control, Lives, Next
  PROVE  HeardOnce'
  <1> SUFFICES ASSUME NEW s \in Sessions
               PROVE  /\ s \in stopped' => (media'[s] = "ended" /\ at'[s] \notin Tearing)
                      /\ at'[s] \in Tearing => media'[s] = "ended"
    BY DEF HeardOnce
  <1>1. /\ s \in stopped => (media[s] = "ended" /\ at[s] \notin Tearing)
        /\ at[s] \in Tearing => media[s] = "ended"
    BY DEF Lives, HeardOnce
  <1>2. media[s] = "ended" => media'[s] = "ended"
    BY MediaMoves
  <1>3. s # Main /\ s \in Threads
    BY Ranges
  <1> USE DEF android
  <1>4. CASE BeginStep \/ StartStep \/ StopOrDestroy
    <2>1. at'[s] = at[s]
      BY <1>4, BeginStepBox, StartStepBox, StopOrDestroyBox
    <2>2. stopped' = stopped
      BY <1>4 DEF BeginStep, Begin, Register, MakeReader, MakeDisplay, SetRunning, CheckDisplay,
                  StartStep, StartRefused, NoProjection, AlreadyCapturing, RecordStarted,
                  StopOrDestroy
    <2> QED
      BY <1>1, <1>2, <2>1, <2>2
  <1>5. ASSUME NEW u \in Sessions, OnStop(u)
        PROVE  /\ s \in stopped' => (media'[s] = "ended" /\ at'[s] \notin Tearing)
               /\ at'[s] \in Tearing => media'[s] = "ended"
    <2>1. stopped' = stopped \ {u} /\ u \in stopped
      BY <1>5 DEF OnStop
    <2>2. CASE u = s
      BY <1>1, <1>2, <2>1, <2>2
    <2>3. CASE u # s
      <3>1. at'[s] = at[s]
        BY <1>3, <1>5, <2>3, OnStopBox
      <3> QED
        BY <1>1, <1>2, <2>1, <3>1
    <2> QED
      BY <2>2, <2>3
  <1>6. ASSUME NEW t \in Threads, TearStep(t) \/ RecordEnded(t)
        PROVE  /\ s \in stopped' => (media'[s] = "ended" /\ at'[s] \notin Tearing)
               /\ at'[s] \in Tearing => media'[s] = "ended"
    <2>1. stopped' = stopped
      BY <1>6 DEF TearStep, ClearProjection, ClearRunning, Close, Quit, RecordEnded
    <2>2. at'[s] \in Tearing => at[s] \in Tearing
      BY <1>3, <1>6, TearStepBox, RecordEndedBox DEF Tearing
    <2>3. at[s] \notin Tearing => at'[s] \notin Tearing
      BY <2>2
    <2> QED
      BY <1>1, <1>2, <2>1, <2>2
  <1>7. CASE OtherStep
    <2>1. at'[s] \in Tearing <=> at[s] \in Tearing
      BY <1>7, OtherStepBox DEF Tearing
    <2>2. s \in stopped' => s \in stopped \/ Revoke(s)
      <3>1. ASSUME NEW u \in Sessions, Revoke(u) PROVE s \in stopped' => s \in stopped \/ Revoke(s)
        BY <3>1 DEF Revoke
      <3>2. ASSUME \/ \E sent \in BOOLEAN : Consent(sent)
                   \/ Disarm \/ Arm \/ Refresh \/ Tick
                   \/ \E u \in Sessions :
                        GateFrame(u) \/ HandOn(u) \/ \E plane \in Planes : Frame(u, plane)
            PROVE  stopped' = stopped
        BY <3>2 DEF Consent, Disarm, Arm, Refresh, Tick, GateFrame, HandOn, Frame
      <3> QED
        BY <1>7, <3>1, <3>2 DEF OtherStep
    <2>3. ASSUME Revoke(s) PROVE media'[s] = "ended" /\ at[s] \notin Tearing
      BY <1>1, <2>3, TypeParts DEF Revoke, Control
    <2> QED
      BY <1>1, <1>2, <2>1, <2>2, <2>3
  <1> QED
    BY <1>4, <1>5, <1>6, <1>7, StepsOfNext

\* A callback is registered for the projection in the field.
LEMMA RegisteredNext ==
  ASSUME Control, Lives, Handover, Next
  PROVE  BeingRegistered'
  <1>1. Main \in Threads /\ Main \notin Sessions /\ Sessions \subseteq Threads
    BY Ranges
  <1>2. CASE Begin
    <2>1. /\ Token \in Sessions /\ Token # Main /\ Token \in Asked(inbox)
          /\ Queued = inbox /\ inbox' = inbox /\ Token' = Token
      <3>1. /\ inbox \in Seq(Commands) /\ inbox # <<>> /\ Head(inbox).kind = "start"
            /\ Orderly(inbox, consents) /\ consents \in Nat
        BY <1>2, Ranges DEF Begin, Handles
      <3> QED
        BY <1>1, <1>2, <3>1, TokenType, TakeOrderly DEF Token, Begin, Handles, Queued, Beginning
    <2>2. Untouched(Token)
      BY <2>1 DEF Lives, FreshSessions
    <2>3. media'[Token] = "live"
      BY <1>2, <2>1, TypeParts DEF Begin, Control
    <2>4. at'[Token] = at[Token]
      BY <1>2, <2>1, BeginStepBox DEF BeginStep
    <2> QED
      BY <1>2, <2>1, <2>2, <2>3, <2>4 DEF BeingRegistered, Untouched, Begin
  <1>3. CASE ~Begin
    <2> SUFFICES ASSUME at'[Main] \in Beginning PROVE BeingRegistered'
      BY DEF BeingRegistered, Beginning
    <2>1. at[Main] \in Beginning
      <3>1. CASE BeginStep
        BY <1>3, <3>1 DEF BeginStep, Register, MakeReader, MakeDisplay, SetRunning, CheckDisplay,
                          Beginning
      <3>2. CASE StartStep \/ StopOrDestroy
        BY <3>2, StartStepBox, StopOrDestroyBox DEF Beginning
      <3>3. ASSUME NEW s \in Sessions, OnStop(s) PROVE at'[Main] = at[Main]
        BY <1>1, <3>3, OnStopBox
      <3>4. ASSUME NEW t \in Threads, TearStep(t) \/ RecordEnded(t) PROVE at[Main] \in Beginning
        BY <1>1, <3>4, TearStepBox, RecordEndedBox DEF Tearing, Beginning
      <3>5. CASE OtherStep
        BY <3>5, OtherStepBox
      <3> QED
        BY <3>1, <3>2, <3>3, <3>4, <3>5, StepsOfNext
    <2>2. /\ Token' = Token /\ Token \in Sessions /\ Token # Main /\ Token # None /\ ~Finished
      BY <2>1, HeadKept, BeginningToken
    <2>3. media[Token] # "unused" /\ media'[Token] # "unused"
      BY <2>1, <2>2, MediaMoves DEF Lives, BeingRegistered
    <2>4. ASSUME at'[Main] = "register"
          PROVE  /\ projection' = Token
                 /\ Token \notin registered' \cup stopped' \cup looping' /\ at'[Token] = "idle"
      <3> USE DEF fields, android
      <3>1. at[Main] = "register"
        <4>1. CASE BeginStep
          BY <1>1, <1>3, <2>4, <4>1, TypeParts
          DEF BeginStep, Register, MakeReader, MakeDisplay, SetRunning, CheckDisplay, Go, Control,
              TypeOK
        <4>2. CASE StartStep \/ StopOrDestroy
          BY <2>4, <4>2, StartStepBox, StopOrDestroyBox
        <4>3. ASSUME NEW s \in Sessions, OnStop(s) PROVE at'[Main] = at[Main]
          BY <1>1, <4>3, OnStopBox
        <4>4. ASSUME NEW t \in Threads, TearStep(t) \/ RecordEnded(t) PROVE at[Main] = "register"
          BY <1>1, <2>4, <4>4, TearStepBox, RecordEndedBox DEF Tearing
        <4>5. CASE OtherStep
          BY <2>4, <4>5, OtherStepBox
        <4> QED
          BY <2>4, <4>1, <4>2, <4>3, <4>4, <4>5, StepsOfNext
      <3>2. /\ projection = Token
            /\ Token \notin registered \cup stopped \cup looping /\ at[Token] = "idle"
        BY <3>1 DEF Lives, BeingRegistered
      <3>3. CASE BeginStep
        BY <1>1, <1>3, <2>4, <3>1, <3>3, TypeParts
        DEF BeginStep, Register, MakeReader, MakeDisplay, SetRunning, CheckDisplay, Go, Control,
            TypeOK
      <3>4. CASE StartStep \/ StopOrDestroy
        BY <2>4, <3>4, StartStepBox, StopOrDestroyBox
      <3>5. ASSUME NEW s \in Sessions, OnStop(s)
            PROVE  /\ projection' = Token
                   /\ Token \notin registered' \cup stopped' \cup looping' /\ at'[Token] = "idle"
        <4>1. s # Token
          BY <3>2, <3>5 DEF OnStop
        <4>2. at'[Token] = at[Token]
          BY <1>1, <2>2, <3>5, <4>1, OnStopBox
        <4> QED
          BY <3>2, <3>5, <4>2 DEF OnStop
      <3>6. ASSUME NEW t \in Threads, TearStep(t)
            PROVE  /\ projection' = Token
                   /\ Token \notin registered' \cup stopped' \cup looping' /\ at'[Token] = "idle"
        <4>1. t # Token /\ t # Main
          BY <3>1, <3>2, <3>6, TearStepBox DEF Tearing
        <4>2. at'[Token] = at[Token]
          BY <1>1, <2>2, <3>6, <4>1, TearStepBox
        <4>3. projection' = projection
          <5>1. ASSUME ClearProjection(t) PROVE FALSE
            <6>1. at[t] = "clear" /\ t \in Sessions
              BY <4>1, <5>1 DEF ClearProjection, Threads
            <6>2. mine[t] = Token /\ mine[t] = t
              BY <2>2, <3>2, <6>1 DEF Handover, ClearsWhatItRead, ReadsItsOwn
            <6> QED
              BY <4>1, <6>2
          <5> QED
            BY <3>6, <5>1 DEF TearStep, ClearRunning, Close, Quit
        <4>4. registered' \subseteq registered /\ stopped' = stopped /\ looping' \subseteq looping
          BY <3>6 DEF TearStep, ClearProjection, ClearRunning, Close, Quit
        <4> QED
          BY <3>2, <4>2, <4>3, <4>4
      <3>7. ASSUME NEW t \in Threads, RecordEnded(t)
            PROVE  /\ projection' = Token
                   /\ Token \notin registered' \cup stopped' \cup looping' /\ at'[Token] = "idle"
        <4>1. t # Token /\ at'[Token] = at[Token]
          BY <1>1, <2>2, <3>2, <3>7, RecordEndedBox
        <4> QED
          BY <3>2, <3>7, <4>1 DEF RecordEnded
      <3>8. CASE OtherStep
        <4>1. /\ UNCHANGED <<projection, registered, looping>>
              /\ stopped' \subseteq stopped \cup registered
          BY <3>8 DEF OtherStep, Consent, Disarm, Arm, Refresh, Tick, Revoke, GateFrame, HandOn,
                      Frame, control
        <4>2. at'[Token] = "idle"
          <5>1. ASSUME NEW u \in Sessions,
                       GateFrame(u) \/ HandOn(u) \/ \E plane \in Planes : Frame(u, plane)
                PROVE  at'[Token] = at[Token]
            <6>1. u # Token
              BY <3>2, <5>1 DEF GateFrame, HandOn, Frame
            <6> QED
              BY <1>1, <2>2, <5>1, <6>1, FrameMoves
          <5>2. ASSUME \/ \E sent \in BOOLEAN : Consent(sent)
                       \/ Disarm \/ Arm \/ Refresh \/ Tick \/ \E u \in Sessions : Revoke(u)
                PROVE  at'[Token] = at[Token]
            BY <5>2 DEF Consent, Disarm, Arm, Refresh, Tick, Revoke, control
          <5> QED
            BY <3>2, <3>8, <5>1, <5>2 DEF OtherStep
        <4> QED
          BY <3>2, <4>1, <4>2
      <3> QED
        BY <3>3, <3>4, <3>5, <3>6, <3>7, <3>8, StepsOfNext
    <2> QED
      BY <2>2, <2>3, <2>4 DEF BeingRegistered
  <1> QED
    BY <1>2, <1>3

\* The field is set by begin and cleared by teardown, and by nothing else.
LEMMA ProjectionMoves ==
  ASSUME Control, Next
  PROVE  \/ projection' = projection
         \/ Begin /\ projection = None /\ projection' = Token
         \/ \E t \in Threads : ClearProjection(t) /\ projection' = None
  <1> USE DEF fields
  <1>1. CASE BeginStep
    BY <1>1 DEF BeginStep, Begin, Register, MakeReader, MakeDisplay, SetRunning, CheckDisplay
  <1>2. CASE StartStep
    BY <1>2 DEF StartStep, StartRefused, NoProjection, AlreadyCapturing, RecordStarted,
                CheckDisplay
  <1>3. CASE StopOrDestroy
    BY <1>3 DEF StopOrDestroy
  <1>4. ASSUME NEW s \in Sessions, OnStop(s) PROVE projection' = projection
    BY <1>4 DEF OnStop
  <1>5. ASSUME NEW t \in Threads, TearStep(t)
        PROVE  projection' = projection \/ (ClearProjection(t) /\ projection' = None)
    BY <1>5 DEF TearStep, ClearProjection, ClearRunning, Close, Quit
  <1>6. ASSUME NEW t \in Threads, RecordEnded(t) PROVE projection' = projection
    BY <1>6 DEF RecordEnded
  <1>7. CASE OtherStep
    BY <1>7 DEF OtherStep, Consent, Disarm, Arm, Refresh, Tick, Revoke, GateFrame, HandOn, Frame
  <1> QED
    BY <1>1, <1>2, <1>3, <1>4, <1>5, <1>6, <1>7, StepsOfNext

\* A thread whose teardown begins has read the field.
Reads(t) ==
  /\ at[t] = "idle" /\ at'[t] = "clear"
  /\ mine'[t] = projection /\ projection # None /\ projection' = projection
  /\ t \in stopped \/ (t = Main /\ Finished)

\* What a step of anyone does to the teardown of a thread.
TornMoves(t) ==
  \/ at'[t] = at[t] /\ (mine'[t] = mine[t] \/ at[t] = "idle")
  \/ at[t] \notin Tearing /\ at'[t] \notin Tearing
  \/ Reads(t)
  \/ ClearProjection(t) /\ at'[t] = "unset" /\ mine'[t] = mine[t]
  \/ ClearRunning(t) /\ at'[t] = "close" /\ mine'[t] = mine[t]
  \/ Close(t) /\ at'[t] = "quit" /\ mine'[t] = mine[t]
  \/ Quit(t) /\ at'[t] = "log" /\ mine'[t] = mine[t]
  \/ RecordEnded(t) /\ at'[t] = "idle"

\* What a step of any thread does to the projection it has in hand.
LEMMA ThreadSteps ==
  ASSUME Control, Next, NEW t \in Threads
  PROVE  TornMoves(t)
  <1>1. /\ Main \in Threads /\ Main \notin Sessions /\ Sessions \subseteq Threads
        /\ at \in [Threads -> Steps] /\ (t = Main \/ t \in Sessions)
    BY Ranges DEF Threads
  <1>2. mine \in [Threads -> Sessions \cup {None}]
    BY TypeParts DEF Control
  <1> USE DEF fields
  <1>3. CASE BeginStep
    <2>1. mine' = mine
      BY <1>3 DEF BeginStep, Begin, Register, MakeReader, MakeDisplay, SetRunning, CheckDisplay
    <2>2. CASE t = Main
      <3>1. at'[t] \in Beginning /\ at[t] \in Beginning \cup {"idle"}
        BY <1>3, <2>2, BeginStepBox
        DEF BeginStep, Begin, Register, MakeReader, MakeDisplay, SetRunning, CheckDisplay, Handles,
            Beginning
      <3> QED
        BY <3>1 DEF TornMoves, Tearing, Beginning
    <2>3. CASE t \in Sessions
      BY <1>3, <2>1, <2>3, BeginStepBox DEF TornMoves
    <2> QED
      BY <1>1, <2>2, <2>3
  <1>4. CASE StartStep
    <2>1. mine' = mine
      BY <1>4 DEF StartStep, StartRefused, NoProjection, AlreadyCapturing, RecordStarted,
                  CheckDisplay
    <2>2. CASE t = Main
      <3>1. at'[t] = "idle" /\ at[t] \in Beginning \cup {"idle"}
        BY <1>4, <2>2, StartStepBox DEF Handles
      <3> QED
        BY <3>1 DEF TornMoves, Tearing, Beginning
    <2>3. CASE t \in Sessions
      BY <1>4, <2>1, <2>3, StartStepBox DEF TornMoves
    <2> QED
      BY <1>1, <2>2, <2>3
  <1>5. CASE StopOrDestroy
    <2>1. mine' = [mine EXCEPT ![Main] = projection] /\ projection' = projection
      BY <1>5 DEF StopOrDestroy, Teardown
    <2>2. CASE t = Main
      <3>1. at[t] = "idle" /\ at'[t] = (IF projection = None THEN "idle" ELSE "clear") /\ Finished
        BY <1>5, <2>2, StopOrDestroyBox
      <3>2. mine'[t] = projection
        BY <1>1, <1>2, <2>1, <2>2
      <3> QED
        BY <2>1, <2>2, <3>1, <3>2 DEF TornMoves, Reads
    <2>3. CASE t \in Sessions
      <3>1. at'[t] = at[t] /\ mine'[t] = mine[t]
        BY <1>1, <1>2, <1>5, <2>1, <2>3, StopOrDestroyBox
      <3> QED
        BY <3>1 DEF TornMoves
    <2> QED
      BY <1>1, <2>2, <2>3
  <1>6. ASSUME NEW s \in Sessions, OnStop(s) PROVE TornMoves(t)
    <2>1. /\ mine' = [mine EXCEPT ![s] = projection] /\ projection' = projection
          /\ s \in stopped
      BY <1>6 DEF OnStop, Teardown
    <2>2. CASE t = s
      <3>1. at[t] = "idle" /\ at'[t] = IF projection = None THEN "idle" ELSE "clear"
        BY <1>6, <2>2, OnStopBox
      <3>2. mine'[t] = projection
        BY <1>1, <1>2, <2>1, <2>2
      <3> QED
        BY <2>1, <2>2, <3>1, <3>2 DEF TornMoves, Reads
    <2>3. CASE t # s
      <3>1. at'[t] = at[t] /\ mine'[t] = mine[t]
        BY <1>1, <1>2, <1>6, <2>1, <2>3, OnStopBox
      <3> QED
        BY <3>1 DEF TornMoves
    <2> QED
      BY <2>2, <2>3
  <1>7. ASSUME NEW u \in Threads, TearStep(u) PROVE TornMoves(t)
    <2>1. mine' = mine
      BY <1>7 DEF TearStep, ClearProjection, ClearRunning, Close, Quit
    <2>2. CASE t = u
      <3>1. ASSUME ClearProjection(u) PROVE TornMoves(t)
        <4>1. at'[u] = "unset"
          BY <1>1, <3>1 DEF ClearProjection, Go
        <4> QED
          BY <2>1, <2>2, <3>1, <4>1 DEF TornMoves
      <3>2. ASSUME ClearRunning(u) PROVE TornMoves(t)
        <4>1. at'[u] = "close"
          BY <1>1, <3>2 DEF ClearRunning, Go
        <4> QED
          BY <2>1, <2>2, <3>2, <4>1 DEF TornMoves
      <3>3. ASSUME Close(u) PROVE TornMoves(t)
        <4>1. at'[u] = "quit"
          BY <1>1, <3>3 DEF Close, Go
        <4> QED
          BY <2>1, <2>2, <3>3, <4>1 DEF TornMoves
      <3>4. ASSUME Quit(u) PROVE TornMoves(t)
        <4>1. at'[u] = "log"
          BY <1>1, <3>4 DEF Quit, Go
        <4> QED
          BY <2>1, <2>2, <3>4, <4>1 DEF TornMoves
      <3> QED
        BY <1>7, <3>1, <3>2, <3>3, <3>4 DEF TearStep
    <2>3. CASE t # u
      BY <1>7, <2>1, <2>3, TearStepBox DEF TornMoves
    <2> QED
      BY <2>2, <2>3
  <1>8. ASSUME NEW u \in Threads, RecordEnded(u) PROVE TornMoves(t)
    <2>1. CASE t = u
      BY <1>8, <2>1, RecordEndedBox DEF TornMoves
    <2>2. CASE t # u
      <3>1. at'[t] = at[t] /\ mine'[t] = mine[t]
        BY <1>2, <1>8, <2>2, RecordEndedBox DEF RecordEnded
      <3> QED
        BY <3>1 DEF TornMoves
    <2> QED
      BY <2>1, <2>2
  <1>9. CASE OtherStep
    <2>1. mine' = mine
      BY <1>9 DEF OtherStep, Consent, Disarm, Arm, Refresh, Tick, Revoke, GateFrame, HandOn, Frame,
                  control
    <2>2. CASE at'[t] = at[t]
      BY <2>1, <2>2 DEF TornMoves
    <2>3. CASE at'[t] # at[t]
      <3>1. {at[t], at'[t]} \subseteq {"idle", "gate", "handed"}
        BY <1>1, <1>9, <2>3, OtherStepBox
      <3> QED
        BY <3>1 DEF TornMoves, Tearing
    <2> QED
      BY <2>2, <2>3
  <1> QED
    BY <1>3, <1>4, <1>5, <1>6, <1>7, <1>8, <1>9, StepsOfNext

\* While a thread is about to clear the field, no session begins.
LEMMA NoBeginWhileClearing ==
  ASSUME Control, Handover, NEW t \in Threads, at[t] = "clear", Begin
  PROVE  FALSE
  <1>1. projection = None
    BY DEF Begin
  <1>2. Finished
    BY <1>1 DEF Handover, ClearedTwice
  <1>3. ~Finished
    BY BeginningToken DEF Begin
  <1> QED
    BY <1>2, <1>3

\* A teardown clears the projection it read, or one already cleared.
LEMMA ClearsNext ==
  ASSUME Control, Handover, Next
  PROVE  ClearsWhatItRead'
  <1> SUFFICES ASSUME NEW t \in Threads, at'[t] = "clear"
               PROVE  projection' \in {None, mine'[t]} /\ mine'[t] # None
    BY DEF ClearsWhatItRead
  <1>1. CASE at[t] = "clear" /\ mine'[t] = mine[t]
    <2>1. projection \in {None, mine[t]} /\ mine[t] # None
      BY <1>1 DEF Handover, ClearsWhatItRead
    <2>2. projection' \in {projection, None}
      BY <1>1, ProjectionMoves, NoBeginWhileClearing
    <2> QED
      BY <1>1, <2>1, <2>2
  <1>2. CASE Reads(t)
    BY <1>2 DEF Reads
  <1> QED
    BY <1>1, <1>2, ThreadSteps DEF TornMoves, Tearing

\* The field is cleared under a teardown only when the service was told to end.
LEMMA ClearedNext ==
  ASSUME Control, Handover, Next
  PROVE  ClearedTwice'
  <1> SUFFICES ASSUME NEW t \in Threads, at'[t] = "clear", projection' = None
               PROVE  Finished'
    BY DEF ClearedTwice
  <1>1. Finished => Finished'
    BY BoxAlways DEF BoxKept
  <1>2. CASE Reads(t)
    BY <1>2 DEF Reads
  <1>3. CASE at[t] = "clear"
    <2>1. CASE projection = None
      BY <1>1, <1>3, <2>1 DEF Handover, ClearedTwice
    <2>2. CASE projection # None
      <3>1. PICK u \in Threads : ClearProjection(u)
        BY <1>3, <2>2, ProjectionMoves, NoBeginWhileClearing
      <3>2. at[u] = "clear" /\ at'[u] = "unset"
        BY <3>1, Ranges DEF ClearProjection, Go
      <3>3. u # t
        BY <3>2
      <3>4. CASE u = Main \/ t = Main
        BY <1>1, <1>3, <3>2, <3>4, EndingIsFinished DEF Tearing
      <3>5. CASE u # Main /\ t # Main
        <4>1. u \in Sessions /\ t \in Sessions
          BY <3>5 DEF Threads
        <4>2. (mine[u] = u /\ mine[t] = t) \/ Finished
          BY <1>3, <3>2, <4>1 DEF Handover, ReadsItsOwn
        <4>3. projection = mine[u] /\ projection = mine[t]
          BY <1>3, <2>2, <3>2 DEF Handover, ClearsWhatItRead
        <4> QED
          BY <1>1, <3>3, <4>2, <4>3
      <3> QED
        BY <3>4, <3>5
    <2> QED
      BY <2>1, <2>2
  <1> QED
    BY <1>2, <1>3, ThreadSteps DEF TornMoves, Tearing

\* A session's thread tears its own session down.
LEMMA ReadsNext ==
  ASSUME Control, Lives, Handover, Next
  PROVE  ReadsItsOwn'
  <1> SUFFICES ASSUME NEW s \in Sessions, at'[s] = "clear"
               PROVE  mine'[s] = s \/ Finished'
    BY DEF ReadsItsOwn
  <1>1. Finished => Finished'
    BY BoxAlways DEF BoxKept
  <1>2. s \in Threads /\ s # Main
    BY Ranges
  <1>3. CASE at[s] = "clear" /\ mine'[s] = mine[s]
    BY <1>1, <1>3 DEF Handover, ReadsItsOwn
  <1>4. CASE Reads(s)
    <2>1. s \in stopped /\ at[s] = "idle" /\ mine'[s] = projection
      BY <1>2, <1>4 DEF Reads
    <2>2. projection = s \/ Finished
      BY <2>1 DEF Handover, HearsItsOwn, Held
    <2> QED
      BY <1>1, <2>1, <2>2
  <1> QED
    BY <1>2, <1>3, <1>4, ThreadSteps DEF TornMoves, Tearing

\* A callback is registered, and heard, once.
LEMMA Registers ==
  ASSUME Control, Next
  PROVE  stopped' \cup registered' \subseteq
           stopped \cup registered \cup {s \in {Token} : at[Main] = "register" /\ Register}
  <1> USE DEF android
  <1>1. CASE BeginStep
    BY <1>1 DEF BeginStep, Begin, Register, MakeReader, MakeDisplay, SetRunning, CheckDisplay
  <1>2. CASE StartStep
    BY <1>2 DEF StartStep, StartRefused, NoProjection, AlreadyCapturing, RecordStarted,
                CheckDisplay
  <1>3. CASE StopOrDestroy
    BY <1>3 DEF StopOrDestroy
  <1>4. ASSUME NEW s \in Sessions, OnStop(s)
        PROVE  stopped' \cup registered' \subseteq stopped \cup registered
    BY <1>4 DEF OnStop
  <1>5. ASSUME NEW t \in Threads, TearStep(t) \/ RecordEnded(t)
        PROVE  stopped' \cup registered' \subseteq stopped \cup registered
    BY <1>5 DEF TearStep, ClearProjection, ClearRunning, Close, Quit, RecordEnded
  <1>6. CASE OtherStep
    BY <1>6 DEF OtherStep, Consent, Disarm, Arm, Refresh, Tick, Revoke, GateFrame, HandOn, Frame
  <1> QED
    BY <1>1, <1>2, <1>3, <1>4, <1>5, <1>6, StepsOfNext

\* Whoever has a projection in hand keeps it until it is released.
LEMMA HeldNext ==
  ASSUME Control, Next, NEW t \in Threads, NEW s \in Sessions, Held(t, s)
  PROVE  Held(t, s)' \/ (Close(t) /\ mine[t] = s)
BY ThreadSteps DEF Held, TornMoves, Tearing, Reads, RecordEnded, Quit

\* Nor is one lost between the field and the hand.
LEMMA TakenNext ==
  ASSUME Control, Handover, Next, NEW s \in Sessions, projection = s
  PROVE  projection' = s \/ \E t \in Threads : ClearProjection(t) /\ mine[t] = s /\ Held(t, s)'
  <1>1. s # None
    BY Ranges
  <1>2. CASE \E t \in Threads : ClearProjection(t)
    <2>1. PICK t \in Threads : ClearProjection(t)
      BY <1>2
    <2>2. mine[t] = s
      BY <1>1, <2>1 DEF Handover, ClearsWhatItRead, ClearProjection
    <2>3. at'[t] = "unset" /\ mine'[t] = mine[t]
      BY <2>1, Ranges DEF ClearProjection, Go
    <2> QED
      BY <2>1, <2>2, <2>3 DEF Held
  <1> QED
    BY <1>1, <1>2, ProjectionMoves

\* A session that will hear of its end still has its projection to release.
LEMMA HearsNext ==
  ASSUME Control, Lives, Handover, Next
  PROVE  HearsItsOwn'
  <1> SUFFICES ASSUME NEW s \in stopped' \cup registered'
               PROVE  projection' = s \/ Held(s, s)' \/ Finished'
    BY DEF HearsItsOwn
  <1>1. Finished => Finished'
    BY BoxAlways DEF BoxKept
  <1>2. stopped \subseteq Sessions /\ registered \subseteq Sessions
    BY TypeParts DEF Control
  <1>3. CASE s \in stopped \cup registered
    <2>1. s \in Sessions /\ s \in Threads /\ s # Main
      BY <1>2, <1>3, Ranges
    <2>2. projection = s \/ Held(s, s) \/ Finished
      BY <1>3 DEF Handover, HearsItsOwn
    <2>3. CASE Held(s, s)
      <3>1. Held(s, s)' \/ (Close(s) /\ mine[s] = s)
        BY <2>1, <2>3, HeldNext
      <3>2. ~(Close(s) /\ mine[s] = s)
        <4> SUFFICES ASSUME Close(s), mine[s] = s PROVE FALSE
          OBVIOUS
        <4>1. s \notin registered' /\ stopped' = stopped /\ at[s] \in Tearing
          BY DEF Close, Tearing
        <4>2. s \notin stopped
          BY <2>1, <4>1 DEF Lives, HeardOnce
        <4> QED
          BY <4>1, <4>2
      <3> QED
        BY <3>1, <3>2
    <2>4. CASE projection = s
      <3>1. CASE projection' = s
        BY <3>1
      <3>2. ASSUME NEW t \in Threads, ClearProjection(t), mine[t] = s, Held(t, s)'
            PROVE  Held(s, s)' \/ Finished
        <4>1. CASE t = Main
          BY <3>2, <4>1, EndingIsFinished DEF ClearProjection, Tearing
        <4>2. CASE t # Main
          <5>1. t \in Sessions
            BY <4>2 DEF Threads
          <5>2. mine[t] = t \/ Finished
            BY <3>2, <5>1 DEF Handover, ReadsItsOwn, ClearProjection
          <5> QED
            BY <3>2, <5>2
        <4> QED
          BY <4>1, <4>2
      <3> QED
        BY <1>1, <2>1, <2>4, <3>1, <3>2, TakenNext
    <2> QED
      BY <1>1, <2>2, <2>3, <2>4
  <1>4. CASE s = Token /\ at[Main] = "register" /\ Register
    <2>1. projection = Token /\ projection' = projection
      BY <1>4 DEF Lives, BeingRegistered, Register
    <2> QED
      BY <1>4, <2>1
  <1> QED
    BY <1>3, <1>4, Registers

\* A live projection is in the field or in the hand of who will release it.
LEMMA LiveNext ==
  ASSUME Control, Lives, Handover, Next
  PROVE  LiveIsHeld'
  <1> SUFFICES ASSUME NEW s \in Sessions, media'[s] = "live"
               PROVE  projection' = s \/ \E t \in Threads : Held(t, s)'
    BY DEF LiveIsHeld
  <1>1. CASE media[s] = "live"
    <2>1. CASE projection = s
      BY <2>1, TakenNext
    <2>2. ASSUME NEW t \in Threads, Held(t, s) PROVE Held(t, s)'
      <3>1. ~(Close(t) /\ mine[t] = s)
        BY TypeParts DEF Close, Control
      <3> QED
        BY <2>2, <3>1, HeldNext
    <2> QED
      BY <1>1, <2>1, <2>2 DEF Handover, LiveIsHeld
  <1>2. CASE Begin /\ s = Token
    BY <1>2 DEF Begin
  <1> QED
    BY <1>1, <1>2, MediaMoves

\* A service that is gone left the field empty.
LEMMA GoneNext ==
  ASSUME Control, Handover, Next
  PROVE  GoneIsClear'
  <1> SUFFICES ASSUME ~up' PROVE projection' = None /\ at'[Main] = "idle"
    BY DEF GoneIsClear
  <1>1. Main \in Threads /\ Main \notin Sessions
    BY Ranges
  <1>2. CASE ~up
    <2>1. projection = None /\ at[Main] = "idle"
      BY <1>2 DEF Handover, GoneIsClear
    <2>2. ~Begin /\ ~StopOrDestroy
      BY <1>2 DEF Begin, StopOrDestroy, Handles
    <2>3. projection' = None
      BY <2>1, <2>2, ProjectionMoves
    <2>4. at'[Main] = "idle"
      <3>1. CASE BeginStep
        BY <1>2, <3>1
        DEF BeginStep, Begin, Register, MakeReader, MakeDisplay, SetRunning, CheckDisplay, Handles,
            Handover, GoneIsClear
      <3>2. CASE StartStep
        BY <3>2, StartStepBox
      <3>3. ASSUME NEW s \in Sessions, OnStop(s) PROVE at'[Main] = at[Main]
        BY <1>1, <3>3, OnStopBox
      <3>4. ASSUME NEW t \in Threads, TearStep(t) \/ RecordEnded(t) PROVE at'[Main] = at[Main]
        BY <1>1, <2>1, <3>4, TearStepBox, RecordEndedBox DEF Tearing
      <3>5. CASE OtherStep
        BY <2>1, <3>5, OtherStepBox
      <3> QED
        BY <2>1, <2>2, <3>1, <3>2, <3>3, <3>4, <3>5, StepsOfNext
    <2> QED
      BY <2>3, <2>4
  <1>3. CASE up
    <2>1. CASE StopOrDestroy
      <3>1. projection = None /\ at'[Main] = "idle"
        BY <1>3, <2>1, StopOrDestroyBox
      <3> QED
        BY <2>1, <3>1 DEF StopOrDestroy, fields
    <2>2. ASSUME NEW t \in Threads, RecordEnded(t) PROVE projection' = None /\ at'[Main] = "idle"
      <3>1. t = Main
        BY <1>3, <2>2, RecordEndedBox
      <3>2. at[Main] = "log" /\ at'[Main] = "idle"
        BY <2>2, <3>1, RecordEndedBox
      <3>3. projection = None
        BY <3>2 DEF Handover, MainCleared, Tearing
      <3> QED
        BY <2>2, <3>2, <3>3 DEF RecordEnded, fields
    <2>3. ASSUME BeginStep \/ StartStep PROVE up' = up
      BY <2>3
      DEF BeginStep, Begin, Register, MakeReader, MakeDisplay, SetRunning, CheckDisplay, StartStep,
          StartRefused, NoProjection, AlreadyCapturing, RecordStarted
    <2>4. ASSUME NEW s \in Sessions, OnStop(s) PROVE up' = up
      BY <2>4, OnStopBox
    <2>5. ASSUME NEW t \in Threads, TearStep(t) PROVE up' = up
      BY <2>5 DEF TearStep, ClearProjection, ClearRunning, Close, Quit
    <2>6. OtherStep => up' = up
      BY OtherStepBox
    <2> QED
      BY <1>3, <2>1, <2>2, <2>3, <2>4, <2>5, <2>6, StepsOfNext
  <1> QED
    BY <1>2, <1>3

\* Behind its clearing the main thread finds the field empty.
LEMMA MainClearedNext ==
  ASSUME Control, Handover, Next
  PROVE  MainCleared'
  <1> SUFFICES ASSUME at'[Main] \in Tearing \ {"clear"} PROVE projection' = None
    BY DEF MainCleared
  <1>1. Main \in Threads
    BY Ranges
  <1>2. CASE ClearProjection(Main)
    BY <1>2 DEF ClearProjection
  <1>3. CASE at[Main] \in Tearing \ {"clear"}
    <2>1. projection = None
      BY <1>3 DEF Handover, MainCleared
    <2>2. ~Begin
      BY <1>3 DEF Begin, Handles, Tearing
    <2> QED
      BY <2>1, <2>2, ProjectionMoves
  <1> QED
    BY <1>1, <1>2, <1>3, ThreadSteps
    DEF TornMoves, Tearing, Reads, ClearRunning, Close, Quit

\* No handover of a projection from a thread to another loses it.
LEMMA HandoverNext ==
  ASSUME Control, Lives, Handover, Next
  PROVE  Handover'
BY ClearsNext, ClearedNext, ReadsNext, HearsNext, LiveNext, GoneNext, MainClearedNext
DEF Handover

-----------------------------------------------------------------------------
(* Every session on record as started is one that is being begun or torn down, *)
(* or that nobody has claimed yet, or has its end on record.                   *)

\* The threads in teardown can be counted.
LEMMA EndingCount ==
  /\ IsFiniteSet(Ending) /\ Cardinality(Ending) \in Nat
  /\ BeginningNow \in {0, 1} /\ Unclaimed \in {0, 1}
  <1>1. IsFiniteSet(Sessions)
    BY BoundsAssumption, FS_Interval DEF Sessions
  <1>2. IsFiniteSet(Threads)
    BY <1>1, FS_AddElement DEF Threads
  <1>3. Ending \subseteq Threads
    BY DEF Ending
  <1>4. IsFiniteSet(Ending)
    BY <1>2, <1>3, FS_Subset
  <1> QED
    BY <1>4, FS_CardinalityType DEF BeginningNow, Unclaimed

\* So can they after a step.
LEMMA EndingCountPrimed ==
  /\ IsFiniteSet(Ending') /\ Cardinality(Ending') \in Nat
  /\ BeginningNow' \in {0, 1} /\ Unclaimed' \in {0, 1}
  <1>1. IsFiniteSet(Sessions)
    BY BoundsAssumption, FS_Interval DEF Sessions
  <1>2. IsFiniteSet(Threads)
    BY <1>1, FS_AddElement DEF Threads
  <1>3. Ending' \subseteq Threads
    BY DEF Ending
  <1>4. IsFiniteSet(Ending')
    BY <1>2, <1>3, FS_Subset
  <1> QED
    BY <1>4, FS_CardinalityType DEF BeginningNow, Unclaimed

\* A step that neither begins, ends nor claims keeps the count.
LEMMA CountSame ==
  ASSUME EveryStartEnds, Control, started' = started, ended' = ended, Ending' = Ending,
         BeginningNow' <= BeginningNow, Unclaimed' >= Unclaimed
  PROVE  EveryStartEnds'
  <1>1. started \in Nat /\ ended \in Nat
    BY TypeParts DEF Control
  <1> HIDE DEF Ending, BeginningNow, Unclaimed
  <1> QED
    BY <1>1, EndingCount, EndingCountPrimed DEF EveryStartEnds

\* The field is left alone and nobody claims it.
LEMMA UnclaimedStays ==
  ASSUME projection' = projection, \A t \in Threads : at'[t] = "clear" => at[t] = "clear"
  PROVE  Unclaimed' >= Unclaimed
BY DEF Unclaimed

\* No step leaves a start without an end to come.
LEMMA StartEndsNext ==
  ASSUME Control, Lives, Handover, EveryStartEnds, Next
  PROVE  EveryStartEnds'
  <1>1. /\ Main \in Threads /\ Main \notin Sessions /\ Sessions \subseteq Threads
        /\ \A t \in Threads : t = Main \/ t \in Sessions
    BY Ranges DEF Threads
  <1>2. started \in Nat /\ ended \in Nat
    BY TypeParts DEF Control
  <1> USE DEF fields, log
  <1>3. CASE Begin
    <2>1. /\ at[Main] = "idle" /\ at'[Main] \in Beginning /\ \A s \in Sessions : at'[s] = at[s]
          /\ projection = None /\ projection' = Token /\ Token # None
          /\ started' = started /\ ended' = ended
      BY <1>3, BeginStepBox, BeginningToken DEF Begin, BeginStep, Handles
    <2>2. Ending' = Ending
      BY <1>1, <2>1 DEF Ending, Tearing, Beginning
    <2>3. BeginningNow = 0 /\ BeginningNow' = 1
      BY <2>1 DEF BeginningNow, Beginning
    <2>4. \A t \in Threads : at'[t] # "clear"
      <3>1. \A t \in Threads : at[t] # "clear"
        BY <1>3, NoBeginWhileClearing
      <3> QED
        BY <1>1, <2>1, <3>1 DEF Beginning
    <2>5. Unclaimed = 0 /\ Unclaimed' = 1
      BY <2>1, <2>4 DEF Unclaimed
    <2> HIDE DEF Ending, BeginningNow, Unclaimed
    <2> QED
      BY <1>2, <2>1, <2>2, <2>3, <2>5, EndingCount DEF EveryStartEnds
  <1>4. CASE BeginStep /\ ~Begin
    <2>1. /\ at'[Main] \in Beginning /\ at[Main] \in Beginning
          /\ \A s \in Sessions : at'[s] = at[s]
      BY <1>4, BeginStepBox
      DEF BeginStep, Register, MakeReader, MakeDisplay, SetRunning, CheckDisplay, Beginning
    <2>2. projection' = projection /\ started' = started /\ ended' = ended
      BY <1>4 DEF BeginStep, Register, MakeReader, MakeDisplay, SetRunning, CheckDisplay
    <2>3. Ending' = Ending
      BY <1>1, <2>1 DEF Ending, Tearing, Beginning
    <2>4. BeginningNow' <= BeginningNow
      BY <2>1 DEF BeginningNow
    <2>5. Unclaimed' >= Unclaimed
      BY <1>1, <2>1, <2>2, UnclaimedStays DEF Beginning
    <2> QED
      BY <2>2, <2>3, <2>4, <2>5, CountSame
  <1>5. CASE StartStep
    <2>1. /\ at'[Main] = "idle" /\ at[Main] \in Beginning \cup {"idle"}
          /\ \A s \in Sessions : at'[s] = at[s]
      BY <1>5, StartStepBox DEF Handles
    <2>2. projection' = projection /\ ended' = ended
      BY <1>5 DEF StartStep, StartRefused, NoProjection, AlreadyCapturing, RecordStarted,
                  CheckDisplay
    <2>3. Ending' = Ending
      BY <1>1, <2>1 DEF Ending, Tearing, Beginning
    <2>4. BeginningNow' = 0
      BY <2>1 DEF BeginningNow, Beginning
    <2>5. Unclaimed' >= Unclaimed
      BY <1>1, <2>1, <2>2, UnclaimedStays
    <2>6. CASE RecordStarted
      <3>1. started' = started + 1 /\ BeginningNow = 1
        BY <2>6 DEF RecordStarted, BeginningNow, Beginning
      <3> HIDE DEF Ending, BeginningNow, Unclaimed
      <3> QED
        BY <1>2, <2>2, <2>3, <2>4, <2>5, <3>1, EndingCount, EndingCountPrimed DEF EveryStartEnds
    <2>7. CASE ~RecordStarted
      <3>1. started' = started
        BY <1>5, <2>7 DEF StartStep, StartRefused, NoProjection, AlreadyCapturing, CheckDisplay
      <3>2. BeginningNow' <= BeginningNow
        BY <2>4, EndingCount
      <3> QED
        BY <2>2, <2>3, <2>5, <3>1, <3>2, CountSame
    <2> QED
      BY <2>6, <2>7
  <1>6. ASSUME NEW t \in Threads,
               \/ t = Main /\ StopOrDestroy
               \/ t \in Sessions /\ OnStop(t)
        PROVE  EveryStartEnds'
    <2>1. /\ at[t] = "idle" /\ at'[t] = (IF projection = None THEN "idle" ELSE "clear")
          /\ \A u \in Threads : u # t => at'[u] = at[u]
      BY <1>1, <1>6, StopOrDestroyBox, OnStopBox
    <2>2. projection' = projection /\ started' = started /\ ended' = ended
      BY <1>6 DEF StopOrDestroy, OnStop
    <2>3. BeginningNow' <= BeginningNow
      BY <1>1, <2>1 DEF BeginningNow, Beginning
    <2>4. CASE projection = None
      <3>1. Ending' = Ending
        BY <2>1, <2>4 DEF Ending
      <3>2. Unclaimed' >= Unclaimed
        BY <2>1, <2>2, <2>4, UnclaimedStays
      <3> QED
        BY <2>2, <2>3, <3>1, <3>2, CountSame
    <2>5. CASE projection # None
      <3>1. Ending' = Ending \cup {t} /\ t \notin Ending
        BY <2>1, <2>5 DEF Ending, Tearing
      <3> HIDE DEF Ending, BeginningNow, Unclaimed
      <3>2. Cardinality(Ending') = Cardinality(Ending) + 1
        BY <3>1, EndingCount, FS_AddElement
      <3> QED
        BY <1>2, <2>2, <2>3, <3>2, EndingCount, EndingCountPrimed DEF EveryStartEnds
    <2> QED
      BY <2>4, <2>5
  <1>7. ASSUME NEW t \in Threads, TearStep(t) PROVE EveryStartEnds'
    <2>1. /\ at[t] \in Tearing /\ at'[t] \in Tearing \ {"clear"}
          /\ \A u \in Threads : u # t => at'[u] = at[u]
      BY <1>7, TearStepBox
    <2>2. started' = started /\ ended' = ended
      BY <1>7 DEF TearStep, ClearProjection, ClearRunning, Close, Quit
    <2>3. Ending' = Ending
      BY <2>1 DEF Ending
    <2>4. BeginningNow' <= BeginningNow
      BY <1>1, <2>1 DEF BeginningNow, Beginning, Tearing
    <2>5. Unclaimed' >= Unclaimed
      <3>1. CASE ClearProjection(t)
        BY <3>1, EndingCountPrimed DEF ClearProjection, Unclaimed
      <3>2. CASE ~ClearProjection(t)
        <4>1. projection' = projection
          BY <1>7, <3>2 DEF TearStep, ClearRunning, Close, Quit
        <4> QED
          BY <2>1, <4>1, UnclaimedStays
      <3> QED
        BY <3>1, <3>2
    <2> QED
      BY <2>2, <2>3, <2>4, <2>5, CountSame
  <1>8. ASSUME NEW t \in Threads, RecordEnded(t) PROVE EveryStartEnds'
    <2>1. /\ at[t] = "log" /\ at'[t] = "idle"
          /\ \A u \in Threads : u # t => at'[u] = at[u]
      BY <1>8, RecordEndedBox
    <2>2. projection' = projection /\ started' = started /\ ended' = ended + 1
      BY <1>8 DEF RecordEnded
    <2>3. BeginningNow' <= BeginningNow
      BY <1>1, <2>1 DEF BeginningNow, Beginning
    <2>4. Unclaimed' >= Unclaimed
      BY <2>1, <2>2, UnclaimedStays
    <2>5. Ending' = Ending \ {t} /\ t \in Ending
      BY <2>1 DEF Ending, Tearing
    <2> HIDE DEF Ending, BeginningNow, Unclaimed
    <2>6. Cardinality(Ending') = Cardinality(Ending) - 1
      BY <2>5, EndingCount, FS_RemoveElement
    <2> QED
      BY <1>2, <2>2, <2>3, <2>4, <2>6, EndingCount, EndingCountPrimed DEF EveryStartEnds
  <1>9. CASE OtherStep
    <2>1. /\ at'[Main] = at[Main]
          /\ \A s \in Sessions : at'[s] # at[s] =>
               {at[s], at'[s]} \subseteq {"idle", "gate", "handed"}
      BY <1>9, OtherStepBox
    <2>2. projection' = projection /\ started' = started /\ ended' = ended
      BY <1>9 DEF OtherStep, Consent, Disarm, Arm, Refresh, Tick, Revoke, GateFrame, HandOn, Frame
    <2>3. \A t \in Threads : (at'[t] \in Tearing <=> at[t] \in Tearing)
                               /\ (at'[t] = "clear" => at[t] = "clear")
      BY <1>1, <2>1 DEF Tearing
    <2>4. Ending' = Ending
      BY <2>3 DEF Ending
    <2>5. BeginningNow' <= BeginningNow
      BY <2>1 DEF BeginningNow
    <2>6. Unclaimed' >= Unclaimed
      BY <2>2, <2>3, UnclaimedStays
    <2> QED
      BY <2>2, <2>4, <2>5, <2>6, CountSame
  <1>10. CASE BeginStep
    BY <1>3, <1>4, <1>10
  <1>11. CASE StopOrDestroy
    BY <1>1, <1>6, <1>11
  <1>12. ASSUME NEW s \in Sessions, OnStop(s) PROVE EveryStartEnds'
    BY <1>1, <1>6, <1>12
  <1> QED
    BY <1>5, <1>7, <1>8, <1>9, <1>10, <1>11, <1>12, StepsOfNext

-----------------------------------------------------------------------------
(* Theorems about the screen capture *)

CaptureInv == Control /\ Lives /\ Handover /\ EveryStartEnds

\* The invariant holds before the first consent.
LEMMA CaptureInit ==
  ASSUME Init
  PROVE  CaptureInv
  <1>1. MaxSessions \in Nat \ {0} /\ None = 0 /\ Main = 0
    BY BoundsAssumption DEF None, Main
  <1>2. /\ inbox = <<>> /\ Len(inbox) = 0 /\ inbox \in Seq(Commands) /\ 1..0 = {}
    BY EmptySeq DEF Init
  <1>3. /\ at = [t \in Threads |-> "idle"] /\ Main \in Threads /\ Sessions \subseteq Threads
        /\ at[Main] = "idle" /\ \A t \in Threads : at[t] = "idle"
    BY DEF Init, Threads
  <1>4. TypeOK
    <2>1. at \in [Threads -> Steps]
      BY <1>3 DEF Steps
    <2>2. /\ media \in [Sessions -> {"unused", "live", "ended"}]
          /\ mine \in [Threads -> Sessions \cup {None}]
          /\ shot \in [Sessions -> Hashes \cup {NoFrame}]
      BY DEF Init
    <2>3. /\ consents \in 0..MaxSessions /\ started \in Nat /\ ended \in Nat
          /\ {projection, display, reader, frameThread} \subseteq Sessions \cup {None}
      BY <1>1 DEF Init
    <2>4. /\ isRunning \in BOOLEAN /\ guardActive \in BOOLEAN /\ up \in BOOLEAN
          /\ elapsed \in BOOLEAN
          /\ registered \subseteq Sessions /\ stopped \subseteq Sessions
          /\ looping \subseteq Sessions
          /\ baseline \in Hashes \cup {NoFrame} /\ accepted \in Hashes \cup {NoFrame}
      BY DEF Init
    <2> QED
      BY <1>2, <2>1, <2>2, <2>3, <2>4 DEF TypeOK, Commands
  <1>5. Orderly(inbox, consents) /\ Asked(inbox) = {}
    BY <1>2 DEF Orderly, StopsLast, AskedOnce, Asked
  <1>6. Control
    BY <1>3, <1>4, <1>5 DEF Control, MainBegins, MainEnds, Roles, Beginning, Tearing
  <1>7. Queued = inbox
    BY <1>3 DEF Queued, Beginning
  <1>8. Lives
    <2>1. FreshSessions
      BY <1>1, <1>3, <1>5, <1>7 DEF Init, FreshSessions, Untouched, Sessions
    <2> QED
      BY <1>3, <2>1 DEF Init, Lives, BeingRegistered, HeardOnce, Beginning, Tearing
  <1>9. Handover
    BY <1>3 DEF Init, Handover, ClearsWhatItRead, ClearedTwice, ReadsItsOwn, HearsItsOwn,
                LiveIsHeld, GoneIsClear, MainCleared, Tearing
  <1>10. EveryStartEnds
    <2>1. started = 0 /\ ended = 0 /\ BeginningNow = 0
      BY <1>3 DEF Init, BeginningNow, Beginning
    <2> HIDE DEF Ending, Unclaimed, BeginningNow
    <2> QED
      BY <2>1, EndingCount DEF EveryStartEnds
  <1> QED
    BY <1>6, <1>8, <1>9, <1>10 DEF CaptureInv

\* No step of the capture breaks its invariant.
LEMMA CaptureNext ==
  ASSUME CaptureInv, [Next]_vars
  PROVE  CaptureInv'
  <1>1. Control /\ Lives /\ Handover /\ EveryStartEnds
    BY DEF CaptureInv
  <1>2. CASE Next
    <2>1. Control'
      BY <1>1, ControlNext
    <2>2. Lives'
      BY <1>1, <1>2, FreshNext, HeardNext, RegisteredNext DEF Lives
    <2>3. Handover' /\ EveryStartEnds'
      BY <1>1, <1>2, HandoverNext, StartEndsNext
    <2> QED
      BY <2>1, <2>2, <2>3 DEF CaptureInv
  <1>3. CASE UNCHANGED vars
    <2>1. Control'
      BY <1>1, ControlNext
    <2>2. /\ UNCHANGED <<projection, media, registered, stopped, looping, started, ended>>
          /\ UNCHANGED <<at, mine, inbox, up, consents>>
      BY <1>3 DEF vars, fields, android, log, control
    <2>3. Lives'
      BY <1>1, <2>2
      DEF Lives, FreshSessions, Untouched, BeingRegistered, HeardOnce, Queued, Asked, Token
    <2>4. Handover'
      BY <1>1, <2>2
      DEF Handover, ClearsWhatItRead, ClearedTwice, ReadsItsOwn, HearsItsOwn, LiveIsHeld,
          GoneIsClear, MainCleared, Held, Finished, EndsFirst
    <2>5. EveryStartEnds'
      BY <1>1, <2>2 DEF EveryStartEnds, BeginningNow, Unclaimed, Ending
    <2> QED
      BY <2>1, <2>3, <2>4, <2>5 DEF CaptureInv
  <1> QED
    BY <1>2, <1>3

\* The invariant of the capture holds in every reachable state, for any number of consents.
THEOREM CaptureInvAlways == Spec => []CaptureInv
  <1>1. Init => CaptureInv
    BY CaptureInit
  <1>2. CaptureInv /\ [Next]_vars => CaptureInv'
    BY CaptureNext
  <1> QED
    BY <1>1, <1>2, PTL DEF Spec

\* Every field of the capture holds what its code can put there, a frame's hash included:
\* the bits DHash sets are bits of the grid, whatever the size of the picture.
THEOREM CaptureTypeCorrect == Spec => []TypeOK
  <1>1. CaptureInv => TypeOK
    BY DEF CaptureInv, Control
  <1> QED
    BY <1>1, CaptureInvAlways, PTL

\* However many consents are given and commands wait, and whichever threads tear a session
\* down at once, the service leaves no projection behind, and no start without an end.
THEOREM CaptureEndsWithService == Spec => []EndsWithService
  <1>1. ASSUME CaptureInv, Quiet
        PROVE  (\A s \in Sessions : media[s] # "live") /\ ended >= started
    <2>1. /\ Control /\ Handover /\ EveryStartEnds /\ ~up
          /\ \A t \in Threads : at[t] = "idle"
      BY <1>1 DEF CaptureInv, Quiet
    <2>2. projection = None /\ Main \in Threads /\ None \notin Sessions
      BY <2>1, Ranges DEF Handover, GoneIsClear
    <2>3. \A s \in Sessions : media[s] # "live"
      BY <2>1, <2>2 DEF Handover, LiveIsHeld, Held
    <2>4. BeginningNow = 0 /\ Unclaimed = 0
      BY <2>1, <2>2 DEF BeginningNow, Unclaimed, Beginning
    <2>5. Ending = {}
      BY <2>1 DEF Ending, Tearing
    <2>6. Cardinality(Ending) = 0
      BY <2>5, FS_EmptySet
    <2>7. started \in Nat /\ ended \in Nat
      BY <2>1, TypeParts DEF Control
    <2> HIDE DEF Ending, BeginningNow, Unclaimed
    <2>8. ended >= started
      BY <2>1, <2>4, <2>6, <2>7 DEF EveryStartEnds
    <2> QED
      BY <2>3, <2>8
  <1>2. CaptureInv => EndsWithService
    BY <1>1 DEF EndsWithService
  <1> QED
    BY <1>2, CaptureInvAlways, PTL

-----------------------------------------------------------------------------
(* Drift adds up. While one consent was given, the gate's baseline is what the *)
(* sink took last, or what it is about to take, or the gate has forgotten it:  *)
(* a frame that teardown keeps from the sink comes from a session that takes   *)
(* no other.                                                                   *)

Alone ==
  consents <= 1 =>
    /\ (media[1] = "unused" \/ at[Main] = "register") => baseline = NoFrame
    /\ baseline # NoFrame =>
         /\ (at[1] # "handed" /\ (1 \in looping \/ at[1] = "gate")) => baseline = accepted
         /\ (at[1] = "handed" /\ 1 \in looping) => baseline = shot[1]

\* With one consent there is one session, and nothing was done for another.
LEMMA OnlyOne ==
  ASSUME Control, Lives, consents <= 1
  PROVE  /\ 1 \in Sessions /\ 1 \in Threads /\ 1 # Main
         /\ \A s \in Sessions : s # 1 => Untouched(s)
         /\ at[Main] \in Beginning => Token = 1
  <1>1. 1 \in Sessions /\ 1 \in Threads /\ 1 # Main
    BY BoundsAssumption DEF Sessions, Threads, Main
  <1>2. ASSUME NEW s \in Sessions, s # 1 PROVE Untouched(s)
    <2>1. s > consents
      BY <1>2, Ranges, BoundsAssumption DEF Sessions
    <2> QED
      BY <2>1 DEF Lives, FreshSessions
  <1>3. ASSUME at[Main] \in Beginning PROVE Token = 1
    <2>1. Token \in 1..consents
      BY <1>3, BeginningToken
    <2> QED
      BY <2>1, Ranges
  <1> QED
    BY <1>1, <1>2, <1>3

\* A step that brings no frame keeps what is known of the baseline.
LEMMA AloneSame ==
  ASSUME consents' <= 1 => consents <= 1, Alone,
         baseline' = baseline, accepted' = accepted, shot' = shot,
         1 \in looping' => 1 \in looping,
         at'[1] = "gate" => at[1] = "gate", at'[1] = "handed" <=> at[1] = "handed",
         media'[1] = "unused" => media[1] = "unused",
         at'[Main] = "register" => at[Main] = "register"
  PROVE  Alone'
BY DEF Alone

\* So does one that resets the gate.
LEMMA AloneForgets ==
  ASSUME baseline' = NoFrame
  PROVE  Alone'
BY DEF Alone

\* Before the first frame there is no baseline.
LEMMA AloneInit ==
  ASSUME Init
  PROVE  Alone
BY DEF Init, Alone

\* No step breaks what is known of the baseline.
LEMMA AloneNext ==
  ASSUME CaptureInv, Alone, Next
  PROVE  Alone'
  <1>1. Control /\ Lives /\ Handover
    BY DEF CaptureInv
  <1>2. ASSUME consents > 1 PROVE Alone'
    <2>1. consents \in Nat /\ (consents' = consents \/ consents' = consents + 1)
      <3>1. consents' = consents \/ consents' = consents + 1
        <4>1. CASE OtherStep
          BY <4>1 DEF OtherStep, Consent, Disarm, Arm, Refresh, Tick, Revoke, GateFrame, HandOn,
                      Frame
        <4>2. CASE BeginStep \/ StartStep \/ StopOrDestroy
          BY <4>2
          DEF BeginStep, Begin, Register, MakeReader, MakeDisplay, SetRunning, CheckDisplay,
              StartStep, StartRefused, NoProjection, AlreadyCapturing, RecordStarted,
              StopOrDestroy
        <4>3. ASSUME NEW s \in Sessions, OnStop(s) PROVE consents' = consents
          BY <4>3 DEF OnStop
        <4>4. ASSUME NEW t \in Threads, TearStep(t) \/ RecordEnded(t) PROVE consents' = consents
          BY <4>4 DEF TearStep, ClearProjection, ClearRunning, Close, Quit, RecordEnded
        <4> QED
          BY <4>1, <4>2, <4>3, <4>4, StepsOfNext
      <3> QED
        BY <1>1, <3>1, Ranges
    <2>2. ~(consents' <= 1)
      BY <1>2, <2>1
    <2> QED
      BY <2>2 DEF Alone
  <1>3. SUFFICES ASSUME consents <= 1 PROVE Alone'
    BY <1>1, <1>2, Ranges
  <1>4. /\ 1 \in Sessions /\ 1 \in Threads /\ 1 # Main /\ Main \in Threads
        /\ \A s \in Sessions : s # 1 => Untouched(s)
        /\ at[Main] \in Beginning => Token = 1
    BY <1>1, <1>3, OnlyOne, Ranges
  <1>5. /\ (media[1] = "unused" \/ at[Main] = "register") => baseline = NoFrame
        /\ baseline # NoFrame =>
             /\ (at[1] # "handed" /\ (1 \in looping \/ at[1] = "gate")) => baseline = accepted
             /\ (at[1] = "handed" /\ 1 \in looping) => baseline = shot[1]
    BY <1>3 DEF Alone
  <1>6. media'[1] = "unused" => media[1] = "unused"
    BY <1>1, <1>4, MediaMoves
  <1> USE DEF android, gate
  <1>7. CASE Begin
    <2>1. Token = 1
      <3>1. Token \in 1..consents
        BY <1>1, <1>7, BeginningToken DEF Begin
      <3> QED
        BY <1>1, <1>3, <3>1, Ranges
    <2>2. media[1] = "unused"
      <3>1. (media'[1] = "live" /\ media'[1] # media[1]) \/ media[1] = "live"
        BY <1>1, <1>4, <1>7, <2>1, TypeParts DEF Begin, Control
      <3>2. Token \in Asked(inbox) /\ Queued = inbox
        <4>1. /\ inbox \in Seq(Commands) /\ inbox # <<>> /\ Head(inbox).kind = "start"
              /\ Orderly(inbox, consents) /\ consents \in Nat
          BY <1>1, <1>7, Ranges DEF Begin, Handles
        <4> QED
          BY <1>1, <1>7, <4>1, TakeOrderly DEF Token, Begin, Handles, Queued, Beginning
      <3> QED
        BY <1>1, <2>1, <3>2 DEF Lives, FreshSessions
    <2> QED
      BY <1>5, <1>7, <2>2, AloneForgets DEF Begin
  <1>8. CASE Register
    BY <1>5, <1>8, AloneForgets DEF Register
  <1>9. CASE BeginStep /\ ~Begin /\ ~Register
    <2>1. /\ UNCHANGED <<baseline, accepted, shot, looping, consents>>
          /\ at'[Main] # "register"
      BY <1>1, <1>4, <1>9, Ranges
      DEF BeginStep, MakeReader, MakeDisplay, SetRunning, CheckDisplay, Go
    <2>2. at'[1] = at[1]
      BY <1>1, <1>4, <1>9, BeginStepBox
    <2> QED
      BY <1>6, <2>1, <2>2, AloneSame
  <1>10. CASE StartStep \/ StopOrDestroy
    <2>1. UNCHANGED <<baseline, accepted, shot, looping, consents>>
      BY <1>10
      DEF StartStep, StartRefused, NoProjection, AlreadyCapturing, RecordStarted, CheckDisplay,
          StopOrDestroy
    <2>2. at'[1] = at[1] /\ at'[Main] # "register"
      BY <1>1, <1>4, <1>10, StartStepBox, StopOrDestroyBox
    <2> QED
      BY <1>6, <2>1, <2>2, AloneSame
  <1>11. ASSUME NEW s \in Sessions, OnStop(s) PROVE Alone'
    <2>1. UNCHANGED <<baseline, accepted, shot, looping, consents>>
      BY <1>11 DEF OnStop
    <2>2. at'[Main] = at[Main]
      BY <1>1, <1>11, OnStopBox, Ranges
    <2>3. at'[1] = at[1] \/ (at[1] = "idle" /\ at'[1] = "clear")
      BY <1>1, <1>4, <1>11, OnStopBox
    <2> QED
      BY <1>6, <2>1, <2>2, <2>3, AloneSame
  <1>12. ASSUME NEW t \in Threads, Quit(t) PROVE Alone'
    BY <1>12, AloneForgets DEF Quit
  <1>13. ASSUME NEW t \in Threads, TearStep(t) \/ RecordEnded(t), ~Quit(t) PROVE Alone'
    <2>1. UNCHANGED <<baseline, accepted, shot, looping, consents>>
      BY <1>13 DEF TearStep, ClearProjection, ClearRunning, Close, RecordEnded
    <2>2. /\ at'[Main] # "register" \/ at'[Main] = at[Main]
          /\ \/ at'[1] = at[1]
             \/ /\ at[1] \notin {"gate", "handed"} /\ at'[1] \notin {"gate", "handed"}
      BY <1>1, <1>4, <1>13, TearStepBox, RecordEndedBox DEF Tearing
    <2> QED
      BY <1>6, <2>1, <2>2, AloneSame
  <1>14. ASSUME \/ \E sent \in BOOLEAN : Consent(sent)
                \/ Disarm \/ Arm \/ Refresh \/ Tick \/ \E s \in Sessions : Revoke(s)
         PROVE  Alone'
    <2>1. UNCHANGED <<baseline, accepted, shot, looping, at>>
      BY <1>14 DEF Consent, Disarm, Arm, Refresh, Tick, Revoke, control
    <2>2. consents <= 1
      BY <1>3
    <2> QED
      BY <1>6, <2>1, <2>2, AloneSame
  <1>15. ASSUME NEW s \in Sessions, NEW plane \in Planes, Frame(s, plane) PROVE Alone'
    <2>1. s = 1 /\ 1 \in looping /\ at[1] = "idle" /\ media[1] = "live"
      BY <1>4, <1>15 DEF Frame, Untouched
    <2>2. /\ UNCHANGED <<baseline, accepted, looping, media>> /\ at'[1] = "gate"
          /\ at'[Main] = at[Main]
      BY <1>1, <1>4, <1>15, <2>1, Ranges DEF Frame, Go
    <2> QED
      BY <1>5, <2>1, <2>2 DEF Alone
  <1>16. ASSUME NEW s \in Sessions, GateFrame(s) \/ HandOn(s)
         PROVE  /\ s = 1 /\ at[1] # "idle" /\ media[1] # "unused" /\ at[Main] # "register"
                /\ UNCHANGED <<looping, media>> /\ at'[Main] = at[Main]
    <2>1. at[s] # "idle"
      BY <1>16 DEF GateFrame, HandOn
    <2>2. s = 1
      BY <1>4, <2>1 DEF Untouched
    <2>3. media[1] # "unused"
      BY <1>1, <1>4, <2>1, <2>2 DEF Lives, FreshSessions, Untouched
    <2>4. at[Main] # "register"
      BY <1>1, <1>4, <2>1, <2>2 DEF Lives, BeingRegistered, Beginning
    <2>5. UNCHANGED <<looping, media>>
      BY <1>16 DEF GateFrame, HandOn
    <2>6. at'[Main] = at[Main]
      BY <1>1, <1>4, <1>16, <2>2, FrameMoves
    <2> QED
      BY <2>1, <2>2, <2>3, <2>4, <2>5, <2>6
  <1>17. ASSUME NEW s \in Sessions, GateFrame(s) PROVE Alone'
    <2>1. /\ s = 1 /\ media[1] # "unused" /\ at[Main] # "register"
          /\ UNCHANGED <<looping, media>> /\ at'[Main] = at[Main]
      BY <1>16, <1>17
    <2>2. at[1] = "gate"
      BY <1>17, <2>1 DEF GateFrame
    <2>3. CASE Analyses(shot[1])
      <3>1. baseline' = shot[1] /\ shot' = shot /\ at'[1] = "handed"
        BY <1>1, <1>4, <1>17, <2>1, <2>3, Ranges DEF GateFrame, Go
      <3> QED
        BY <2>1, <3>1 DEF Alone
    <2>4. CASE ~Analyses(shot[1])
      <3>1. baseline' = baseline /\ accepted' = accepted /\ at'[1] = "idle"
        BY <1>1, <1>4, <1>17, <2>1, <2>4, Ranges DEF GateFrame, Drop, Go
      <3> QED
        BY <1>5, <2>1, <2>2, <3>1 DEF Alone
    <2> QED
      BY <2>3, <2>4
  <1>18. ASSUME NEW s \in Sessions, HandOn(s) PROVE Alone'
    <2>1. /\ s = 1 /\ media[1] # "unused" /\ at[Main] # "register"
          /\ UNCHANGED <<looping, media>> /\ at'[Main] = at[Main]
      BY <1>16, <1>18
    <2>2. /\ at[1] = "handed" /\ at'[1] = "idle" /\ baseline' = baseline
          /\ accepted' = (IF 1 \in looping THEN shot[1] ELSE accepted)
      BY <1>1, <1>4, <1>18, <2>1, Ranges DEF HandOn, Drop, Go
    <2> QED
      BY <1>5, <2>1, <2>2 DEF Alone
  <1>19. CASE OtherStep
    BY <1>14, <1>15, <1>17, <1>18, <1>19 DEF OtherStep
  <1> QED
    BY <1>7, <1>8, <1>9, <1>10, <1>11, <1>12, <1>13, <1>19, StepsOfNext

\* A distance is a number of bits.
LEMMA DistanceType ==
  ASSUME NEW a \in Hashes \cup {NoFrame}, NEW b \in Hashes \cup {NoFrame}
  PROVE  HammingDistance(a, b) \in Nat
  <1>1. (GridHeight * (GridWidth - 1)) - 1 \in Int
    BY PlanesAssumption
  <1>2. IsFiniteSet(0..((GridHeight * (GridWidth - 1)) - 1))
    BY <1>1, FS_Interval
  <1>3. IsFiniteSet({-1})
    BY FS_Singleton
  <1>4. \A h \in Hashes \cup {NoFrame} : IsFiniteSet(h)
    BY <1>2, <1>3, FS_Subset DEF Hashes, NoFrame
  <1>5. IsFiniteSet(a \cup b)
    BY <1>4, FS_Union
  <1>6. SymDiff(a, b) \subseteq a \cup b
    BY DEF SymDiff
  <1>7. IsFiniteSet(SymDiff(a, b))
    BY <1>5, <1>6, FS_Subset
  <1> QED
    BY <1>7, FS_CardinalityType DEF HammingDistance

\* Whatever is shown slowly enough never to differ much from the frame before is still
\* analysed once it differs from the last frame that was, for every grid and threshold
\* (FrameGate.onFrame).
THEOREM DriftAlwaysSeen == Spec => DriftIsSeen
  <1>1. Init => Alone
    BY AloneInit
  <1>2. CaptureInv /\ Alone /\ [Next]_vars => Alone'
    <2>1. ASSUME CaptureInv, Alone, UNCHANGED vars PROVE Alone'
      BY <2>1 DEF vars, android, gate, control, Alone
    <2> QED
      BY <2>1, AloneNext
  <1> DEFINE Seen == (at[1] = "gate" /\ at'[1] = "idle" /\ elapsed /\ consents = 1)
                       => HammingDistance(shot[1], accepted) < ChangeThreshold
  <1>3. ASSUME CaptureInv, Alone, Next,
               at[1] = "gate", at'[1] = "idle", elapsed, consents = 1
        PROVE  HammingDistance(shot[1], accepted) < ChangeThreshold
    <2>1. Control /\ Lives
      BY <1>3 DEF CaptureInv
    <2>2. 1 \in Sessions /\ 1 \in Threads /\ 1 # Main /\ consents <= 1
      BY <1>3, <2>1, OnlyOne
    <2>3. GateFrame(1)
      <3>1. CASE BeginStep \/ StartStep \/ StopOrDestroy
        BY <1>3, <2>1, <2>2, <3>1, BeginStepBox, StartStepBox, StopOrDestroyBox
      <3>2. ASSUME NEW s \in Sessions, OnStop(s) PROVE FALSE
        BY <1>3, <2>1, <2>2, <3>2, OnStopBox
      <3>3. ASSUME NEW t \in Threads, TearStep(t) \/ RecordEnded(t) PROVE FALSE
        BY <1>3, <2>1, <2>2, <3>3, TearStepBox, RecordEndedBox DEF Tearing
      <3>4. CASE OtherStep
        <4>1. ASSUME \/ \E sent \in BOOLEAN : Consent(sent)
                     \/ Disarm \/ Arm \/ Refresh \/ Tick \/ \E s \in Sessions : Revoke(s)
              PROVE  FALSE
          BY <1>3, <4>1 DEF Consent, Disarm, Arm, Refresh, Tick, Revoke, control
        <4>2. ASSUME NEW s \in Sessions,
                     GateFrame(s) \/ HandOn(s) \/ \E plane \in Planes : Frame(s, plane)
              PROVE  GateFrame(1)
          <5>1. s = 1
            BY <1>3, <2>1, <2>2, <4>2, FrameMoves
          <5> QED
            BY <1>3, <4>2, <5>1 DEF HandOn, Frame
        <4> QED
          BY <3>4, <4>1, <4>2 DEF OtherStep
      <3> QED
        BY <1>3, <3>1, <3>2, <3>3, <3>4, StepsOfNext
    <2>4. ~Analyses(shot[1])
      <3>1. at \in [Threads -> Steps]
        BY <2>1, Ranges
      <3> QED
        BY <1>3, <2>2, <2>3, <3>1 DEF GateFrame, Go
    <2>5. baseline # NoFrame /\ ~(HammingDistance(shot[1], baseline) >= ChangeThreshold)
      BY <1>3, <2>4 DEF Analyses
    <2>6. baseline = accepted
      BY <1>3, <2>2, <2>5 DEF Alone
    <2>7. /\ shot[1] \in Hashes \cup {NoFrame} /\ accepted \in Hashes \cup {NoFrame}
          /\ ChangeThreshold \in Int
      BY <2>1, <2>2, TypeParts, PlanesAssumption DEF Control
    <2>8. HammingDistance(shot[1], accepted) \in Nat
      BY <2>7, DistanceType
    <2> QED
      BY <2>5, <2>6, <2>7, <2>8
  <1>4. CaptureInv /\ Alone /\ [Next]_vars => [Seen]_vars
    BY <1>3
  <1> QED
    BY <1>1, <1>2, <1>4, CaptureInvAlways, PTL DEF Spec, DriftIsSeen

=============================================================================

---------------------------- MODULE LocalRecording ----------------------------
(***************************************************************************)
(* The daily CSV files on the card (CsvLogger.cpp) and the clock that names *)
(* them (Timekeeper.cpp), as serviceLocalRecording, syncRtcFromNetwork and  *)
(* maintainRtcSync in logger_main.cpp drive them.                           *)
(*                                                                          *)
(* A file is the sequence of what was printed to it.  A print that was      *)
(* short leaves an item that is not whole and has no end of line: whatever  *)
(* is printed next lands on the same line.  What a row says is left out.    *)
(* An empty file and a missing one are the same to the code and here.       *)
(****************************************************************************)
EXTENDS Integers, Sequences, FiniteSetsExt

CONSTANTS
    MaxDay,         \* bound: dates
    FlushRows,      \* rows between two flushes (loggerFlushRows)
    MaxItems,       \* bound: what is printed to the files, all together
    MaxShort,       \* bound: prints that fail or are short
    MaxResets       \* bound: power losses

ASSUME RecordingAssumption ==
    /\ {MaxDay, FlushRows} \subseteq Nat \ {0}
    /\ {MaxItems, MaxShort, MaxResets} \subseteq Nat

VARIABLES
    day,            \* the date
    rtcKept,        \* the clock chip holds the time
    clockReady,     \* Timekeeper::ready_
    networkReady,   \* networkReady_
    ready,          \* CsvLogger::ready_
    file,           \* the open file, or NoFile
    incompleteRow,  \* incompleteRow_
    rowsSinceFlush, \* rowsSinceFlush_
    flushDue,       \* logRow has returned true, flushIfNeeded is called next
    content,        \* the files
    flushed,        \* what a power loss cannot take away
    left,           \* history: ends of files that were torn when the file was
                    \* closed or the power was lost
    shorts, resets

clockVars == <<day, rtcKept, clockReady, networkReady>>
csvVars == <<ready, file, incompleteRow, rowsSinceFlush, flushDue, content, flushed, left>>
recordingVars == <<clockVars, csvVars, shorts, resets>>

\* Files are named by their date; Boot is logs-boot.csv.
Boot == 0
NoFile == -1
Names == Boot .. MaxDay

Header == [kind |-> "header", whole |-> TRUE]
Row == [kind |-> "row", whole |-> TRUE]
Newline == [kind |-> "newline", whole |-> TRUE]
Item == [kind : {"header", "row", "newline"}, whole : BOOLEAN]

\* What a short print leaves: half of it, or nothing
Short(item) == {<<[item EXCEPT !.whole = FALSE]>>, <<>>}

Torn(s) == s # <<>> /\ ~s[Len(s)].whole

RecordingTypeOK ==
    /\ day \in 1 .. MaxDay /\ {rtcKept, clockReady, networkReady} \subseteq BOOLEAN
    /\ {ready, incompleteRow, flushDue} \subseteq BOOLEAN
    /\ file \in Names \cup {NoFile} /\ rowsSinceFlush \in 0 .. FlushRows
    /\ content \in [Names -> Seq(Item)] /\ flushed \in [Names -> Nat]
    /\ \A f \in Names : flushed[f] <= Len(content[f])
    /\ left \in [Names -> SUBSET Nat]
    /\ shorts \in 0 .. MaxShort /\ resets \in 0 .. MaxResets

\* setup(): the clock chip and the card answer or do not, and RAM starts over.
Begin ==
    /\ clockReady' \in {FALSE, rtcKept'} /\ networkReady' = FALSE
    /\ ready' \in BOOLEAN /\ file' = NoFile /\ incompleteRow' = FALSE
    /\ rowsSinceFlush' = 0 /\ flushDue' = FALSE

RecordingInit ==
    /\ day = 1 /\ rtcKept \in BOOLEAN
    /\ clockReady \in {FALSE, rtcKept} /\ networkReady = FALSE
    /\ ready = TRUE /\ file = NoFile /\ incompleteRow = FALSE
    /\ rowsSinceFlush = 0 /\ flushDue = FALSE
    /\ content = [f \in Names |-> <<>>] /\ flushed = [f \in Names |-> 0]
    /\ left = [f \in Names |-> {}] /\ shorts = 0 /\ resets = 0

-----------------------------------------------------------------------------
(* Timekeeper *)

\* writeRv3028Time: the chip may take the time and still fail the check that
\* follows.
WriteChip(written) == rtcKept' \in {TRUE, rtcKept \/ written}

\* setFromUnixTime: network time is good whether the chip can be set or not.
SetFromUnixTime(written) ==
    networkReady' = TRUE /\ clockReady' = written /\ WriteChip(written)

\* syncRtcFromNetwork, in setup() and whenever maintainRtcSync finds it due
SyncRtcFromNetwork ==
    /\ ~flushDue /\ \E written \in BOOLEAN : SetFromUnixTime(written)
    /\ UNCHANGED <<day, csvVars, shorts, resets>>

Midnight == day < MaxDay /\ day' = day + 1
            /\ UNCHANGED <<rtcKept, clockReady, networkReady, csvVars, shorts, resets>>

\* readCurrentTime: the chip may fail to answer.
ReadCurrentTime == IF clockReady THEN {{}, {day}} ELSE {{}}

\* readNetworkTime
ReadNetworkTime == IF networkReady THEN {day} ELSE {}

\* dateStamp: the network time stands in for the chip.
DateStamp ==
    {IF chip \cup ReadNetworkTime = {} THEN Boot ELSE day : chip \in ReadCurrentTime}

-----------------------------------------------------------------------------
(* CsvLogger *)

\* All that was printed
Printed == FoldSet(LAMBDA f, n : n + Len(content[f]), 0, Names)

PrintFails == shorts < MaxShort /\ shorts' = shorts + 1

\* Mutant: the file of yesterday is closed without a flush.
ClosedUnflushed(name) == flushed

\* ensureFileOpen flushes and closes the file that was open.
Closed(name) ==
    IF file \in {NoFile, name} THEN flushed ELSE [flushed EXCEPT ![file] = Len(content[file])]

\* A fragment at the end of the file that is closed stays there.
Left(name) ==
    IF file \in {NoFile, name} \/ ~Torn(content[file]) THEN left
    ELSE [left EXCEPT ![file] = @ \cup {Len(content[file])}]

\* The file cannot be opened.
OpenFails(name) ==
    /\ file # name /\ file' = NoFile /\ flushed' = Closed(name) /\ left' = Left(name) /\ PrintFails
    /\ UNCHANGED <<ready, incompleteRow, rowsSinceFlush, flushDue, content>>

\* Its header is short: the file is removed, or the logger stops.
HeaderFails(name) ==
    /\ file # name /\ content[name] = <<>> /\ PrintFails
    /\ file' = NoFile /\ flushed' = Closed(name)
    /\ \/ UNCHANGED <<content, ready>> /\ left' = Left(name)
       \/ /\ \E s \in Short(Header) :
               /\ content' = [content EXCEPT ![name] = s]
               /\ left' = [Left(name) EXCEPT ![name] = DOMAIN s]
          /\ ready' = FALSE
    /\ UNCHANGED <<incompleteRow, rowsSinceFlush, flushDue>>

\* What is in the file when a row is about to be printed: a new file has its
\* header, which was flushed.
Opened(name) == IF content[name] = <<>> THEN <<Header>> ELSE content[name]
OpenedFlushed(name) ==
    IF content[name] = <<>> THEN [Closed(name) EXCEPT ![name] = 1] ELSE Closed(name)
OpenedRows(name) == IF content[name] = <<>> THEN 0 ELSE rowsSinceFlush

\* The line behind a short row cannot be ended.
SeparatorFails(name) ==
    /\ incompleteRow /\ PrintFails
    /\ file' = name /\ content' = [content EXCEPT ![name] = Opened(name)]
    /\ flushed' = OpenedFlushed(name) /\ rowsSinceFlush' = OpenedRows(name) /\ left' = Left(name)
    /\ UNCHANGED <<ready, incompleteRow, flushDue>>

\* Mutant: a short row is not followed by an end of line.
SeparatedNot(name) == Opened(name)

Separated(name) == IF incompleteRow THEN Append(Opened(name), Newline) ELSE Opened(name)

\* The row is short.
RowFails(name) ==
    /\ PrintFails /\ incompleteRow' = TRUE
    /\ file' = name /\ \E s \in Short(Row) : content' = [content EXCEPT ![name] = Separated(name) \o s]
    /\ flushed' = OpenedFlushed(name) /\ rowsSinceFlush' = OpenedRows(name) /\ left' = Left(name)
    /\ UNCHANGED <<ready, flushDue>>

\* The row is written and counted.
RowWritten(name) ==
    /\ Printed < MaxItems
    /\ file' = name /\ content' = [content EXCEPT ![name] = Append(Separated(name), Row)]
    /\ flushed' = OpenedFlushed(name) /\ rowsSinceFlush' = OpenedRows(name) + 1 /\ left' = Left(name)
    /\ incompleteRow' = FALSE /\ flushDue' = TRUE /\ UNCHANGED <<ready, shorts>>

\* logRow, in every logging interval
LogRow ==
    /\ ready /\ ~flushDue /\ UNCHANGED <<clockVars, resets>>
    /\ \E name \in DateStamp :
         \/ OpenFails(name) \/ HeaderFails(name) \/ SeparatorFails(name)
         \/ RowFails(name) \/ RowWritten(name)

\* flushIfNeeded: the flush interval has passed or enough rows are waiting.
FlushIfNeeded ==
    /\ flushDue /\ flushDue' = FALSE
    /\ \/ flushed' = [flushed EXCEPT ![file] = Len(content[file])] /\ rowsSinceFlush' = 0
       \/ rowsSinceFlush < FlushRows /\ UNCHANGED <<flushed, rowsSinceFlush>>
    /\ UNCHANGED <<clockVars, ready, file, incompleteRow, content, left, shorts, resets>>

\* A power loss and the next setup(): of what was not flushed, a beginning is
\* left, and its last line may be torn.
CardPowerLoss ==
    /\ resets < MaxResets /\ resets' = resets + 1
    /\ rtcKept' \in {FALSE, rtcKept} /\ Begin
    /\ \E lost \in 0 .. MaxItems, whole \in BOOLEAN :
         LET kept(f) == SubSeq(content[f], 1, Max({flushed[f], Len(content[f]) - lost}))
             tears(f) == ~whole /\ Len(kept(f)) > flushed[f]
         IN content' = [f \in Names |->
                IF tears(f) THEN [kept(f) EXCEPT ![Len(kept(f))].whole = FALSE] ELSE kept(f)]
    /\ flushed' = [f \in Names |-> Len(content'[f])]
    /\ left' = [f \in Names |-> {i \in left[f] \cup {flushed'[f]} : i > 0 /\ i <= flushed'[f] /\ ~content'[f][i].whole}]
    /\ UNCHANGED <<day, shorts>>

RecordingNext == SyncRtcFromNetwork \/ Midnight \/ LogRow \/ FlushIfNeeded \/ CardPowerLoss

RecordingSpec == RecordingInit /\ [][RecordingNext]_recordingVars

-----------------------------------------------------------------------------
(* Properties *)

\* A row that logRow accepted is a line of its own under a header, unless the
\* file was closed, or the power lost, right behind a print that was short.
RowsStayWhole ==
    \A f \in Names : \A i \in DOMAIN content[f] :
        content[f][i] = Row => i > 1 /\ (content[f][i - 1].whole \/ i - 1 \in left[f])

\* Every row that was accepted is a line of its own: "Separate a partial prior
\* row before retrying so subsequent rows stay parseable."
EveryRowParses ==
    \A f \in Names : \A i \in DOMAIN content[f] :
        content[f][i] = Row => i > 1 /\ content[f][i - 1].whole

\* The rows that a power loss may take, with their files
Unflushed ==
    UNION {{<<f, i>> : i \in {j \in DOMAIN content[f] : j > flushed[f] /\ content[f][j] = Row}}
           : f \in Names}

\* A power loss takes FlushRows rows at most, those of files that were closed in
\* the meantime included, and as many as that only between the row that fills the
\* count and its flush (CsvLogger.cpp:65 and 79); between two turns it takes less.
LossBounded ==
    /\ Cardinality(Unflushed) <= FlushRows
    /\ Cardinality(Unflushed) = FlushRows => flushDue
=============================================================================

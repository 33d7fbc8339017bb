------------------------------- MODULE LogFollow -------------------------------
(***************************************************************************)
(* The durable log of the bridge (appendLog of bin/mcp-bridge.mjs) and the *)
(* command that reads and follows it (the class LogReader of               *)
(* bin/logs.mjs), two processes that share nothing but two names in a      *)
(* directory, bridge.log and bridge.log.1.                                 *)
(*                                                                         *)
(* The bridge appends records and rolls the file when it is full.  The     *)
(* reader opens both files, looks whether they belong together, reads what *)
(* it has not read and lets the files go, as an open file may keep the     *)
(* bridge from rolling.  Each await of it is a step, and each call of the  *)
(* bridge.  A record is one line or two; what is abstracted is their text, *)
(* --since and --server, and lines that are cut in two by a read.          *)
(***************************************************************************)
EXTENDS Integers, Sequences, SequencesExt, FiniteSetsExt

CONSTANTS
    RollAt,   \* lines after which a file is full, LOG_MAX_BYTES
    MaxEvents \* bound: records, truncations by somebody else and restarts

VARIABLES
    lines,   \* every line that was ever logged
    files,   \* the files there ever were, each the numbers of its lines
    path,    \* the file behind either name
    writer,  \* the bridge
    reader,  \* the LogReader
    seen,    \* history: the lines it has read
    shown,   \* the lines it has written
    logged   \* records, truncations and restarts so far

logVars == <<lines, files, path, writer, reader, seen, shown, logged>>

NoFile == 0

\* offset: lines read; start: where the record began; anchor: what was read last.
Fresh(f) == [file |-> f, offset |-> 0, start |-> 0, matched |-> FALSE, anchor |-> 0]
NoCursor == Fresh(NoFile)

\* last: archiveId. told, blind: history: since the last line, a notice of a gap
\* was written, or the reader has waited without a file of its own.
LogInit ==
    /\ lines = <<>> /\ files = <<>> /\ seen = <<>> /\ shown = <<>>
    /\ path = [current |-> NoFile, archive |-> NoFile]
    /\ writer = [at |-> "idle", counted |-> 0]
    /\ reader \in {[at |-> "current", follow |-> f, grep |-> g, current |-> NoFile,
                    archive |-> NoFile, cursor |-> NoCursor, goal |-> 0, then |-> "none",
                    last |-> NoFile, told |-> FALSE, blind |-> FALSE] : f, g \in BOOLEAN}
    /\ logged = [events |-> 0, cut |-> FALSE]

\* Nobody reads, and nothing is due.
NoRead ==
    /\ lines = <<>> /\ files = <<>> /\ seen = <<>> /\ shown = <<>>
    /\ path = [current |-> NoFile, archive |-> NoFile]
    /\ writer = [at |-> "idle", counted |-> 0]
    /\ reader = [at |-> "over", cursor |-> NoCursor, grep |-> FALSE]
    /\ logged = [events |-> 0, cut |-> FALSE]

-----------------------------------------------------------------------------
(* The bridge: appendLog(). *)

\* logBytes: what was counted, or the size when nothing was counted yet.
Counted ==
    IF writer.counted >= 0 THEN writer.counted
    ELSE IF path.current = NoFile THEN 0 ELSE Len(files[path.current])

Full == writer.at = "idle" /\ Counted >= RollAt

ReaderOut == UNCHANGED <<reader, seen, shown>>

\* renameSync(). While the archive is held open it may fail on Windows, and the
\* line is dropped: then nothing happens here.
Roll ==
    /\ Full /\ path.current # NoFile /\ logged.events < MaxEvents
    /\ path' = [current |-> NoFile, archive |-> path.current]
    /\ writer' = [at |-> "rolled", counted |-> 0]
    /\ UNCHANGED <<lines, files, logged>> /\ ReaderOut

\* Whether each line of a record has what --grep looks for.
Records == IF reader.grep THEN {<<FALSE>>, <<FALSE, TRUE>>, <<TRUE, FALSE>>} ELSE {<<FALSE>>}

\* appendFileSync(), which creates the file.
AppendRecord(hits) ==
    /\ ~Full /\ logged.events < MaxEvents
    /\ LET new == [i \in DOMAIN hits |-> [first |-> i = 1, hit |-> hits[i]]]
           numbers == [i \in DOMAIN hits |-> Len(lines) + i]
       IN  /\ lines' = lines \o new
           /\ IF path.current = NoFile
                THEN /\ files' = Append(files, numbers)
                     /\ path' = [path EXCEPT !.current = Len(files) + 1]
                ELSE /\ files' = [files EXCEPT ![path.current] = @ \o numbers]
                     /\ UNCHANGED path
           /\ writer' = [at |-> "idle", counted |-> Counted + Len(hits)]
    /\ logged' = [logged EXCEPT !.events = @ + 1]
    /\ ReaderOut

\* Also between a roll and its append.
BridgeRestarts ==
    /\ logged.events < MaxEvents
    /\ writer' = [at |-> "idle", counted |-> -1]
    /\ logged' = [logged EXCEPT !.events = @ + 1]
    /\ UNCHANGED <<lines, files, path>> /\ ReaderOut

\* Somebody else truncates the log.
Cut ==
    /\ logged.events < MaxEvents /\ path.current # NoFile
    /\ files' = [files EXCEPT ![path.current] = <<>>]
    /\ logged' = [events |-> logged.events + 1, cut |-> TRUE]
    /\ UNCHANGED <<lines, path, writer>> /\ ReaderOut

-----------------------------------------------------------------------------
(* The reader: snapshot(). *)

Bridge == UNCHANGED <<lines, files, path, writer, logged>>
Quietly == UNCHANGED <<seen, shown>> /\ Bridge

OpenCurrent ==
    /\ reader.at = "current"
    /\ reader' = [reader EXCEPT !.at = "archive", !.current = path.current]
    /\ Quietly

OpenArchive ==
    /\ reader.at = "archive"
    /\ reader' = [reader EXCEPT !.at = "check", !.archive = path.archive]
    /\ Quietly

\* Bug: the two files are taken as they were opened.
SameNames == TRUE

StillCurrent == path.current = reader.current

CheckNames ==
    /\ reader.at = "check"
    /\ reader' = IF StillCurrent
                   THEN [reader EXCEPT !.at = "resume",
                            !.archive = IF @ = reader.current THEN NoFile ELSE @]
                   ELSE [reader EXCEPT !.at = "current", !.current = NoFile, !.archive = NoFile]
    /\ Quietly

-----------------------------------------------------------------------------
(* drain(), consume(), line(). *)

Changed(c) ==
    \/ Len(files[c.file]) < c.offset
    \/ c.anchor # 0 /\ files[c.file][c.offset] # c.anchor

\* The size is taken once; a file that has changed is read from its beginning.
Drain(r, c, then) ==
    [r EXCEPT !.at = "drain", !.then = then, !.goal = Len(files[c.file]),
              !.cursor = IF Changed(c) THEN Fresh(c.file) ELSE c,
              !.told = @ \/ Changed(c)]

\* A line: without --grep it is written; with it, the first hit writes the record
\* up to here, and what follows in the record is written too.
ReadLine ==
    /\ reader.at = "drain" /\ reader.cursor.offset < reader.goal
    /\ LET c == reader.cursor
           file == files[c.file]
           at == c.offset + 1
       IN  IF at > Len(file) THEN reader' = [reader EXCEPT !.goal = 0] /\ UNCHANGED <<seen, shown>>
           ELSE LET n == file[at]
                    start == IF lines[n].first THEN at ELSE c.start
                    open == c.matched /\ ~lines[n].first
                    starts == reader.grep /\ ~open /\ lines[n].hit
                IN  /\ seen' = Append(seen, n)
                    /\ shown' = shown \o (IF starts THEN SubSeq(file, start, at)
                                          ELSE IF ~reader.grep \/ open THEN <<n>> ELSE <<>>)
                    /\ reader' = [reader EXCEPT !.told = FALSE, !.blind = FALSE, !.cursor =
                          [c EXCEPT !.offset = at, !.start = start, !.matched = open \/ starts,
                                    !.anchor = n]]
    /\ Bridge

DrainOver ==
    /\ reader.at = "drain" /\ reader.cursor.offset >= reader.goal
    /\ reader' = [reader EXCEPT !.at = reader.then]
    /\ Quietly

-----------------------------------------------------------------------------
(* run(). *)

Kept == reader.cursor.file \in {reader.current, reader.archive}

\* The file that was being read is one of the two, or it is gone.
Resume ==
    /\ reader.at = "resume"
    /\ reader' =
          IF reader.cursor = NoCursor
            THEN [reader EXCEPT !.at =
                     IF reader.current = NoFile /\ ~reader.follow THEN "over" ELSE "turn"]
          ELSE IF Kept THEN Drain(reader, reader.cursor, "turn")
          ELSE [reader EXCEPT !.at = "turn", !.cursor = NoCursor, !.told = TRUE]
    /\ Quietly

\* Bug: the archive is read only by who has read it as the current file.
Overlooked(r) == FALSE

\* An archive that was not read yet comes first.
Unread(r) == r.cursor = NoCursor /\ r.archive \notin {NoFile, r.last}

\* A file that is no longer the current one is done with.
Turn ==
    /\ reader.at = "turn"
    /\ LET done == reader.cursor # NoCursor /\ reader.cursor.file # reader.current
           free == IF done
                     THEN [reader EXCEPT !.last = reader.cursor.file, !.cursor = NoCursor]
                     ELSE reader
       IN  reader' =
             IF Unread(free)
               THEN Drain(free, Fresh(reader.archive), "archived")
               ELSE [free EXCEPT !.at = "next"]
    /\ Quietly

Archived ==
    /\ reader.at = "archived"
    /\ reader' = [reader EXCEPT !.at = "next", !.last = reader.cursor.file, !.cursor = NoCursor]
    /\ Quietly

NextFile ==
    /\ reader.at = "next"
    /\ reader' = IF reader.cursor = NoCursor /\ reader.current # NoFile
                   THEN Drain(reader, Fresh(reader.current), "rest")
                   ELSE [reader EXCEPT !.at = "rest"]
    /\ Quietly

\* Cursors are kept, files are not.
Rest ==
    /\ reader.at = "rest"
    /\ reader' = [reader EXCEPT !.at = IF reader.follow THEN "waiting" ELSE "over",
                     !.current = NoFile, !.archive = NoFile,
                     !.blind = @ \/ reader.cursor = NoCursor]
    /\ Quietly

\* wait(): the watcher or the interval.
Wakes ==
    /\ reader.at = "waiting"
    /\ reader' = [reader EXCEPT !.at = "current"]
    /\ Quietly

\* stop(): a signal, or an output that is closed.
StopReading ==
    /\ reader.at # "over"
    /\ reader' = [reader EXCEPT !.at = "over", !.current = NoFile, !.archive = NoFile]
    /\ Quietly

Reads ==
    \/ OpenCurrent \/ OpenArchive \/ CheckNames \/ ReadLine \/ DrainOver
    \/ Resume \/ Turn \/ Archived \/ NextFile \/ Rest \/ Wakes

LogNext ==
    \/ Roll \/ BridgeRestarts \/ Cut
    \/ \E hits \in Records : AppendRecord(hits)
    \/ Reads \/ StopReading

LogFairness == WF_logVars(Reads)

LogSpec == LogInit /\ [][LogNext]_logVars /\ LogFairness

-----------------------------------------------------------------------------
Increasing(s) == \A i \in 1 .. Len(s) - 1 : s[i] < s[i + 1]

\* Lines m and n belong to one record.
SameRecord(m, n) ==
    \A k \in Min({m, n}) + 1 .. Max({m, n}) : ~lines[k].first

\* What is written is what was asked for, once and in order, however the file is
\* rolled while it is read: without --grep every line, with it every record with
\* a hit, from its header on (snapshot, drain, line, replay).
WritesEachOnce ==
    ~logged.cut =>
        /\ Increasing(seen) /\ Increasing(shown)
        /\ ToSet(shown) =
             {n \in ToSet(seen) :
                ~reader.grep \/ \E m \in ToSet(seen) : lines[m].hit /\ SameRecord(m, n)}

\* A line is left out only with a notice, or by a reader that waited with no
\* file of its own.
NoSilentGap ==
    seen' # seen /\ seen # <<>> /\ ~logged.cut
        => Last(seen') = Last(seen) + 1 \/ reader.told \/ reader.blind

\* Whatever the bridge does between two steps of the reader, no record is written
\* twice or out of order, none that was asked for is left out of what it read, and
\* what it could not read is told (run, the notice of a generation that is gone).
LogRead == [][WritesEachOnce' /\ NoSilentGap]_logVars

\* A reader that follows catches up with a bridge that has fallen silent.
CatchesUp ==
    <>[](\/ reader.at = "over" \/ logged.cut
         \/ \A name \in {"current", "archive"} :
              path[name] # NoFile => ToSet(files[path[name]]) \subseteq ToSet(seen))
================================================================================

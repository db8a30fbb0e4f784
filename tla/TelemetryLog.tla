---------------------------- MODULE TelemetryLog ----------------------------
(***************************************************************************)
(* The raw telemetry log of one session: the sink that appends to it       *)
(* (observe/otel/sink/ndjson), the processes that finalize it              *)
(* (observe/otel/finalize, indexer, materialize), the retention sweep that *)
(* archives and removes it (observe/otel/retention), `wipnote session      *)
(* restore` and `wipnote reindex`.                                         *)
(*                                                                         *)
(* A record is a number; the log is the sequence of its lines, 0 for a     *)
(* line that does not parse.  Lengths are in units: a line has Line units, *)
(* a torn tail one.  The processes share the session's directory and no    *)
(* lock: what one judges in a step another may change before the next.     *)
(***************************************************************************)
EXTENDS Integers, Sequences, FiniteSets, Functions

CONSTANTS
  Finalizers,  \* processes that finalize: catch-up passes and session ends
  Sweepers,    \* processes that sweep: the daemon, hooks, prune, archive
  Ops,         \* what else happens in a run, a subset of AllOps
  MaxRecords,  \* bound: records the harness emits
  MaxMishaps   \* bound: deaths, spent budgets and failed rollups

AllOps == {"resume", "idle", "torn", "restore", "reindex", "overlap"}

ASSUME TelemetryConstants ==
  /\ Ops \subseteq AllOps /\ MaxRecords \in Nat /\ MaxMishaps \in Nat

VARIABLES
  live,     \* the lines of events.ndjson; meaningful when `exists`
  exists,   \* the session's directory and its log are there
  torn,     \* the log ends in an unterminated line
  marker,   \* .index-offset, in units, or Missing
  archive,  \* the tarball: its state, and the lines it holds when whole
  rolled,   \* the records the rollup in the session HTML accounts for
  sink,     \* the collector's file: "closed", "open", or "unlinked"
  staged,   \* the records in the sink's buffer
  emitted,  \* records emitted so far
  ended,    \* the harness session ended
  quiet,    \* the log was not written for the grace window, and is due
  fin,      \* per finalizer: its step and what it has read
  swp,      \* per sweeper: its step and the size it copied
  idx,      \* the reindexing process: its position and its projection
  kept,     \* history: the records that reached the log as lines of their own
  failed,   \* history: a rollup failed
  used,     \* history: the members of Ops that have happened
  mishaps

logVars == <<live, exists, torn, marker, archive, rolled>>
sinkVars == <<sink, staged, emitted, ended, quiet, kept>>
telemetry == <<logVars, sinkVars, fin, swp, idx, failed, used, mishaps>>

Line == 3
Records == 1 .. MaxRecords
Good(lines) == Range(lines) \ {0}
Size == Line * Len(live) + (IF torn THEN 1 ELSE 0)
Missing == -1
NoTar == [at |-> "none", lines |-> <<>>]
Partial == [at |-> "partial", lines |-> <<>>]
Whole(lines) == [at |-> "whole", lines |-> lines]
Archived == Good(archive.lines)
CaughtUp == marker >= Size

FinSteps == {"idle", "read", "rollup", "publish"}
SwpSteps == {"idle", "create", "copy", "remove"}

LogTyped ==
  /\ live \in Seq(0 .. MaxRecords) /\ Len(live) <= 2 * MaxRecords
  /\ exists \in BOOLEAN /\ torn \in BOOLEAN
  /\ marker \in Missing .. Line * (2 * MaxRecords + 1)
  /\ archive.at \in {"none", "partial", "whole"} /\ Archived \subseteq Records
  /\ rolled \subseteq Records /\ kept \subseteq Records
  /\ sink \in {"closed", "open", "unlinked"} /\ staged \in Seq(Records)
  /\ emitted \in 0 .. MaxRecords /\ ended \in BOOLEAN /\ quiet \in BOOLEAN
  /\ \A f \in Finalizers : fin[f].at \in FinSteps /\ fin[f].seen \subseteq Records
  /\ \A s \in Sweepers : swp[s] \in SwpSteps
  /\ ~exists => live = <<>> /\ ~torn /\ marker = Missing
  /\ idx.at \in Nat /\ idx.seen \subseteq Records
  /\ failed \in BOOLEAN /\ used \subseteq Ops /\ mishaps \in 0 .. MaxMishaps

NoRead == [at |-> "idle", size |-> 0, seen |-> {}]

LogInit ==
  /\ live = <<>> /\ exists = FALSE /\ torn = FALSE
  /\ marker = Missing /\ archive = NoTar /\ rolled = {}
  /\ sink = "closed" /\ staged = <<>> /\ emitted = 0
  /\ ended = FALSE /\ quiet = FALSE /\ kept = {}
  /\ fin = [f \in Finalizers |-> NoRead]
  /\ swp = [s \in Sweepers |-> "idle"]
  /\ idx = [at |-> 0, seen |-> {}]
  /\ failed = FALSE /\ used = {} /\ mishaps = 0

(***************************************************************************)
(* The collector's sink.                                                   *)
(***************************************************************************)

(* A request for the session opens its log in append mode, creating the    *)
(* directory when it is gone.  A resumed session does so after its end.    *)
OpenSink ==
  /\ sink = "closed" /\ emitted < MaxRecords
  /\ ended => "resume" \in Ops
  /\ used' = used \cup (IF ended THEN {"resume"} ELSE {})
  /\ sink' = "open" /\ ended' = FALSE
  /\ exists' = TRUE
  /\ live' = IF exists THEN live ELSE <<>>
  /\ marker' = IF exists THEN marker ELSE Missing
  /\ torn' = (exists /\ torn)
  /\ quiet' = (exists /\ quiet)
  /\ UNCHANGED <<archive, rolled, staged, emitted, kept, fin, swp, idx, failed, mishaps>>

Emit ==
  /\ sink \in {"open", "unlinked"} /\ emitted < MaxRecords
  /\ emitted' = emitted + 1 /\ staged' = Append(staged, emitted + 1)
  /\ UNCHANGED <<logVars, sink, ended, quiet, kept, fin, swp, idx, failed, mishaps, used>>

\* Mutant: a replacement sink truncates the log it should extend.
AppendedTruncated(lines) == lines

(* The lines a flush leaves.  Behind a torn tail of another process the    *)
(* first record continues that line, and the two make one that is broken.  *)
Appended(lines) == IF torn THEN live \o <<0>> \o Tail(lines) ELSE live \o lines

(* The buffer is drained into the file under its flock.  A sink whose      *)
(* directory was removed writes to a file that nobody can open again.      *)
Flush ==
  /\ staged # <<>> /\ sink \in {"open", "unlinked"}
  /\ staged' = <<>>
  /\ IF sink = "open"
     THEN /\ live' = Appended(staged) /\ torn' = FALSE /\ quiet' = FALSE
          /\ kept' = kept \cup (Good(live') \ Good(live))
     ELSE UNCHANGED <<live, torn, quiet, kept>>
  /\ UNCHANGED <<exists, marker, archive, rolled, sink, emitted, ended,
                 fin, swp, idx, failed, mishaps, used>>

(* A reader may see part of a line that a write is still to complete.      *)
FlushPart ==
  /\ "torn" \in Ops /\ used' = used \cup {"torn"} /\ staged # <<>> /\ sink = "open" /\ ~torn
  /\ torn' = TRUE /\ quiet' = FALSE
  /\ UNCHANGED <<live, exists, marker, archive, rolled, sink, staged, emitted, ended,
                 kept, fin, swp, idx, failed, mishaps>>

FlushRest ==
  /\ torn /\ staged # <<>> /\ sink = "open"
  /\ live' = live \o staged /\ torn' = FALSE /\ quiet' = FALSE
  /\ kept' = kept \cup Range(staged) /\ staged' = <<>>
  /\ UNCHANGED <<exists, marker, archive, rolled, sink, emitted, ended,
                 fin, swp, idx, failed, mishaps, used>>

(* The sink is closed: the launcher detaches at the end of the session, or *)
(* the shared collector closes it after ten idle minutes.                  *)
CloseSink(end) ==
  /\ sink \in {"open", "unlinked"} /\ staged = <<>>
  /\ sink' = "closed" /\ ended' = (ended \/ end)
  /\ UNCHANGED <<logVars, staged, emitted, quiet, kept, fin, swp, idx, failed, mishaps, used>>

(* The collector is killed: what it staged is lost, a torn line stays.     *)
KillCollector ==
  /\ mishaps < MaxMishaps /\ sink # "closed"
  /\ sink' = "closed" /\ staged' = <<>> /\ ended' = TRUE /\ mishaps' = mishaps + 1
  /\ UNCHANGED <<logVars, emitted, quiet, kept, fin, swp, idx, failed, used>>

(* The grace window and the retention age pass.  A session may be idle for *)
(* that long and go on: only the id of the process that sweeps counts as   *)
(* the active one, and a collector of one session keeps its file open.     *)
GoQuiet ==
  /\ exists /\ ~quiet /\ (ended \/ "idle" \in Ops)
  /\ quiet' = TRUE /\ used' = used \cup (IF ended THEN {} ELSE {"idle"})
  /\ UNCHANGED <<logVars, sink, staged, emitted, ended, kept, fin, swp, idx, failed, mishaps>>

(***************************************************************************)
(* Finalizing: replay from the start, roll up, then publish the marker.    *)
(***************************************************************************)

(* A catch-up pass takes quiet logs that are not marked; the end of a      *)
(* session takes its own log whatever its state.  The size is read first.  *)
FinStart(f) ==
  /\ fin[f].at = "idle" /\ exists
  /\ ended \/ (quiet /\ ~CaughtUp)
  /\ fin' = [fin EXCEPT ![f] = [at |-> "read", size |-> Size, seen |-> {}]]
  /\ UNCHANGED <<logVars, sinkVars, swp, idx, failed, mishaps, used>>

(* The lines that begin before the size are read and the good ones kept.   *)
Prefix(lines, size) ==
  SubSeq(lines, 1, IF size > Line * Len(lines) THEN Len(lines) ELSE (size + Line - 1) \div Line)

\* Mutant: the marker is published before the rollup is written.
FinReadMarks(f) ==
  /\ fin[f].at = "read" /\ exists
  /\ fin' = [fin EXCEPT ![f].at = "rollup", ![f].seen = Good(Prefix(live, fin[f].size))]
  /\ marker' = fin[f].size
  /\ UNCHANGED <<live, exists, torn, archive, rolled, sinkVars, swp, idx, failed, mishaps, used>>

FinRead(f) ==
  /\ fin[f].at = "read"
  /\ IF exists THEN fin' = [fin EXCEPT ![f].at = "rollup",
                                       ![f].seen = Good(Prefix(live, fin[f].size))]
               ELSE fin' = [fin EXCEPT ![f] = NoRead]
  /\ UNCHANGED <<logVars, sinkVars, swp, idx, failed, mishaps, used>>

(* The rollup replaces the section of an earlier one; nothing read leaves  *)
(* it alone.  It may fail, which does not withhold the marker.             *)
FinRollup(f) ==
  /\ fin[f].at = "rollup"
  /\ \/ /\ rolled' = IF fin[f].seen = {} THEN rolled ELSE fin[f].seen
        /\ UNCHANGED <<failed, mishaps>>
     \/ /\ mishaps < MaxMishaps /\ mishaps' = mishaps + 1 /\ failed' = TRUE
        /\ UNCHANGED rolled
  /\ fin' = [fin EXCEPT ![f].at = "publish"]
  /\ UNCHANGED <<live, exists, torn, marker, archive, sinkVars, swp, idx, used>>

\* Mutant: a failed rollup withholds the marker.
FinPublishIfRolled(f) ==
  /\ fin[f].at = "publish"
  /\ marker' = IF exists /\ ~failed THEN fin[f].size ELSE marker
  /\ fin' = [fin EXCEPT ![f] = NoRead]
  /\ UNCHANGED <<live, exists, torn, archive, rolled, sinkVars, swp, idx, failed, mishaps, used>>

FinPublish(f) ==
  /\ fin[f].at = "publish"
  /\ marker' = IF exists THEN fin[f].size ELSE marker
  /\ fin' = [fin EXCEPT ![f] = NoRead]
  /\ UNCHANGED <<live, exists, torn, archive, rolled, sinkVars, swp, idx, failed, mishaps, used>>

(* The budget runs out, or the process dies, before the rollup or between  *)
(* the rollup and the marker.                                              *)
FinAbort(f) ==
  /\ fin[f].at # "idle" /\ mishaps < MaxMishaps
  /\ fin' = [fin EXCEPT ![f] = NoRead] /\ mishaps' = mishaps + 1
  /\ UNCHANGED <<logVars, sinkVars, swp, idx, failed, used>>

(***************************************************************************)
(* Retention: judge, write the archive, remove the directory.              *)
(***************************************************************************)
SweepJudges(s) ==
  /\ swp[s] = "idle" /\ exists /\ quiet /\ CaughtUp
  /\ swp' = [swp EXCEPT ![s] = "create"]
  /\ LET overlaps == \E t \in Sweepers : swp[t] # "idle"
     IN /\ overlaps => "overlap" \in Ops
        /\ used' = used \cup (IF overlaps THEN {"overlap"} ELSE {})
  /\ UNCHANGED <<logVars, sinkVars, fin, idx, failed, mishaps>>

(* archiveSession looks again, then truncates or creates the tarball.      *)
SweepCreates(s) ==
  /\ swp[s] = "create"
  /\ IF exists /\ CaughtUp
     THEN archive' = Partial /\ swp' = [swp EXCEPT ![s] = "copy"]
     ELSE swp' = [swp EXCEPT ![s] = "idle"] /\ UNCHANGED archive
  /\ UNCHANGED <<live, exists, torn, marker, rolled, sinkVars, fin, idx, failed, mishaps, used>>

(* The log is copied; when it cannot be opened or read the tarball is      *)
(* removed again and the log is left alone.                                *)
SweepCopies(s) ==
  /\ swp[s] = "copy"
  /\ \/ /\ exists /\ archive' = Whole(live)
        /\ swp' = [swp EXCEPT ![s] = "remove"] /\ UNCHANGED mishaps
     \/ /\ ~exists /\ archive' = NoTar
        /\ swp' = [swp EXCEPT ![s] = "idle"] /\ UNCHANGED mishaps
     \/ /\ mishaps < MaxMishaps /\ mishaps' = mishaps + 1 /\ archive' = NoTar
        /\ swp' = [swp EXCEPT ![s] = "idle"]
  /\ UNCHANGED <<live, exists, torn, marker, rolled, sinkVars, fin, idx, failed, used>>

(* The directory goes, the log and the marker with it.                     *)
SweepRemoves(s) ==
  /\ swp[s] = "remove"
  /\ exists' = FALSE /\ live' = <<>> /\ torn' = FALSE /\ marker' = Missing
  /\ quiet' = FALSE
  /\ sink' = IF sink = "open" THEN "unlinked" ELSE sink
  /\ swp' = [swp EXCEPT ![s] = "idle"]
  /\ UNCHANGED <<archive, rolled, staged, emitted, ended, kept, fin, idx, failed, mishaps, used>>

(* A hook's sweep dies with its process: before the copy is complete, or   *)
(* between the copy and the removal, or with the marker removed first.     *)
SweepDies(s) ==
  /\ swp[s] # "idle" /\ mishaps < MaxMishaps /\ mishaps' = mishaps + 1
  /\ swp' = [swp EXCEPT ![s] = "idle"]
  /\ marker' \in IF swp[s] = "remove" THEN {Missing, marker} ELSE {marker}
  /\ UNCHANGED <<live, exists, torn, archive, rolled, sinkVars, fin, idx, failed, used>>

(* Restoring writes the tarball's log over whatever log there is.          *)
Restore ==
  /\ "restore" \in Ops /\ used' = used \cup {"restore"} /\ archive.at = "whole"
  /\ exists' = TRUE /\ live' = archive.lines /\ torn' = FALSE /\ quiet' = FALSE
  /\ UNCHANGED <<marker, archive, rolled, sink, staged, emitted, ended, kept,
                 fin, swp, idx, failed, mishaps>>

\* Mutant: a pass resumes one line too far.
ReindexPassSkips ==
  /\ "reindex" \in Ops /\ used' = used \cup {"reindex"} /\ exists /\ Size > idx.at
  /\ idx' = [at   |-> Size,
             seen |-> idx.seen \cup Good(SubSeq(live, (idx.at + Line) \div Line + (IF idx.at > 0 THEN 1 ELSE 0), Len(live)))]
  /\ marker' = idx'.at
  /\ UNCHANGED <<live, exists, torn, archive, rolled, sinkVars, fin, swp, failed, mishaps>>

(***************************************************************************)
(* `wipnote reindex`: its position lives in memory, and each pass publishes *)
(* it.  readLine also returns an unterminated last line, whose newline is  *)
(* then counted although it is not there.                                  *)
(***************************************************************************)
ReindexPass ==
  /\ "reindex" \in Ops /\ used' = used \cup {"reindex"} /\ exists /\ Size > idx.at
  /\ LET first == (idx.at + Line - 1) \div Line + 1   \* the first line read whole
     IN idx' = [at   |-> IF torn THEN Size + 1 ELSE Size,
                seen |-> idx.seen \cup Good(SubSeq(live, first, Len(live)))]
  /\ marker' = idx'.at
  /\ UNCHANGED <<live, exists, torn, archive, rolled, sinkVars, fin, swp, failed, mishaps>>

LogNext ==
  \/ OpenSink \/ Emit \/ Flush \/ FlushPart \/ FlushRest
  \/ \E end \in BOOLEAN : CloseSink(end)
  \/ KillCollector \/ GoQuiet
  \/ \E f \in Finalizers : \/ FinStart(f) \/ FinRead(f) \/ FinRollup(f)
                           \/ FinPublish(f) \/ FinAbort(f)
  \/ \E s \in Sweepers : \/ SweepJudges(s) \/ SweepCreates(s) \/ SweepCopies(s)
                         \/ SweepRemoves(s) \/ SweepDies(s)
  \/ Restore \/ ReindexPass

LogSpec == LogInit /\ [][LogNext]_telemetry

(* The daemon runs catch-up and the sweep on tickers, the sink flushes on  *)
(* one, a session ends at last, and a log that nobody writes grows old.    *)
FairLogSpec ==
  /\ LogSpec /\ WF_telemetry(Flush) /\ WF_telemetry(CloseSink(TRUE)) /\ WF_telemetry(GoQuiet)
  /\ \A f \in Finalizers : WF_telemetry(FinStart(f) \/ FinRead(f) \/ FinRollup(f) \/ FinPublish(f))
  /\ \A s \in Sweepers : WF_telemetry(SweepJudges(s) \/ SweepCreates(s) \/ SweepCopies(s)
                                 \/ SweepRemoves(s))

(***************************************************************************)
(* Properties                                                              *)
(***************************************************************************)

(* No record that became a line of the log is lost: it is in the log or in *)
(* the archive (ndjson_sweep.go: "no un-ingested data is ever lost").  The *)
(* three conditions are needed: of two sweeps at once the later truncates  *)
(* and then deletes the tarball of the earlier; a session that is idle for *)
(* the whole window, or resumes, writes between the copy and the removal.  *)
RawLogKept ==
  used \cap {"overlap", "idle", "resume"} = {} =>
    kept \subseteq (IF exists THEN Good(live) ELSE {}) \cup Archived

(* A log that its marker calls consumed is rolled up, unless a rollup      *)
(* failed: nobody would look at it again (finalize.go: the marker is       *)
(* "never written before the rollup that depends on those bytes").  A      *)
(* reindex publishes the marker with no rollup.                            *)
SealedRollup ==
  exists /\ CaughtUp /\ ~failed /\ "reindex" \notin used => Good(live) \subseteq rolled

(* An indexer that reached the end has read every line.  A line found      *)
(* unterminated once ("left uncheckpointed so the next poll retries") is   *)
(* the exception: its newline is counted before it is there.  So is a log  *)
(* that was archived and begun anew, behind the position of the old one.   *)
ReplayComplete ==
  used \cap {"torn", "idle", "resume"} = {} /\ exists /\ ~torn /\ idx.at >= Size =>
    Good(live) \subseteq idx.seen

(* What the readers of a log may rely on in every state.                   *)
LogSound == LogTyped /\ SealedRollup /\ ReplayComplete

(* A session that ended has its telemetry accounted for in the end, and    *)
(* its log put away, whatever died on the way.                             *)
PutAway ==
  ended ~> (used # {} \/ kept = {} \/ (~exists /\ (failed \/ kept \subseteq rolled)))
=============================================================================

------------------------------ MODULE Capture ------------------------------
(***************************************************************************)
(* The life of a log file: runs of the agent append lines to it            *)
(* (output/jsonl.go), are killed in the middle of one, fill the disk, lose *)
(* power, start again; and a replay reads it back (events/record.go,       *)
(* replay in cmd/krnlsentry/main.go), possibly while a run is writing.     *)
(*                                                                         *)
(* The bytes of the file are kept as far as they can be told apart: the    *)
(* whole text of a record, a proper prefix of it, a newline.  No record    *)
(* glued to the text of another parses as JSON: the prefix of an object    *)
(* lacks its closing brace, and text after an object is an error.          *)
(***************************************************************************)
EXTENDS Integers, Sequences, FiniteSets

CONSTANTS
    Unknown,     \* the records whose syscall this build cannot name
    MaxRecords,  \* bound: records handed to the sinks
    MaxRuns,     \* bound: runs that write to the file
    MaxTears     \* bound: writes cut short

ASSUME CaptureAssumption ==
    /\ Unknown \subseteq Nat
    /\ MaxRecords \in Nat /\ MaxRuns \in Nat /\ MaxTears \in Nat

VARIABLES
    sink,       \* what the file is: "alerts" (JSONLSink) or "events" (EventSink)
    file,       \* its content
    durable,    \* how much of it is known to be on the disk
    agent,      \* "down", or "up" with the file open
    encErr,     \* json.Encoder.err of the run
    runs,       \* runs so far
    records,    \* records handed to the sinks so far
    acked,      \* records whose Write returned nil, unless power loss took
                \* any of what was written
    settled,    \* the alerts in the file when a run synced and closed it
    tears,      \* writes, or losses of power, that left a piece of a line
    reader,     \* the replay: [at, pos, pendingErr, result]
    delivered   \* the events it handed to process, in order

logVars == <<sink, file, durable, agent, encErr, runs, records, acked, settled, tears>>
readVars == <<reader, delivered>>
vars == <<logVars, readVars>>

Whole(n) == [rec |-> n, whole |-> TRUE]
Part(n) == [rec |-> n, whole |-> FALSE]
Newline == [rec |-> 0, whole |-> TRUE]

NoReader == [at |-> "idle", pos |-> 0, pendingErr |-> FALSE, result |-> "none"]

Init ==
    /\ sink \in {"alerts", "events"}
    /\ file = <<>> /\ durable = 0
    /\ agent = "down" /\ encErr = FALSE /\ runs = 0
    /\ records = 0 /\ acked = {} /\ settled = {} /\ tears = 0
    /\ reader = NoReader /\ delivered = <<>>

-----------------------------------------------------------------------------
(* The file. *)

\* The record at position i of f is alone on its line.  The last line need
\* not be terminated.
Alone(f, i) ==
    /\ f[i] # Newline /\ f[i].whole
    /\ i = 1 \/ f[i - 1] = Newline
    /\ i = Len(f) \/ f[i + 1] = Newline

Standing(f) == {f[i].rec : i \in {j \in 1..Len(f) : Alone(f, j)}}
Complete(f) == {f[i].rec : i \in {j \in 1..Len(f) : f[j].whole}} \ {0}

\* The records that are in f with the newline that was written with them.
Ended(f) == {f[i].rec : i \in {j \in 1..(Len(f) - 1) : f[j].whole /\ f[j + 1] = Newline}} \ {0}

\* What may be left of the text of record n when its write is cut short.
Pieces(n) == {<<>>, <<Part(n)>>, <<Whole(n)>>}

\* What may be left of the file when power is lost: it may be cut anywhere
\* past its durable part, also inside a record.
Remains ==
    UNION {LET kept == SubSeq(file, 1, k) IN
           {kept} \cup (IF k < Len(file) /\ file[k + 1] # Newline
                        THEN {Append(kept, Part(file[k + 1].rec))} ELSE {})
           : k \in durable..Len(file)}

Torn(f) == f # <<>> /\ f[Len(f)] # Newline
TearsOf(f) == IF Torn(f) THEN tears + 1 ELSE tears

-----------------------------------------------------------------------------
(* The runs that write. *)

\* NewJSONLSink, NewEventSink: the file is opened for appending.
OpenedTruncating == <<>>
Opened == file

Open ==
    /\ agent = "down" /\ runs < MaxRuns
    /\ agent' = "up" /\ encErr' = FALSE /\ runs' = runs + 1
    /\ file' = Opened
    /\ UNCHANGED <<sink, durable, records, acked, settled, tears, readVars>>

\* An Encoder that failed once fails for ever.
EncErrAfterRetried == FALSE
EncErrAfter == TRUE

\* JSONLSink.Write and EventSink.WriteEvent: the record and its newline in
\* one write, unbuffered.
Write ==
    /\ agent = "up" /\ records < MaxRecords /\ ~encErr
    /\ records' = records + 1
    /\ file' = file \o <<Whole(records + 1), Newline>>
    /\ acked' = acked \cup {records + 1}
    /\ UNCHANGED <<sink, durable, agent, encErr, runs, settled, tears, readVars>>

\* The write fails part of the way, on a full disk for example.
WriteFails ==
    /\ agent = "up" /\ records < MaxRecords /\ ~encErr /\ tears < MaxTears
    /\ records' = records + 1
    /\ \E piece \in Pieces(records + 1) : file' = file \o piece
    /\ encErr' = EncErrAfter
    /\ tears' = TearsOf(file')
    /\ UNCHANGED <<sink, durable, agent, runs, acked, settled, readVars>>

\* Encode returns the earlier error without writing.
WriteRefused ==
    /\ agent = "up" /\ records < MaxRecords /\ encErr
    /\ records' = records + 1
    /\ UNCHANGED <<sink, file, durable, agent, encErr, runs, acked, settled, tears, readVars>>

\* Close.  JSONLSink syncs the file first, EventSink does not; a sync that
\* fails is reported, and the file is closed all the same.
DurableAfterCloseUnsynced == durable
DurableAfterClose == IF sink = "alerts" THEN Len(file) ELSE durable

Close ==
    /\ agent = "up" /\ agent' = "down"
    /\ \/ /\ durable' = DurableAfterClose
          /\ settled' = IF sink = "alerts" THEN Complete(file) ELSE settled
       \/ UNCHANGED <<durable, settled>>
    /\ UNCHANGED <<sink, file, encErr, runs, records, acked, tears, readVars>>

\* SIGKILL, between two writes or during one, which may even be complete but
\* for the answer.  What was written stays in the file.
Killed ==
    /\ agent = "up" /\ agent' = "down" /\ tears < MaxTears
    /\ \/ UNCHANGED <<file, records>>
       \/ /\ ~encErr /\ records < MaxRecords
          /\ records' = records + 1
          /\ \E piece \in Pieces(records + 1) \cup {<<Whole(records + 1), Newline>>} :
                file' = file \o piece
    /\ tears' = TearsOf(file')
    /\ UNCHANGED <<sink, durable, encErr, runs, acked, settled, readVars>>

\* The machine loses power: agent and replay are gone, and what was not on
\* the disk may be.
PowerLoss ==
    /\ tears < MaxTears
    /\ agent' = "down"
    /\ \E f \in Remains :
          /\ file' = f /\ durable' = Len(f)
          /\ acked' = acked \cap Ended(f)
          /\ tears' = TearsOf(f)
    /\ reader' = NoReader /\ delivered' = <<>>
    /\ UNCHANGED <<sink, encErr, runs, records, settled>>

-----------------------------------------------------------------------------
(* ReadRecords, and replay around it. *)

StartReplay ==
    /\ sink = "events" /\ reader.at \in {"idle", "done"}
    /\ reader' = [NoReader EXCEPT !.at = "reading"]
    /\ delivered' = <<>>
    /\ UNCHANGED logVars

\* The position before the newline that ends the line after pos, or the end.
LineEnd(pos) ==
    CHOOSE e \in pos..Len(file) :
        /\ e = Len(file) \/ file[e + 1] = Newline
        /\ \A i \in (pos + 1)..e : file[i] # Newline

\* json.Unmarshal wants one object and nothing else on the line.
ParsesPrefix(line) == line[1].whole
Parses(line) == Len(line) = 1 /\ line[1].whole

Ends(result) == [reader EXCEPT !.at = "done", !.result = result]

\* Past the line that ends before position e; a line without a newline is
\* the last one the scanner returns, whatever is appended meanwhile.
Past(e) ==
    IF e < Len(file) THEN [reader EXCEPT !.pos = e + 1]
    ELSE [reader EXCEPT !.pos = e, !.at = "ending"]

\* A malformed line is remembered; it is an error once another line follows.
ReadMalformed(line, e) ==
    /\ ~reader.pendingErr /\ ~Parses(line)
    /\ reader' = [Past(e) EXCEPT !.pendingErr = TRUE]
    /\ UNCHANGED delivered

ReadCorrupt ==
    /\ reader.pendingErr
    /\ reader' = Ends("error")
    /\ UNCHANGED delivered

\* Record.Event does not know the syscall.
ReadUnknown(line) ==
    /\ ~reader.pendingErr /\ Parses(line) /\ line[1].rec \in Unknown
    /\ reader' = Ends("error")
    /\ UNCHANGED delivered

\* The event goes to process; before each one the pacer looks for a signal.
ReadEvent(line, e) ==
    /\ ~reader.pendingErr /\ Parses(line) /\ line[1].rec \notin Unknown
    /\ \/ reader' = Past(e) /\ delivered' = Append(delivered, line[1].rec)
       \/ reader' = Ends("interrupted") /\ UNCHANGED delivered

ReadLine ==
    /\ reader.at = "reading" /\ reader.pos < Len(file)
    /\ LET e == LineEnd(reader.pos)
           line == SubSeq(file, reader.pos + 1, e)
       IN  \/ ReadMalformed(line, e)
           \/ ReadCorrupt
           \/ ReadUnknown(line)
           \/ ReadEvent(line, e)
    /\ UNCHANGED logVars

\* The end of the file: an error that is still pending is forgotten.
EndOfFile ==
    /\ reader.at = "ending" \/ (reader.at = "reading" /\ reader.pos = Len(file))
    /\ reader' = Ends("ok")
    /\ UNCHANGED <<delivered, logVars>>

-----------------------------------------------------------------------------
Writing == Open \/ Write \/ WriteFails \/ WriteRefused \/ Close
Fault == Killed \/ PowerLoss
Reading == StartReplay \/ ReadLine \/ EndOfFile

Next == Writing \/ Fault \/ Reading

Spec == Init /\ [][Next]_vars

-----------------------------------------------------------------------------
\* The types of the file's and the replay's state.
TypeOK ==
    /\ sink \in {"alerts", "events"}
    /\ file \in Seq([rec : 0..MaxRecords, whole : BOOLEAN])
    /\ durable \in 0..Len(file)
    /\ agent \in {"down", "up"} /\ encErr \in BOOLEAN
    /\ runs \in 0..MaxRuns /\ records \in 0..MaxRecords /\ tears \in 0..MaxTears
    /\ acked \subseteq 1..records /\ settled \subseteq 1..records
    /\ reader \in [at : {"idle", "reading", "ending", "done"}, pos : 0..Len(file),
                   pendingErr : BOOLEAN,
                   result : {"none", "ok", "error", "interrupted"}]
    /\ delivered \in Seq(1..records)

\* A capture of a single run can be read back however the run ended, full
\* disks and kills and loss of power included: the torn line is the last one,
\* which ReadRecords tolerates.  Write errors do not end a run, so this rests
\* on the Encoder refusing to write after one.
OneRunReadsBack ==
    runs = 1 /\ reader.result = "error" => Complete(file) \cap Unknown # {}

Delivered == {delivered[i] : i \in 1..Len(delivered)}

\* A replay hands to the engine exactly the records that are alone on their
\* line, in the order they were written, up to where it stopped: no
\* corruption of the file makes it invent, repeat, reorder or skip one.
ReplayFaithful ==
    LET read == SubSeq(file, 1, reader.pos)
    IN  /\ Delivered = Standing(read)
        /\ \A i, j \in 1..Len(delivered) : i < j => delivered[i] < delivered[j]

\* A run that starts on a torn line writes its first record into it, so a
\* tear can cost, beyond the record that was cut, one that was acknowledged:
\* never more, and nothing that earlier runs wrote.
TearCostsOne == Cardinality(acked \ Standing(file)) <= tears

\* Alerts of a run that was asked to stop, and could sync its log, survive
\* everything that comes later: kills, restarts, full disks, loss of power.
StoppedRunsSurvive == settled \subseteq Complete(file)

\* What the comment at ReadRecords says of a malformed line: it is an error,
\* never skipped, so that a replay does not report success after quietly
\* dropping an event; only a truncated final line is tolerated.
DropsNothingQuietly ==
    reader.result = "ok" =>
        acked \cap Complete(SubSeq(file, 1, reader.pos)) \subseteq Delivered
=============================================================================

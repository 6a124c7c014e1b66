----------------------------- MODULE RuntimeLog -----------------------------
(***************************************************************************)
(* The runtime logger of the two programs: a console writer and a file     *)
(* writer behind one mutex, with counters.  The file is renamed to a       *)
(* backup when the next event would make it too large, and the oldest      *)
(* backups are removed.  Any call to the file system may fail.             *)
(***************************************************************************)
EXTENDS Naturals, Sequences, SequencesExt, FiniteSets

CONSTANTS
  MaxEvents,   \* bound: events written
  MaxLen,      \* bound: length of an event
  MaxClock     \* bound: times the clock shows; it may be set back

VARIABLES
  settings,   \* LogSettings: outputs in order, level, path, max_size, max_backups
  writer,     \* RotatingFileWriter and its directory, see writer_open
  console,    \* events on the console
  metrics,    \* RuntimeLogMetrics
  seen        \* history: events offered and lost, and what rotations did

log_vars == <<settings, writer, console, metrics, seen>>

(* LogLevel: larger is more severe; an event below the level is dropped.   *)
allows(event) == event.level >= settings.level

HasFile(s) == "file" \in ToSet(s.outputs) /\ s.path

(* RotatingFileWriter::open, and the rest of DefaultRuntimeLogger::open: a *)
(* file output without a path has no writer.                               *)
writer_open(s) ==
  [file |-> IF HasFile(s) THEN "open" ELSE "none", size |-> 0,
   current |-> <<>>, exists |-> HasFile(s), backups |-> {},
   pruned |-> {}, unpruned |-> FALSE, clock |-> 0, monotone |-> TRUE]

LogInit(s) ==
  /\ settings = s
  /\ writer = writer_open(s)
  /\ console = <<>>
  /\ metrics = [events |-> 0, console |-> 0, file |-> 0]
  /\ seen = [offered |-> 0, failed_len |-> 0]

log_open(s) == settings' = s /\ writer' = writer_open(s) /\ UNCHANGED <<console, metrics, seen>>

should_rotate(w, len) ==
  settings.max_size > 0 /\ w.size > 0 /\ w.size + len > settings.max_size

(* Names of backups sort by their time; of two with the same time, one     *)
(* with a number comes first ('-' sorts before the '.' of the extension).  *)
Before(a, b) ==
  \/ a.time < b.time
  \/ a.time = b.time /\ a.attempt > 0 /\ (b.attempt = 0 \/ a.attempt < b.attempt)

\* Slip: the first name is taken whether or not it exists.
rotated_path_first(w, time) == [time |-> time, attempt |-> 0]

(* The first name that does not exist.                                     *)
rotated_path(w, time) ==
  LET Name(i) == [time |-> time, attempt |-> i]
      names == {b.name : b \in w.backups}
  IN Name(CHOOSE i \in 0..MaxEvents :
            Name(i) \notin names /\ \A j \in 0..(i - 1) : Name(j) \in names)

\* Slip: the backups that sort last are removed.
prune_backups_last(bs) ==
  {b \in bs : Cardinality({c \in bs : Before(b.name, c.name)})
                + settings.max_backups < Cardinality(bs)}

(* The backups removed: those that sort first, as many as are too many.    *)
prune_backups(bs) ==
  {b \in bs : Cardinality({c \in bs : Before(c.name, b.name)})
                + settings.max_backups < Cardinality(bs)}

EventsOf(bs) == UNION {ToSet(b.events) : b \in bs}

(* A rotation stops at the call that fails; a failing removal is ignored.  *)
RotateFaults == {"flush", "rename", "prune", "open"}

\* Slip: the size is reset with the file that is closed.
size_after_at_once(w, reopened) == 0

(* The size is reset when the new file is open, not before.                *)
size_after(w, reopened) == IF reopened THEN 0 ELSE w.size

(* The file is closed and renamed, if it is there, to a backup named after *)
(* the time the clock shows; backups are pruned, and a new file is opened. *)
rotate(w, time, fault) ==
  LET moved == w.exists /\ fault \notin {"flush", "rename"}
      name == rotated_path(w, time)
      kept == {b \in w.backups : b.name # name} \cup {[name |-> name, events |-> w.current]}
      gone == IF fault \in {"prune", "remove"} THEN {} ELSE prune_backups(kept)
      reopened == fault \notin RotateFaults
  IN [w EXCEPT
        !.file = IF reopened THEN "open" ELSE "closed",
        !.size = size_after(w, reopened),
        !.exists = reopened \/ (@ /\ ~moved),
        !.current = IF moved THEN <<>> ELSE @,
        !.backups = IF moved THEN kept \ gone ELSE @,
        !.pruned = IF moved THEN @ \cup EventsOf(gone) ELSE @,
        !.unpruned = IF moved THEN fault \in {"prune", "remove"} ELSE @,
        !.clock = IF moved THEN time ELSE @,
        !.monotone = @ /\ (moved => time > w.clock)]

(* RotatingFileWriter::write_all; "write" is the write itself failing.     *)
write_all(w, event, time, fault) ==
  LET r == IF should_rotate(w, event.len) THEN rotate(w, time, fault) ELSE w
  IN IF r.file # "open" \/ fault = "write" THEN r
     ELSE [r EXCEPT !.current = Append(@, event.id), !.size = @ + event.len]

FaultsOf(event) ==
  {"none", "write", "console"}
    \cup IF should_rotate(writer, event.len) THEN RotateFaults \cup {"remove"} ELSE {}

(* The outputs are written in order; the first error returns.              *)
Reached(done, i) == \A j \in 1..(i - 1) : done[j]

(* RuntimeLogger::write_event, under the mutex of the tracing layer, which *)
(* ignores the error; `time' is what the clock shows in a rotation.        *)
write_event(event, time, fault) ==
  /\ allows(event)
  /\ LET outputs == settings.outputs
         wrote == write_all(writer, event, time, fault)
         file_ok == writer.file = "none" \/ (wrote.file = "open" /\ fault # "write")
         done == [i \in 1..Len(outputs) |->
                    IF outputs[i] = "console" THEN fault # "console" ELSE file_ok]
         Tried(o) == \E i \in 1..Len(outputs) : outputs[i] = o /\ Reached(done, i)
         on_console == Tried("console") /\ fault # "console"
         on_file == Tried("file") /\ writer.file # "none"
     IN /\ console' = IF on_console THEN Append(console, event.id) ELSE console
        /\ writer' = IF on_file THEN wrote ELSE writer
        /\ metrics' = [events |-> metrics.events + (IF \A i \in DOMAIN done : done[i] THEN 1 ELSE 0),
                       console |-> metrics.console + (IF on_console THEN 1 ELSE 0),
                       file |-> metrics.file + (IF on_file /\ file_ok THEN 1 ELSE 0)]
        /\ seen' = [offered |-> event.id,
                    failed_len |-> IF writer'.file # "closed" THEN 0
                                   ELSE IF writer.file = "open" THEN event.len
                                   ELSE seen.failed_len]
  /\ UNCHANGED settings

(* An event of one of the program's tasks; an event below the level is     *)
(* refused by the layer and changes nothing.                               *)
on_event ==
  /\ seen.offered < MaxEvents
  /\ \E len \in 1..MaxLen, level \in {1, 2} :
       LET event == [id |-> seen.offered + 1, len |-> len, level |-> level]
       IN \E fault \in FaultsOf(event),
            time \in IF should_rotate(writer, len) THEN 1..MaxClock ELSE {1} :
            write_event(event, time, fault)

-----------------------------------------------------------------------------
FileEvents == ToSet(writer.current) \cup EventsOf(writer.backups) \cup writer.pruned

(* No event is lost once it is counted: an event counted for the file is   *)
(* in the file, in a backup, or was in a pruned one (a rotation never      *)
(* overwrites a backup), one counted for the console is there, and the     *)
(* total counts exactly the events that reached every output.  At most     *)
(* max_backups backups remain unless the last pruning failed, and while    *)
(* the clock advances between rotations every event pruned is older than   *)
(* every event kept.  A rotation that fails half way does not end logging  *)
(* to the file: the next event at least as long as the one that failed     *)
(* tries it again.                                                         *)
LogAccounts ==
  /\ metrics.file = Cardinality(FileEvents)
  /\ metrics.console = Len(console)
  /\ metrics.events =
       Cardinality({e \in 1..seen.offered :
                      /\ "console" \in ToSet(settings.outputs) => e \in ToSet(console)
                      /\ HasFile(settings) => e \in FileEvents})
  /\ writer.unpruned \/ Cardinality(writer.backups) <= settings.max_backups
  /\ writer.monotone =>
       \A p \in writer.pruned, e \in EventsOf(writer.backups) \cup ToSet(writer.current) : p < e
  /\ writer.file = "closed" => should_rotate(writer, seen.failed_len)

=============================================================================

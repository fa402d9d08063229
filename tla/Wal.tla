-------------------------------- MODULE Wal --------------------------------
(***************************************************************************)
(* The length-prefixed files of the engine: Wal of engine/crates/core and  *)
(* EventLog of engine/crates/server, with write errors, crashes in the     *)
(* middle of a write and the recovery that open performs.                  *)
(*                                                                         *)
(* A file is a sequence of pieces: whole records, and what is left of a    *)
(* record whose write the crash cut, in its 4-byte length or in its        *)
(* payload.  Bytes after a cut length are misaligned for the reader: the   *)
(* length it decodes from them is wrong and the read or the decoding       *)
(* fails.  A payload is the number of the append that wrote it.            *)
(***************************************************************************)
EXTENDS Integers, Sequences, FiniteSets, FiniteSetsExt

CONSTANTS
  CountFirst,     \* Wal::append increments sequence before it writes, EventLog after
  Cuts,           \* where a crash may cut a record: "length", "payload"
  MaxAppends,     \* bound: calls of append
  MaxFailures,    \* bound: appends whose flush fails
  MaxWalCrashes   \* bound: crashes

ASSUME WalAssumption ==
  /\ CountFirst \in BOOLEAN /\ Cuts \subseteq {"length", "payload"}
  /\ MaxAppends \in Nat /\ MaxFailures \in Nat /\ MaxWalCrashes \in Nat

VARIABLES
  file,       \* the pieces on disk
  buffer,     \* records in the BufWriter that a failed flush left there
  sequence,   \* the field sequence
  up,         \* the file is open
  appends,    \* how many appends were called
  failures,   \* how many of them failed
  walCrashes,
  acked,      \* history: the appends that returned Ok
  hidden      \* history: those of them written behind a torn length prefix

walVars == <<file, buffer, sequence, up, appends, failures, walCrashes, acked, hidden>>

Record(n, s) == [kind |-> "record", seq |-> s, cmd |-> n]
Cut(where)   == [kind |-> where]

(* The records replay returns: read_one_entry stops at the first cut. *)
Broken(f)   == {k \in DOMAIN f : f[k].kind # "record"}
Readable(f) == IF Broken(f) = {} THEN f ELSE SubSeq(f, 1, Min(Broken(f)) - 1)

(* read_one_entry takes a cut length at the very end for a clean end of    *)
(* the file; every other cut is an error.  Several cut lengths in a row    *)
(* are still shorter than four bytes, or are decoded as some length.       *)
TornPrefix(f) == Broken(f) # {} /\ f[Min(Broken(f))].kind = "length"

ReadsClean(f) ==
  IF Broken(f) = {} THEN {TRUE}
  ELSE IF \E k \in Min(Broken(f))..Len(f) : f[k].kind # "length" THEN {FALSE}
  ELSE IF Min(Broken(f)) = Len(f) THEN {TRUE} ELSE BOOLEAN

LastSeq(f) == IF Readable(f) = <<>> THEN 0 ELSE Readable(f)[Len(Readable(f))].seq

WalInit ==
  /\ file = <<>> /\ buffer = <<>> /\ sequence = 0 /\ up = TRUE
  /\ appends = 0 /\ failures = 0 /\ walCrashes = 0 /\ acked = {} /\ hidden = {}

(* append writes into the BufWriter and flushes; a flush also writes what  *)
(* earlier failed flushes left in the buffer.                              *)
NewRecord == Record(appends + 1, sequence + 1)

AppendOk ==
  /\ up /\ appends < MaxAppends
  /\ appends' = appends + 1
  /\ file' = file \o buffer \o <<NewRecord>>
  /\ buffer' = <<>>
  /\ sequence' = sequence + 1
  /\ acked' = acked \cup {appends + 1}
  /\ hidden' = IF TornPrefix(file) THEN hidden \cup {appends + 1} ELSE hidden
  /\ UNCHANGED <<up, failures, walCrashes>>

(* The flush fails before anything reaches the file (disk full).  The      *)
(* caller gets an error, the record stays in the buffer.                   *)
AppendFails ==
  /\ up /\ appends < MaxAppends /\ failures < MaxFailures
  /\ appends' = appends + 1 /\ failures' = failures + 1
  /\ buffer' = Append(buffer, NewRecord)
  /\ sequence' = IF CountFirst THEN sequence + 1 ELSE sequence
  /\ UNCHANGED <<file, up, walCrashes, acked, hidden>>

(* The process dies between two appends, or while one is writing: then the *)
(* file holds some of the records being written and a part of the next.    *)
WalCrash ==
  /\ up /\ walCrashes < MaxWalCrashes
  /\ up' = FALSE /\ walCrashes' = walCrashes + 1 /\ buffer' = <<>>
  /\ \/ UNCHANGED <<file, appends>>
     \/ /\ appends < MaxAppends /\ appends' = appends + 1
        /\ LET writing == Append(buffer, NewRecord)
           IN \E k \in 0..Len(buffer), where \in Cuts :
                file' = file \o SubSeq(writing, 1, k) \o <<Cut(where)>>
  /\ UNCHANGED <<sequence, failures, acked, hidden>>

(* Mutants of Open: the cut is left in the file; every piece is counted. *)
OpenWithoutTruncate ==
  /\ ~up /\ up' = TRUE
  /\ sequence' = LastSeq(file)
  /\ UNCHANGED <<file, buffer, appends, failures, walCrashes, acked, hidden>>
OpenCountsPieces ==
  /\ ~up /\ up' = TRUE
  /\ \E clean \in ReadsClean(file) : file' = IF clean THEN file ELSE Readable(file)
  /\ sequence' = Len(file)
  /\ UNCHANGED <<buffer, appends, failures, walCrashes, acked, hidden>>

(* open: replay truncates to the last good record on an error, and the     *)
(* sequence goes on from the last record.                                  *)
Open ==
  /\ ~up
  /\ up' = TRUE
  /\ \E clean \in ReadsClean(file) : file' = IF clean THEN file ELSE Readable(file)
  /\ sequence' = LastSeq(file)
  /\ UNCHANGED <<buffer, appends, failures, walCrashes, acked, hidden>>

WalNext == AppendOk \/ AppendFails \/ WalCrash \/ Open

WalSpec == WalInit /\ [][WalNext]_walVars

-----------------------------------------------------------------------------
(* Type invariant. *)
WalTypeOK ==
  /\ sequence \in 0..MaxAppends /\ up \in BOOLEAN
  /\ \A k \in DOMAIN file : file[k].kind \in {"record"} \cup Cuts
  /\ acked \subseteq 1..appends

Payloads(f) == [k \in DOMAIN f |-> f[k].cmd]

(* The file implements the durable log the engine relies on, for every     *)
(* append acknowledged while no torn length prefix is in the file: what a  *)
(* reader gets only grows, and such an append stays readable through every *)
(* later failed flush, crash at any byte and reopening.  replay does not   *)
(* see a torn prefix (wal.rs:146), so what is acknowledged behind one is   *)
(* in hidden, and the next crash and replay drop it: AckedReadable below.  *)
Abstract == INSTANCE DurableLog WITH log <- Payloads(Readable(file)), acked <- acked \ hidden
Durable  == Abstract!LogSpec

(* The records a reader of the command WAL gets are numbered 1, 2, 3, ...  *)
(* without gap or repetition, whatever flush failed and wherever a crash   *)
(* cut the file: WalEntry.seq, which find_last_seq goes on from.  (The     *)
(* event log counts after it writes, CountFirst = FALSE, and can repeat a  *)
(* number after a failed flush.)                                           *)
NumberedByOne == \A k \in DOMAIN Readable(file) : Readable(file)[k].seq = k

-----------------------------------------------------------------------------
(* Statements of the repository that the code does not meet. *)

(* wal.rs: replay "Reads all valid entries" and "Truncates a corrupt tail  *)
(* if detected".  A cut length is not detected, later appends follow it    *)
(* and the next replay drops them although they were acknowledged.         *)
AckedReadable == acked \subseteq {Readable(file)[k].cmd : k \in DOMAIN Readable(file)}
=============================================================================

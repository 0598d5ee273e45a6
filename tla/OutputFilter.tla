---------------------------- MODULE OutputFilter ----------------------------
(***************************************************************************)
(* The filter that keeps the first and the last bytes of the output of a   *)
(* solver: class CircularBufferFilter (CircularBufferFilter.hh), with the  *)
(* loop of systemWrite around write(2).                                    *)
(*                                                                         *)
(* A byte is the number of its place in the output of the solver.          *)
(***************************************************************************)
EXTENDS Integers, Sequences

CONSTANTS
  activateSize, \* bytes kept at the beginning
  maxSize,      \* bytes kept in all
  MaxInput      \* bound: bytes the solver puts out

ASSUME FilterAssumption ==
  /\ activateSize \in Nat
  /\ maxSize \in Nat
  /\ activateSize < maxSize
  /\ MaxInput \in Nat

bufferSize == maxSize - activateSize

(* The text that says how many bytes are missing.                          *)
Message == 0

VARIABLES
  total,     \* bytes sent to the filter
  allocated, \* data # NULL
  data, w,   \* the circular buffer and the place where to write next
  file,      \* what has been written to fd
  out,       \* what the call of systemWrite in progress has yet to write
  len,       \* bytes of the call of write yet to be copied
  pc,        \* idle, or the call in progress
  failed     \* some write(2) has failed

vars == <<total, allocated, data, w, file, out, len, pc, failed>>

-----------------------------------------------------------------------------
Bytes(a, b) == [i \in 1..(b - a + 1) |-> a + i - 1]

(* The cells i to j - 1 of the buffer.                                     *)
Slice(i, j) == [k \in 1..(j - i) |-> data[i + k - 1]]

Init ==
  /\ total = 0
  /\ allocated = FALSE
  /\ data = [i \in 0..(bufferSize - 1) |-> 0]
  /\ w = 0
  /\ file = <<>>
  /\ out = <<>>
  /\ len = 0
  /\ pc = "idle"
  /\ failed = FALSE

(* How many of n new bytes still belong to the beginning.                  *)
(* The mutant forgets the bytes sent before.                               *)
HeadPartAlone(n) == IF total + n < activateSize THEN n
                ELSE IF total < activateSize THEN activateSize ELSE 0

HeadPart(n) == IF total + n < activateSize THEN n
           ELSE IF total < activateSize THEN activateSize - total ELSE 0

(* write: the call begins, up to its systemWrite.                          *)
write(n) ==
  /\ pc = "idle"
  /\ total + n <= MaxInput
  /\ total' = total + n
  /\ out' = Bytes(total + 1, total + HeadPart(n))
  /\ len' = n - HeadPart(n)
  /\ allocated' = (allocated \/ total + n >= activateSize)
  /\ w' = IF allocated THEN w ELSE 0
  /\ pc' = "write"
  /\ UNCHANGED <<data, file, failed>>

(* One turn of the loop that copies into the buffer, up to its end or to   *)
(* the end of the bytes.                                                   *)
Chunk == IF len > bufferSize - w THEN bufferSize - w ELSE len

(* The mutant turns round one cell too late.                               *)
WrapLate(i) == IF i > bufferSize THEN 0 ELSE i

Wrap(i) == IF i >= bufferSize THEN 0 ELSE i

Copied ==
  [i \in 0..(bufferSize - 1) |->
     IF w <= i /\ i < w + Chunk THEN total - len + 1 + (i - w) ELSE data[i]]

copy ==
  /\ pc = "copy"
  /\ data' = Copied
  /\ w' = Wrap(w + Chunk)
  /\ len' = len - Chunk
  /\ pc' = IF len - Chunk > 0 THEN "copy" ELSE "idle"
  /\ UNCHANGED <<total, allocated, file, out, failed>>

(* The destructor: flush begins.                                           *)
flush ==
  /\ pc = "idle"
  /\ IF ~allocated THEN pc' = "closed" /\ UNCHANGED out
     ELSE IF total <= maxSize
     THEN pc' = "flush" /\ out' = Slice(0, total - activateSize)
     ELSE pc' = "flushMsg" /\ out' = <<Message>>
  /\ UNCHANGED <<total, allocated, data, w, file, len, failed>>

-----------------------------------------------------------------------------
(* systemWrite.                                                            *)

Left(n) == SubSeq(out, n + 1, Len(out))

(* write(2) takes n of the bytes that are left.                            *)
SysWrite(n) ==
  /\ n \in 1..Len(out)
  /\ file' = file \o SubSeq(out, 1, n)
  /\ out' = Left(n)
  /\ UNCHANGED <<total, allocated, data, w, len, pc, failed>>

(* write(2) fails for another reason than a signal: the call is given up.  *)
SysError ==
  /\ out # <<>>
  /\ out' = <<>>
  /\ failed' = TRUE
  /\ UNCHANGED <<total, allocated, data, w, file, len, pc>>

(* The mutant puts the two parts of the buffer the wrong way round.        *)
FlushedSwapped ==
  \/ pc = "flushMsg" /\ pc' = "flushOld" /\ out' = Slice(0, w)
  \/ pc = "flushOld" /\ pc' = "flushNew" /\ out' = Slice(w, bufferSize)

(* The order of the three systemWrites of flush: the message, the bytes    *)
(* from w on, which are the oldest, then those before w.                   *)
Flushed ==
  \/ pc = "flushMsg" /\ pc' = "flushOld" /\ out' = Slice(w, bufferSize)
  \/ pc = "flushOld" /\ pc' = "flushNew" /\ out' = Slice(0, w)

(* systemWrite returns, and its caller goes on.                            *)
Return ==
  /\ out = <<>>
  /\ \/ Flushed
     \/ pc \in {"flush", "flushNew"} /\ pc' = "closed" /\ UNCHANGED out
     \/ pc = "write" /\ pc' = (IF len > 0 THEN "copy" ELSE "idle") /\ UNCHANGED out
  /\ UNCHANGED <<total, allocated, data, w, file, len, failed>>

Step == copy \/ Return \/ \E n \in 1..Len(out) : SysWrite(n)

Next ==
  \/ \E n \in 1..MaxInput : write(n)
  \/ flush
  \/ Step
  \/ SysError

Spec == Init /\ [][Next]_vars

(* A call that has begun goes on: its thread does nothing else, and the    *)
(* kernel takes bytes or reports an error.                                 *)
FairSpec == Spec /\ WF_vars(Step)
-----------------------------------------------------------------------------
(* Properties.                                                             *)

TypeOK ==
  /\ total \in 0..MaxInput
  /\ allocated \in BOOLEAN
  /\ data \in [0..(bufferSize - 1) -> 0..MaxInput]
  /\ w \in 0..(bufferSize - 1)
  /\ file \in Seq(0..MaxInput)
  /\ out \in Seq(0..MaxInput)
  /\ len \in 0..MaxInput
  /\ pc \in {"idle", "write", "copy", "flush", "flushMsg", "flushOld", "flushNew", "closed"}
  /\ failed \in BOOLEAN

(* The bytes copied so far are the last of a run that starts after the     *)
(* beginning; the buffer has the newest before w and, once it has gone     *)
(* round, the oldest from w on.                                            *)
Done == total - len
RingHolds ==
  (allocated /\ Done >= activateSize) =>
    /\ Done - activateSize < bufferSize => w = Done - activateSize
    /\ \A i \in 0..(w - 1) : data[i] = Done - w + 1 + i
    /\ Done - activateSize >= bufferSize =>
         \A i \in w..(bufferSize - 1) : data[i] = Done - bufferSize + 1 + (i - w)

(* The beginning of the output goes to the file at once and nothing else   *)
(* does (CircularBufferFilter.hh:143 and 158): between two calls the file  *)
(* has just those bytes, however the output was cut into calls.            *)
HeadAtOnce ==
  (pc = "idle" /\ ~failed) =>
    file = Bytes(1, IF total < activateSize THEN total ELSE activateSize)

(* "when the file exceeds the limit, only the first and last bytes of      *)
(* output are saved in the file" (CircularBufferFilter.hh:77): with the    *)
(* message between them, and all of the output when it does not exceed it. *)
Saved(n) ==
  IF n <= maxSize THEN Bytes(1, n)
  ELSE Bytes(1, activateSize) \o <<Message>> \o Bytes(n - bufferSize + 1, n)
FirstAndLastSaved == (pc = "closed" /\ ~failed) => file = Saved(total)

(* When writes fail in part, what is in the file is still in order and     *)
(* nothing is there twice (partial writes, CircularBufferFilter.hh:39).    *)
InOrder ==
  \A i, j \in 1..Len(file) :
    (i < j /\ file[i] # Message /\ file[j] # Message) => file[i] < file[j]

(* Every call returns: the loop that copies makes progress at every turn,  *)
(* for w never stays at the end of the buffer.                             *)
CallsReturn == pc \notin {"idle", "closed"} ~> pc \in {"idle", "closed"}
=============================================================================

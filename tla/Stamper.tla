------------------------------ MODULE Stamper ------------------------------
(***************************************************************************)
(* The thread that puts a time stamp at the beginning of every line the    *)
(* solver prints: class TimeStamper (TimeStamper.hh), run by               *)
(* RunSolver::timeStampThread, with the solver that prints and the timer   *)
(* thread that publishes the CPU time.                                     *)
(*                                                                         *)
(* The build of the Makefile watches one stream; with                      *)
(* TIMESTAMPSEPARATESTDOUTANDERR there are two, which share a file.  A     *)
(* character is a record of its stream, of whether it ends a line and of   *)
(* the CPU time known when it was printed.  The wall clock, which a stamp   *)
(* has too and which is read at the same place, goes the same way.         *)
(***************************************************************************)
EXTENDS Integers, Sequences, SequencesExt

CONSTANTS
  Streams,    \* the input descriptors given to watch, in order
  BufferSize, \* what one read takes at most (1024 in the code)
  WatchDog,   \* select may fail WatchDog - 1 times in a row (10 in the code)
  MaxPrinted, \* bound: characters printed on all the streams
  MaxTime     \* bound: publications of the CPU time

ASSUME StamperAssumption ==
  /\ Streams \in Seq(STRING \ {""}) /\ IsInjective(Streams) /\ Streams # <<>>
  /\ BufferSize \in Nat \ {0}
  /\ WatchDog \in Nat \ {0}
  /\ MaxPrinted \in Nat
  /\ MaxTime \in Nat

Names == ToSet(Streams)

VARIABLES
  printed,    \* what the solver has printed, the streams together
  unread,     \* stream -> characters in its pipe
  open,       \* streams whose write side is still held
  published,  \* lastKnownCPUtime
  watched,    \* the vector of watched streams
  EOLBefore,  \* stream -> the next character starts a line
  incompleteLineSent,
  watchDog,   \* errors of select in a row
  ready, i,   \* tmp and i of the loop over the watched streams
  buffer,     \* what readFrom has read
  file,       \* what has been written to the output file
  pc

env == <<printed, unread, open, published>>
vars == <<env, watched, EOLBefore, incompleteLineSent, watchDog, ready, i, buffer, file, pc>>

-----------------------------------------------------------------------------
Char(s, eol) == [what |-> "char", stream |-> s, eol |-> eol, time |-> published]

(* prepareTimeStamp: the last CPU time published.                          *)
(* The mutant keeps the first one.                                         *)
StampOld(s) ==
  [what |-> "stamp", stream |-> s, eol |-> FALSE, time |-> 0]

Stamp(s) ==
  [what |-> "stamp", stream |-> s, eol |-> FALSE, time |-> published]

AddedEOL == [what |-> "eol", stream |-> "", eol |-> TRUE, time |-> published]
EOFLine  == [what |-> "EOF", stream |-> "", eol |-> TRUE, time |-> published]

Init ==
  /\ printed = <<>>
  /\ unread = [s \in Names |-> <<>>]
  /\ open = Names
  /\ published = 0
  /\ watched = Streams
  /\ EOLBefore = [s \in Names |-> TRUE]
  /\ incompleteLineSent = FALSE
  /\ watchDog = 0
  /\ ready = {}
  /\ i = 1
  /\ buffer = <<>>
  /\ file = <<>>
  /\ pc = "select"

-----------------------------------------------------------------------------
(* The solver and the CPU time.                                             *)

Puts(s, eol) ==
  /\ s \in open
  /\ Len(printed) < MaxPrinted
  /\ printed' = Append(printed, Char(s, eol))
  /\ unread' = [unread EXCEPT ![s] = Append(@, Char(s, eol))]
  /\ UNCHANGED <<open, published>>

(* The last process that holds the write side of s closes it.              *)
Close(s) ==
  /\ s \in open
  /\ open' = open \ {s}
  /\ UNCHANGED <<printed, unread, published>>

(* The timer thread publishes the CPU time, under the mutex.               *)
setCPUtimeFromAnotherThread ==
  /\ published < MaxTime
  /\ published' = published + 1
  /\ UNCHANGED <<printed, unread, open>>

Environment ==
  /\ \/ \E s \in Names, eol \in BOOLEAN : Puts(s, eol)
     \/ \E s \in Names : Close(s)
     \/ setCPUtimeFromAnotherThread
  /\ UNCHANGED <<watched, EOLBefore, incompleteLineSent, watchDog, ready, i, buffer, file, pc>>

-----------------------------------------------------------------------------
(* timeStampLines.                                                         *)

Readable(s) == unread[s] # <<>> \/ s \notin open

(* select returns the streams with data or at their end.                   *)
Select ==
  /\ pc = "select" /\ watched # <<>>
  /\ \E s \in ToSet(watched) : Readable(s)
  /\ ready' = {s \in ToSet(watched) : Readable(s)}
  /\ watchDog' = 0
  /\ i' = 1
  /\ pc' = "scan"
  /\ UNCHANGED <<env, watched, EOLBefore, incompleteLineSent, buffer, file>>

(* select fails: the loop is left when it has failed too often.            *)
SelectFails ==
  /\ pc = "select" /\ watched # <<>>
  /\ watchDog' = watchDog + 1
  /\ pc' = IF watchDog + 1 < WatchDog THEN "select" ELSE "eof"
  /\ UNCHANGED <<env, watched, EOLBefore, incompleteLineSent, ready, i, buffer, file>>

(* The stream is forgotten, and the next one takes its place.              *)
(* The mutant goes on watching it.                                         *)
AfterEOFKept == watched' = watched /\ i' = i + 1

AfterEOF == watched' = RemoveAt(watched, i) /\ i' = i

(* A watched stream in its turn: it has no data, or read takes some, or it *)
(* is at its end.                                                          *)
Scan ==
  /\ pc = "scan" /\ i <= Len(watched)
  /\ LET s == watched[i] IN
     \/ /\ s \notin ready
        /\ i' = i + 1
        /\ UNCHANGED <<env, watched, buffer, pc>>
     \/ /\ s \in ready /\ unread[s] # <<>>
        /\ \E n \in 1..(IF Len(unread[s]) < BufferSize THEN Len(unread[s]) ELSE BufferSize) :
             /\ buffer' = SubSeq(unread[s], 1, n)
             /\ unread' = [unread EXCEPT ![s] = SubSeq(@, n + 1, Len(@))]
        /\ pc' = "send"
        /\ UNCHANGED <<printed, open, published, watched, i>>
     \/ /\ s \in ready /\ unread[s] = <<>>
        /\ AfterEOF
        /\ UNCHANGED <<env, buffer, pc>>
  /\ UNCHANGED <<EOLBefore, incompleteLineSent, watchDog, ready, file>>

ScanEnds ==
  /\ pc = "scan" /\ i > Len(watched)
  /\ pc' = "select"
  /\ UNCHANGED <<env, watched, EOLBefore, incompleteLineSent, watchDog, ready, i, buffer, file>>

(* Whether a stamp goes before the k-th character of the buffer.           *)
(* The mutant takes every read for the beginning of a line.                *)
StampedAlways(s, k) == IF k = 1 THEN TRUE ELSE buffer[k - 1].eol

Stamped(s, k) == IF k = 1 THEN EOLBefore[s] ELSE buffer[k - 1].eol

WithStamp(q, s, k) == IF Stamped(s, k) THEN Append(q, Stamp(s)) ELSE q

(* The mutant sends whole lines only.                                      *)
LinesWhole(s) ==
  LET sent[k \in 0..Len(buffer)] ==
        IF k = 0 THEN file
        ELSE IF k = Len(buffer) /\ ~buffer[k].eol THEN sent[k - 1]
        ELSE Append(WithStamp(sent[k - 1], s, k), buffer[k])
  IN  sent[Len(buffer)]

(* The file when readFrom has written a buffer of stream s, character by   *)
(* character: one stamp, made after the read, for all of its lines.        *)
Lines(s) ==
  LET sent[k \in 0..Len(buffer)] ==
        IF k = 0 THEN file ELSE Append(WithStamp(sent[k - 1], s, k), buffer[k])
  IN  sent[Len(buffer)]

Send ==
  /\ pc = "send"
  /\ LET s == watched[i] IN
     /\ file' = Lines(s)
     /\ EOLBefore' = [EOLBefore EXCEPT ![s] = Last(buffer).eol]
  /\ incompleteLineSent' = ~Last(buffer).eol
  /\ i' = i + 1
  /\ buffer' = <<>>
  /\ pc' = "scan"
  /\ UNCHANGED <<env, watched, watchDog, ready>>

LoopEnds ==
  /\ pc = "select" /\ watched = <<>>
  /\ pc' = "eof"
  /\ UNCHANGED <<env, watched, EOLBefore, incompleteLineSent, watchDog, ready, i, buffer, file>>

(* The line 'EOF', written through watched[0].  When all the streams have  *)
(* ended the vector is empty: undefined, but erase has left the last entry *)
(* in its place, the build has no check, and the streams share a file.     *)
(* The mutant does not end the line before.                                *)
LastLineGlued == Append(Append(file, Stamp("")), EOFLine)

LastLine ==
  LET ended == IF incompleteLineSent THEN Append(file, AddedEOL) ELSE file
  IN  Append(Append(ended, Stamp("")), EOFLine)

(* With option --add-eof only; nothing else looks at the option            *)
(* (addEOFLine), so that it is chosen here.                                *)
AddEOF ==
  /\ pc = "eof"
  /\ \/ file' = LastLine
     \/ UNCHANGED file
  /\ pc' = "done"
  /\ UNCHANGED <<env, watched, EOLBefore, incompleteLineSent, watchDog, ready, i, buffer>>

Thread == Select \/ SelectFails \/ Scan \/ ScanEnds \/ Send \/ LoopEnds \/ AddEOF

Next == Environment \/ Thread

Spec == Init /\ [][Next]_vars

(* The thread is scheduled; the solver need not print, nor end.            *)
FairSpec == Spec /\ WF_vars(Thread)
-----------------------------------------------------------------------------
(* Properties.                                                             *)

Item == [what : {"char", "stamp", "eol", "EOF"}, stream : Names \cup {""}, eol : BOOLEAN,
         time : 0..MaxTime]

TypeOK ==
  /\ printed \in Seq(Item)
  /\ unread \in [Names -> Seq(Item)]
  /\ open \subseteq Names
  /\ published \in 0..MaxTime
  /\ watched \in Seq(Names)
  /\ EOLBefore \in [Names -> BOOLEAN]
  /\ incompleteLineSent \in BOOLEAN
  /\ watchDog \in 0..WatchDog
  /\ ready \subseteq Names
  /\ i \in 1..(Len(watched) + 1)
  /\ buffer \in Seq(Item)
  /\ file \in Seq(Item)
  /\ pc \in {"select", "scan", "send", "eof", "done"}

(* What seq has of T, in order.                                            *)
Only(seq, T) ==
  LET kept[n \in 0..Len(seq)] ==
        IF n = 0 THEN <<>>
        ELSE IF seq[n] \in T THEN Append(kept[n - 1], seq[n]) ELSE kept[n - 1]
  IN  kept[Len(seq)]

Of(seq, s) == Only(seq, {c \in Item : c.stream = s})
CharsOf(seq, s) == Only(seq, {c \in Item : c.what = "char" /\ c.stream = s})

(* Without the stamps the file has what the solver printed, in order, up   *)
(* to what is still in the pipe or in the buffer (TimeStamper.hh:299-352): *)
(* readFrom neither loses nor repeats a character, wherever reads cut it.  *)
Transparent ==
  \A s \in Names : CharsOf(file, s) \o CharsOf(buffer, s) \o unread[s] = CharsOf(printed, s)

(* "adds a timestamp at the beginning of each line" (TimeStamper.hh:45):   *)
(* a character has a stamp before it if, and only if, it is the first of   *)
(* its stream or follows an end of line, however the reads cut the lines.  *)
EachLineStamped ==
  \A s \in Names : LET f == Of(file, s) IN
    \A k \in 1..Len(f) :
      (f[k].what = "stamp") <=> (k = 1 \/ f[k - 1].eol)

(* A stamp is not older than the line it is on, nor than the stamps before *)
(* it: it is made after the read (TimeStamper.hh:317).                     *)
StampsCurrent ==
  \A k \in 1..Len(file) : file[k].what = "stamp" =>
    /\ k < Len(file) => file[k].time >= file[k + 1].time
    /\ \A j \in 1..k : file[j].what = "stamp" =>
         file[j].time <= file[k].time

(* "the EOF line didn't appear on its own line when the solver didn't      *)
(* print an EOL at the end" (Changelog, 3.3.3), fixed at TimeStamper.hh:   *)
(* 207: the line EOF starts a line of the file, which it ends.  It holds   *)
(* as long as the entry erased is still there for watched[0] (LastLine).   *)
EOFOnItsOwn ==
  \A k \in 1..Len(file) : file[k].what = "EOF" =>
    /\ k = Len(file)
    /\ file[k - 1].what = "stamp"
    /\ k = 2 \/ file[k - 2].eol

(* When the loop ends because the streams have, and not because select     *)
(* kept failing, all the solver printed is in the file.                    *)
NothingLost ==
  (pc \in {"eof", "done"} /\ watched = <<>>) =>
    \A s \in Names : CharsOf(file, s) = CharsOf(printed, s)

(* Nothing is lost or changed on the way, and all that is added are stamps *)
(* where they belong and EOF.                                              *)
CharsKept == Transparent /\ NothingLost
LinesStamped == TypeOK /\ EachLineStamped /\ StampsCurrent /\ EOFOnItsOwn

(* Once nobody holds the streams any more the thread ends, which           *)
(* RunSolver::run waits for with pthread_join (runsolver.cc:1330).         *)
ThreadEnds == (open = {}) ~> (pc = "done")
=============================================================================

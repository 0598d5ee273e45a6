------------------------- MODULE OutputFilterProofs -------------------------
(***************************************************************************)
(* Proofs about OutputFilter, for any limits and any amount of output: the *)
(* buffer holds the newest bytes, and the file gets the first and the last *)
(* ones.                                                                   *)
(***************************************************************************)
EXTENDS OutputFilter, SequenceTheorems, TLAPS

Byte == 0..MaxInput

(* How far each call has come.                                             *)
Control ==
  /\ allocated <=> (total >= activateSize /\ total > 0)
  /\ len > 0 => pc \in {"write", "copy"} /\ allocated /\ Done >= activateSize
  /\ pc = "copy" => len > 0
  /\ pc \in {"idle", "copy", "closed"} => out = <<>>
  /\ pc = "flush" => allocated /\ total <= maxSize
  /\ pc \in {"flushMsg", "flushOld", "flushNew"} => allocated /\ total > maxSize

(* The buffer starts again at its first cell.                              *)
TurnsRound == (allocated /\ Done = maxSize) => w = 0

(* What the file will hold when the systemWrite in progress returns.       *)
Written ==
  CASE pc \in {"idle", "write", "copy"} ->
         Bytes(1, IF total < activateSize THEN total ELSE activateSize)
    [] pc = "flushMsg" -> Bytes(1, activateSize) \o <<Message>>
    [] pc = "flushOld" -> (Bytes(1, activateSize) \o <<Message>>)
                             \o Bytes(total - bufferSize + 1, total - w)
    [] OTHER -> Saved(total)

FileClaim == ~failed => file \o out = Written

FInv == TypeOK /\ Control /\ RingHolds /\ TurnsRound /\ FileClaim

-----------------------------------------------------------------------------
(* Sequences of bytes.                                                     *)

LEMMA BytesType ==
  ASSUME NEW a \in Int, NEW b \in Int, a >= 1, b <= MaxInput, b >= a - 1
  PROVE  /\ Bytes(a, b) \in Seq(Byte)
         /\ Len(Bytes(a, b)) = b - a + 1
         /\ \A i \in 1..(b - a + 1) : Bytes(a, b)[i] = a + i - 1
  <1>1. Bytes(a, b) \in [1..(b - a + 1) -> Byte]
    BY FilterAssumption DEF Bytes, Byte
  <1>. QED  BY <1>1 DEF Bytes

LEMMA BytesCat ==
  ASSUME NEW a \in Int, NEW b \in Int, NEW c \in Int,
         a >= 1, a - 1 <= b, b <= c, c <= MaxInput
  PROVE  Bytes(a, b) \o Bytes(b + 1, c) = Bytes(a, c)
  <1>. DEFINE s == Bytes(a, b)
  <1>. DEFINE t == Bytes(b + 1, c)
  <1>. DEFINE u == Bytes(a, c)
  <1>0. MaxInput \in Nat
    BY FilterAssumption
  <1>1. s \in Seq(Byte) /\ Len(s) = b - a + 1 /\ \A i \in 1..(b - a + 1) : s[i] = a + i - 1
    BY <1>0, BytesType
  <1>2. t \in Seq(Byte) /\ Len(t) = c - b /\ \A i \in 1..(c - b) : t[i] = b + i
    <2>1. b + 1 \in Int /\ b + 1 >= 1 /\ c >= (b + 1) - 1
      OBVIOUS
    <2>2. /\ t \in Seq(Byte) /\ Len(t) = c - (b + 1) + 1
          /\ \A i \in 1..(c - (b + 1) + 1) : t[i] = (b + 1) + i - 1
      BY <2>1, BytesType
    <2>. QED  BY <2>2
  <1>3. u \in Seq(Byte) /\ Len(u) = c - a + 1 /\ \A i \in 1..(c - a + 1) : u[i] = a + i - 1
    BY <1>0, BytesType
  <1>. HIDE DEF s, t, u
  <1>4. /\ s \o t \in Seq(Byte)
        /\ Len(s \o t) = Len(s) + Len(t)
        /\ \A i \in 1..(Len(s) + Len(t)) : (s \o t)[i] = IF i <= Len(s) THEN s[i] ELSE t[i - Len(s)]
    BY <1>1, <1>2, ConcatProperties
  <1>5. Len(s \o t) = Len(u)
    BY <1>1, <1>2, <1>3, <1>4
  <1>6. ASSUME NEW i \in 1..Len(s \o t)
        PROVE  (s \o t)[i] = u[i]
    <2>1. CASE i <= Len(s)
      BY <2>1, <1>1, <1>2, <1>3, <1>4
    <2>2. CASE i > Len(s)
      BY <2>2, <1>1, <1>2, <1>3, <1>4
    <2>. QED  BY <2>1, <2>2, <1>4, <1>1, <1>2
  <1>7. s \o t = u
    BY <1>3, <1>4, <1>5, <1>6, SeqEqual
  <1>. QED  BY <1>7 DEF s, t, u

LEMMA BytesNone ==
  ASSUME NEW a \in Int
  PROVE  Bytes(a, a - 1) = <<>>
  BY DEF Bytes

(* The cells from i to j - 1 are the bytes from a on when each is.         *)
LEMMA SliceIs ==
  ASSUME TypeOK, NEW i \in Int, NEW j \in Int, NEW a \in Int,
         0 <= i, i <= j, j <= bufferSize,
         \A k \in i..(j - 1) : data[k] = a + (k - i)
  PROVE  Slice(i, j) = Bytes(a, a + (j - i) - 1) /\ Slice(i, j) \in Seq(Byte)
  <1>1. \A k \in 1..(j - i) : data[i + k - 1] = a + k - 1 /\ data[i + k - 1] \in Byte
    <2>1. \A k \in 1..(j - i) : i + k - 1 \in i..(j - 1) /\ i + k - 1 \in 0..(bufferSize - 1)
      BY FilterAssumption DEF bufferSize
    <2>2. \A k \in 1..(j - i) : data[i + k - 1] = a + ((i + k - 1) - i)
      BY <2>1
    <2>3. \A k \in 0..(bufferSize - 1) : data[k] \in Byte
      BY DEF TypeOK, Byte
    <2>. QED  BY <2>1, <2>2, <2>3
  <1>2. (a + (j - i) - 1) - a + 1 = j - i /\ j - i \in Nat
    OBVIOUS
  <1>3. Slice(i, j) \in [1..(j - i) -> Byte]
    BY <1>1 DEF Slice
  <1>. QED  BY <1>1, <1>2, <1>3 DEF Slice, Bytes

-----------------------------------------------------------------------------
LEMMA FInvInit == Init => FInv
  <1>. SUFFICES ASSUME Init PROVE FInv
    OBVIOUS
  <1>. USE FilterAssumption DEF Init, bufferSize
  <1>1. TypeOK
    BY DEF TypeOK
  <1>2. Control
    BY DEF Control, Done
  <1>. QED  BY <1>1, <1>2 DEF FInv, RingHolds, TurnsRound, Done, FileClaim, Written, Bytes

(* The steps that keep the buffer as it is keep what it holds.             *)
LEMMA BufferKept ==
  ASSUME FInv, UNCHANGED <<total, allocated, data, w, len>>
  PROVE  RingHolds' /\ TurnsRound'
  BY DEF FInv, RingHolds, TurnsRound, Done

LEMMA WriteKeeps ==
  ASSUME FInv, NEW n \in 1..MaxInput, write(n)
  PROVE  FInv'
  <1>. USE FilterAssumption DEF bufferSize
  <1>1. /\ total \in Nat /\ n \in Nat /\ total + n <= MaxInput /\ total' = total + n
        /\ pc = "idle" /\ pc' = "write" /\ len = 0 /\ out = <<>>
    BY DEF FInv, TypeOK, Control, write
  <1>2. HeadPart(n) \in 0..n
    BY <1>1 DEF HeadPart
  <1>3. total + HeadPart(n) = IF allocated THEN total
                              ELSE IF total' < activateSize THEN total' ELSE activateSize
    BY <1>1 DEF HeadPart, FInv, Control
  <1>4. out' = Bytes(total + 1, total + HeadPart(n)) /\ out' \in Seq(Byte)
    BY <1>1, <1>2, BytesType DEF write
  <1>5. TypeOK'
    BY <1>1, <1>2, <1>4 DEF FInv, TypeOK, write, Byte
  <1>6. Done' = total + HeadPart(n)
    BY <1>1, <1>2 DEF Done, write
  <1>7. Control'
    <2>1. allocated' <=> (allocated \/ total' >= activateSize)
      BY <1>1 DEF write
    <2>2. allocated' <=> (total' >= activateSize /\ total' > 0)
      BY <2>1, <1>1 DEF FInv, Control
    <2>3. len' > 0 => allocated' /\ Done' >= activateSize
      BY <2>1, <1>1, <1>2, <1>3, <1>6 DEF HeadPart, write, FInv, Control
    <2>. QED  BY <2>2, <2>3, <1>1 DEF Control
  <1>8. RingHolds' /\ TurnsRound'
    <2>1. CASE allocated
      <3>1. Done' = Done /\ w' = w /\ data' = data /\ allocated'
        <4>1. allocated'
          BY <2>1 DEF write
        <4>2. Done' = Done
          BY <2>1, <1>1, <1>3, <1>6 DEF Done
        <4>. QED  BY <4>1, <4>2, <2>1 DEF write
      <3>. QED  BY <3>1, <2>1 DEF FInv, RingHolds, TurnsRound
    <2>2. CASE ~allocated
      <3>1. w' = 0 /\ (allocated' /\ Done' >= activateSize => Done' = activateSize)
        BY <2>2, <1>1, <1>3, <1>6 DEF write
      <3>. QED  BY <3>1 DEF RingHolds, TurnsRound
    <2>. QED  BY <2>1, <2>2
  <1>9. FileClaim'
    <2>. SUFFICES ASSUME ~failed' PROVE file' \o out' = Written'
      BY DEF FileClaim
    <2>. DEFINE h == IF total < activateSize THEN total ELSE activateSize
    <2>1. file = Bytes(1, h)
      <3>1. file \o out = Bytes(1, h)
        BY <1>1 DEF FInv, FileClaim, Written, write
      <3>. QED  BY <3>1, <1>1, ConcatEmptySeq DEF FInv, TypeOK
    <2>2. CASE total <= activateSize
      <3>1. h = total
        BY <2>2, <1>1
      <3>2. file' \o out' = Bytes(1, total + HeadPart(n))
        <4>1. Bytes(1, total) \o Bytes(total + 1, total + HeadPart(n)) = Bytes(1, total + HeadPart(n))
          <5>. DEFINE c == total + HeadPart(n)
          <5>1. /\ total \in Int /\ c \in Int
                /\ 1 - 1 <= total /\ total <= c /\ c <= MaxInput
            BY <1>1, <1>2
          <5>. HIDE DEF c
          <5>2. Bytes(1, total) \o Bytes(total + 1, c) = Bytes(1, c)
            BY <5>1, BytesCat
          <5>. QED  BY <5>2 DEF c
        <4>2. file' = Bytes(1, total)
          BY <3>1, <2>1 DEF write
        <4>. QED  BY <4>1, <4>2, <1>4
      <3>3. total + HeadPart(n) = IF total' < activateSize THEN total' ELSE activateSize
        BY <1>1, <2>2 DEF HeadPart
      <3>. QED  BY <3>2, <3>3, <1>1 DEF Written
    <2>3. CASE total > activateSize
      <3>1. HeadPart(n) = 0
        BY <2>3, <1>1 DEF HeadPart
      <3>2. out' = <<>>
        BY <3>1, <1>4, <1>1, BytesNone
      <3>3. file' \o out' = file
        BY <3>2, ConcatEmptySeq DEF write, FInv, TypeOK
      <3>4. h = IF total' < activateSize THEN total' ELSE activateSize
        BY <2>3, <1>1
      <3>. QED  BY <3>3, <3>4, <2>1, <1>1 DEF Written
    <2>. QED  BY <2>2, <2>3, <1>1
  <1>. QED  BY <1>5, <1>7, <1>8, <1>9 DEF FInv

LEMMA CopyKeeps ==
  ASSUME FInv, copy
  PROVE  FInv'
  <1>. USE FilterAssumption DEF bufferSize
  <1>1. /\ total \in Nat /\ len \in Nat /\ len > 0 /\ w \in 0..(bufferSize - 1) /\ w \in Nat
        /\ allocated /\ allocated' /\ Done \in Int /\ Done >= activateSize /\ out = <<>>
    BY DEF FInv, TypeOK, Control, copy, Done
  <1>2. Chunk \in 1..len /\ w + Chunk <= bufferSize
    BY <1>1 DEF Chunk
  <1>3. /\ len' = len - Chunk /\ total' = total /\ Done' = Done + Chunk
        /\ w' = IF w + Chunk >= bufferSize THEN 0 ELSE w + Chunk
    BY <1>1, <1>2 DEF copy, Wrap, Done
  <1>4. \A i \in 0..(bufferSize - 1) :
          data'[i] = IF w <= i /\ i < w + Chunk THEN Done + 1 + (i - w) ELSE data[i]
    BY DEF copy, Copied, Done
  <1>5. TypeOK'
    <2>1. data' \in [0..(bufferSize - 1) -> 0..MaxInput]
      <3>1. \A i \in 0..(bufferSize - 1) :
              (IF w <= i /\ i < w + Chunk THEN total - len + 1 + (i - w) ELSE data[i]) \in 0..MaxInput
        BY <1>1, <1>2 DEF FInv, TypeOK, Done
      <3>. QED  BY <3>1 DEF copy, Copied
    <2>. QED  BY <2>1, <1>1, <1>2, <1>3 DEF FInv, TypeOK, copy
  <1>6. Control'
    BY <1>1, <1>2, <1>3 DEF FInv, Control, copy
  <1>7. w = Done - activateSize \/ Done - activateSize >= bufferSize
    BY <1>1 DEF FInv, RingHolds
  <1>8. TurnsRound'
    BY <1>1, <1>2, <1>3, <1>7 DEF TurnsRound
  <1>9. RingHolds'
    <2>1. \A i \in 0..(w - 1) : data[i] = Done - w + 1 + i
      BY <1>1 DEF FInv, RingHolds
    <2>2. Done - activateSize >= bufferSize =>
            \A i \in w..(bufferSize - 1) : data[i] = Done - bufferSize + 1 + (i - w)
      BY <1>1 DEF FInv, RingHolds
    <2>3. \A i \in 0..(w + Chunk - 1) : data'[i] = Done' - (w + Chunk) + 1 + i
      BY <2>1, <1>1, <1>2, <1>3, <1>4
    <2>4. CASE w + Chunk < bufferSize
      <3>1. w' = w + Chunk
        BY <2>4, <1>1, <1>2, <1>3
      <3>2. Done' - activateSize < bufferSize => w' = Done' - activateSize
        BY <3>1, <1>1, <1>2, <1>3, <1>7
      <3>3. Done' - activateSize >= bufferSize => Done - activateSize >= bufferSize
        BY <2>4, <1>1, <1>2, <1>3, <1>7
      <3>4. Done' - activateSize >= bufferSize =>
              \A i \in w'..(bufferSize - 1) : data'[i] = Done' - bufferSize + 1 + (i - w')
        BY <3>1, <3>3, <2>2, <1>1, <1>2, <1>3, <1>4
      <3>5. \A i \in 0..(w' - 1) : data'[i] = Done' - w' + 1 + i
        <4>1. w' - 1 = w + Chunk - 1 /\ Done' - w' = Done' - (w + Chunk)
          BY <3>1, <1>1, <1>2, <1>3
        <4>. QED  BY <2>3, <4>1
      <3>. QED  BY <3>2, <3>4, <3>5 DEF RingHolds
    <2>5. CASE w + Chunk = bufferSize
      <3>1. w' = 0
        BY <2>5, <1>3
      <3>2. Done' - activateSize >= bufferSize
        BY <2>5, <1>1, <1>2, <1>3, <1>7
      <3>3. \A i \in 0..(bufferSize - 1) : data'[i] = Done' - bufferSize + 1 + i
        <4>1. w + Chunk - 1 = bufferSize - 1 /\ Done' - (w + Chunk) = Done' - bufferSize
          BY <2>5, <1>1, <1>2, <1>3
        <4>. QED  BY <2>3, <4>1
      <3>. QED  BY <3>1, <3>2, <3>3, <1>1, <1>2, <1>3 DEF RingHolds
    <2>. QED  BY <2>4, <2>5, <1>2, <1>1
  <1>10. FileClaim'
    BY <1>3 DEF FInv, FileClaim, Written, copy
  <1>. QED  BY <1>5, <1>6, <1>8, <1>9, <1>10 DEF FInv

(* write(2) moves bytes from out to the file.                              *)
LEMMA SysWriteKeeps ==
  ASSUME FInv, NEW n \in 1..Len(out), SysWrite(n)
  PROVE  FInv'
  <1>1. file \in Seq(Byte) /\ out \in Seq(Byte) /\ Len(out) \in Nat /\ n \in Nat /\ n <= Len(out)
    BY LenProperties DEF FInv, TypeOK, Byte
  <1>. DEFINE a == SubSeq(out, 1, n)
  <1>. DEFINE b == SubSeq(out, n + 1, Len(out))
  <1>2. a \in Seq(Byte) /\ b \in Seq(Byte)
    <2>1. \A i \in 1..Len(out) : out[i] \in Byte
      BY <1>1, ElementOfSeq
    <2>. QED  BY <2>1, <1>1, SubSeqProperties
  <1>3. a \o b = out
    BY <1>1, ConcatAdjacentSubSeq, SubSeqFull
  <1>4. file' = file \o a /\ out' = b
    BY DEF SysWrite, Left
  <1>. HIDE DEF a, b
  <1>5. file' \o out' = file \o out
    <2>1. (file \o a) \o b = file \o (a \o b)
      <3>1. file \in Seq(Byte) /\ a \in Seq(Byte) /\ b \in Seq(Byte)
        BY <1>1, <1>2
      <3>. QED  BY <3>1, ConcatAssociative
    <2>. QED  BY <2>1, <1>3, <1>4
  <1>6. file' \in Seq(Byte)
    BY <1>1, <1>2, <1>4, ConcatProperties
  <1>7. TypeOK'
    BY <1>2, <1>4, <1>6 DEF FInv, TypeOK, SysWrite, Byte
  <1>8. pc \notin {"idle", "copy", "closed"}
    BY <1>1, EmptySeq DEF FInv, Control
  <1>9. Control'
    BY <1>8 DEF FInv, Control, SysWrite, Done
  <1>10. FileClaim'
    BY <1>5 DEF FInv, FileClaim, Written, SysWrite, Saved
  <1>. QED  BY <1>7, <1>9, <1>10, BufferKept DEF FInv, SysWrite

LEMMA SysErrorKeeps ==
  ASSUME FInv, SysError
  PROVE  FInv'
  <1>1. TypeOK'
    BY EmptySeq DEF FInv, TypeOK, SysError
  <1>2. Control'
    BY DEF FInv, Control, SysError, Done
  <1>3. FileClaim'
    BY DEF FileClaim, SysError
  <1>. QED  BY <1>1, <1>2, <1>3, BufferKept DEF FInv, SysError

-----------------------------------------------------------------------------
(* The bytes that flush takes from the buffer.                             *)

(* All of them, when the output does not exceed the limit.                 *)
LEMMA SliceAll ==
  ASSUME FInv, pc = "idle", allocated, total <= maxSize
  PROVE  /\ Slice(0, total - activateSize) = Bytes(activateSize + 1, total)
         /\ Slice(0, total - activateSize) \in Seq(Byte)
  <1>. USE FilterAssumption DEF bufferSize
  <1>1. /\ total \in Nat /\ Done = total /\ total >= activateSize
        /\ w \in 0..(bufferSize - 1) /\ w \in Int
    BY DEF FInv, TypeOK, Control, Done
  <1>2. \A k \in 0..(total - activateSize - 1) : data[k] = activateSize + 1 + (k - 0)
    <2>1. CASE total = maxSize
      <3>1. w = 0
        BY <2>1, <1>1 DEF FInv, TurnsRound
      <3>. QED  BY <2>1, <3>1, <1>1 DEF FInv, RingHolds
    <2>2. CASE total < maxSize
      <3>1. w = total - activateSize
        BY <2>2, <1>1 DEF FInv, RingHolds
      <3>. QED  BY <2>2, <3>1, <1>1 DEF FInv, RingHolds
    <2>. QED  BY <2>1, <2>2, <1>1
  <1>3. /\ 0 <= total - activateSize /\ total - activateSize <= bufferSize
        /\ total - activateSize \in Int /\ activateSize + 1 \in Int
    BY <1>1
  <1>. DEFINE j == total - activateSize
  <1>. DEFINE a == activateSize + 1
  <1>4. /\ Slice(0, j) = Bytes(a, a + (j - 0) - 1)
        /\ Slice(0, j) \in Seq(Byte)
    <2>1. 0 \in Int /\ j \in Int /\ a \in Int /\ 0 <= 0 /\ 0 <= j /\ j <= bufferSize
      BY <1>3
    <2>2. \A k \in 0..(j - 1) : data[k] = a + (k - 0)
      BY <1>2
    <2>3. TypeOK
      BY DEF FInv
    <2>. HIDE DEF a, j
    <2>. QED  BY <2>1, <2>2, <2>3, SliceIs
  <1>5. activateSize + 1 + (total - activateSize - 0) - 1 = total
    BY <1>1
  <1>. QED  BY <1>4, <1>5

(* The oldest from w on, the newest before w, when it does.                *)
LEMMA SliceHalves ==
  ASSUME FInv, allocated, len = 0, total > maxSize
  PROVE  /\ Slice(w, bufferSize) = Bytes(total - bufferSize + 1, total - w)
         /\ Slice(w, bufferSize) \in Seq(Byte)
         /\ Slice(0, w) = Bytes(total - w + 1, total)
         /\ Slice(0, w) \in Seq(Byte)
  <1>. USE FilterAssumption
  <1>1. /\ total \in Nat /\ Done = total /\ bufferSize \in Int /\ w \in Int
        /\ 0 <= w /\ w < bufferSize /\ Done >= activateSize /\ Done - activateSize >= bufferSize
    BY DEF FInv, TypeOK, Done, bufferSize
  <1>2. \A k \in w..(bufferSize - 1) : data[k] = (total - bufferSize + 1) + (k - w)
    BY <1>1 DEF FInv, RingHolds
  <1>3. \A k \in 0..(w - 1) : data[k] = (total - w + 1) + (k - 0)
    BY <1>1 DEF FInv, RingHolds
  <1>4. /\ Slice(w, bufferSize)
             = Bytes(total - bufferSize + 1, (total - bufferSize + 1) + (bufferSize - w) - 1)
        /\ Slice(w, bufferSize) \in Seq(Byte)
    <2>1. total - bufferSize + 1 \in Int /\ w <= bufferSize /\ bufferSize <= bufferSize
      BY <1>1
    <2>. QED  BY <2>1, <1>1, <1>2, SliceIs DEF FInv
  <1>5. /\ Slice(0, w) = Bytes(total - w + 1, (total - w + 1) + (w - 0) - 1)
        /\ Slice(0, w) \in Seq(Byte)
    <2>1. total - w + 1 \in Int /\ 0 \in Int /\ w <= bufferSize
      BY <1>1
    <2>. QED  BY <2>1, <1>1, <1>3, SliceIs DEF FInv
  <1>6. /\ (total - bufferSize + 1) + (bufferSize - w) - 1 = total - w
        /\ (total - w + 1) + (w - 0) - 1 = total
    BY <1>1
  <1>. QED  BY <1>4, <1>5, <1>6

LEMMA FlushKeeps ==
  ASSUME FInv, flush
  PROVE  FInv'
  <1>. USE FilterAssumption
  <1>1. /\ pc = "idle" /\ len = 0 /\ out = <<>> /\ total \in Nat /\ file \in Seq(Byte)
        /\ allocated <=> (total >= activateSize /\ total > 0)
        /\ activateSize \in Nat /\ maxSize \in Nat /\ activateSize < maxSize
    BY DEF FInv, Control, flush, TypeOK, Byte
  <1>2. UNCHANGED <<total, allocated, data, w, len, file, failed>>
    BY DEF flush
  <1>3. ~failed => file = Bytes(1, IF total < activateSize THEN total ELSE activateSize)
    BY <1>1, ConcatEmptySeq DEF FInv, FileClaim, Written
  <1>4. CASE ~allocated
    <2>1. pc' = "closed" /\ out' = <<>>
      BY <1>4, <1>1 DEF flush
    <2>2. TypeOK'
      BY <2>1, <1>2, EmptySeq DEF FInv, TypeOK
    <2>3. Control'
      BY <2>1, <1>1, <1>2 DEF Control
    <2>4. FileClaim'
      <3>1. (IF total < activateSize THEN total ELSE activateSize) = total /\ total <= maxSize
        BY <1>4, <1>1
      <3>2. ~failed => file' \o out' = Saved(total)
        BY <3>1, <2>1, <1>1, <1>2, <1>3, ConcatEmptySeq DEF Saved
      <3>. QED  BY <3>2, <2>1, <1>2 DEF FileClaim, Written, Saved
    <2>. QED  BY <2>2, <2>3, <2>4, <1>2, BufferKept DEF FInv
  <1>5. CASE allocated /\ total <= maxSize
    <2>1. pc' = "flush" /\ out' = Slice(0, total - activateSize)
      BY <1>5, <1>1 DEF flush
    <2>2. out' = Bytes(activateSize + 1, total) /\ out' \in Seq(Byte)
      BY <2>1, <1>5, <1>1, SliceAll
    <2>3. TypeOK'
      BY <2>1, <2>2, <1>2 DEF FInv, TypeOK, Byte
    <2>4. Control'
      BY <2>1, <1>1, <1>2, <1>5 DEF Control
    <2>5. FileClaim'
      <3>1. (IF total < activateSize THEN total ELSE activateSize) = activateSize
        BY <1>5, <1>1
      <3>2. Bytes(1, activateSize) \o Bytes(activateSize + 1, total) = Bytes(1, total)
        <4>1. /\ activateSize \in Int /\ total \in Int /\ 1 - 1 <= activateSize
              /\ activateSize <= total /\ total <= MaxInput
          BY <1>1, <1>5 DEF FInv, TypeOK
        <4>. QED  BY <4>1, BytesCat
      <3>3. ~failed => file' \o out' = Saved(total)
        BY <3>1, <3>2, <2>2, <1>2, <1>3, <1>5 DEF Saved
      <3>. QED  BY <3>3, <2>1, <1>2 DEF FileClaim, Written, Saved
    <2>. QED  BY <2>3, <2>4, <2>5, <1>2, BufferKept DEF FInv
  <1>6. CASE allocated /\ total > maxSize
    <2>1. pc' = "flushMsg" /\ out' = <<Message>>
      BY <1>6, <1>1 DEF flush
    <2>2. TypeOK'
      <3>1. out' \in Seq(0..MaxInput)
        BY <2>1 DEF Message
      <3>. QED  BY <2>1, <3>1, <1>2 DEF FInv, TypeOK
    <2>3. Control'
      BY <2>1, <1>1, <1>2, <1>6 DEF Control
    <2>4. FileClaim'
      <3>1. (IF total < activateSize THEN total ELSE activateSize) = activateSize
        BY <1>6, <1>1
      <3>. QED  BY <3>1, <2>1, <1>2, <1>3 DEF FileClaim, Written
    <2>. QED  BY <2>2, <2>3, <2>4, <1>2, BufferKept DEF FInv
  <1>. QED  BY <1>1, <1>4, <1>5, <1>6

LEMMA ReturnKeeps ==
  ASSUME FInv, Return
  PROVE  FInv'
  <1>. USE FilterAssumption
  <1>1. /\ out = <<>> /\ file \in Seq(Byte) /\ file \o out = file /\ total \in Nat /\ total <= MaxInput
        /\ activateSize \in Nat /\ maxSize \in Nat /\ activateSize < maxSize
        /\ bufferSize = maxSize - activateSize /\ w \in Nat /\ w < bufferSize
        /\ len \in Nat
    BY ConcatEmptySeq DEF FInv, TypeOK, Return, Byte, bufferSize
  <1>2. UNCHANGED <<total, allocated, data, w, len, file, failed>>
    BY DEF Return
  <1>3. CASE pc = "flushMsg" /\ pc' = "flushOld" /\ out' = Slice(w, bufferSize)
    <2>1. allocated /\ len = 0 /\ total > maxSize
      BY <1>3, <1>1 DEF FInv, Control
    <2>2. out' = Bytes(total - bufferSize + 1, total - w) /\ out' \in Seq(Byte)
      BY <1>3, <2>1, SliceHalves
    <2>3. TypeOK'
      BY <1>3, <2>2, <1>2 DEF FInv, TypeOK, Byte
    <2>4. Control'
      BY <1>3, <2>1, <1>2 DEF FInv, Control
    <2>5. FileClaim'
      BY <1>3, <2>2, <1>1, <1>2 DEF FInv, FileClaim, Written, bufferSize
    <2>. QED  BY <2>3, <2>4, <2>5, <1>2, BufferKept DEF FInv
  <1>4. CASE pc = "flushOld" /\ pc' = "flushNew" /\ out' = Slice(0, w)
    <2>1. allocated /\ len = 0 /\ total > maxSize
      BY <1>4, <1>1 DEF FInv, Control
    <2>2. out' = Bytes(total - w + 1, total) /\ out' \in Seq(Byte)
      BY <1>4, <2>1, SliceHalves
    <2>3. TypeOK'
      BY <1>4, <2>2, <1>2 DEF FInv, TypeOK, Byte
    <2>4. Control'
      BY <1>4, <2>1, <1>2 DEF FInv, Control
    <2>5. FileClaim'
      <3>. DEFINE a == Bytes(1, activateSize) \o <<Message>>
      <3>. DEFINE b == Bytes(total - bufferSize + 1, total - w)
      <3>. DEFINE c == Bytes(total - w + 1, total)
      <3>1. a \in Seq(Byte)
        <4>1. Bytes(1, activateSize) \in Seq(Byte)
          BY <1>1, <2>1, BytesType
        <4>2. <<Message>> \in Seq(Byte)
          BY DEF Message, Byte
        <4>. QED  BY <4>1, <4>2, ConcatProperties
      <3>2. b \in Seq(Byte)
        <4>1. /\ total - bufferSize + 1 \in Int /\ total - w \in Int /\ total - bufferSize + 1 >= 1
              /\ total - w <= MaxInput /\ total - w >= (total - bufferSize + 1) - 1
          BY <1>1, <2>1
        <4>. QED  BY <4>1, BytesType
      <3>3. c \in Seq(Byte)
        BY <2>2
      <3>4. b \o c = Bytes(total - bufferSize + 1, total)
        <4>1. /\ total - bufferSize + 1 \in Int /\ total - w \in Int /\ total \in Int
              /\ total - bufferSize + 1 >= 1 /\ (total - bufferSize + 1) - 1 <= total - w
              /\ total - w <= total /\ total <= MaxInput
          BY <1>1, <2>1
        <4>. QED  BY <4>1, BytesCat
      <3>5. ~failed => file' \o out' = (a \o b) \o c
        BY <1>4, <2>2, <1>1, <1>2 DEF FInv, FileClaim, Written
      <3>6. (a \o b) \o c = a \o (b \o c)
        <4>. HIDE DEF a, b, c
        <4>. QED  BY <3>1, <3>2, <3>3, ConcatAssociative
      <3>7. ~failed => file' \o out' = Saved(total)
        <4>. DEFINE d == Bytes(total - bufferSize + 1, total)
        <4>1. Saved(total) = a \o d
          BY <2>1, <1>1 DEF Saved
        <4>2. b \o c = d
          BY <3>4
        <4>. HIDE DEF a, b, c, d
        <4>. QED  BY <4>1, <4>2, <3>5, <3>6
      <3>. QED  BY <3>7, <1>4, <1>2 DEF FileClaim, Written, Saved
    <2>. QED  BY <2>3, <2>4, <2>5, <1>2, BufferKept DEF FInv
  <1>5. CASE pc \in {"flush", "flushNew"} /\ pc' = "closed" /\ UNCHANGED out
    <2>1. TypeOK' /\ Control'
      BY <1>5, <1>1, <1>2 DEF FInv, TypeOK, Control
    <2>2. FileClaim'
      BY <1>5, <1>2 DEF FInv, FileClaim, Written, Saved
    <2>. QED  BY <2>1, <2>2, <1>2, BufferKept DEF FInv
  <1>6. CASE pc = "write" /\ pc' = (IF len > 0 THEN "copy" ELSE "idle") /\ UNCHANGED out
    <2>1. TypeOK' /\ Control'
      BY <1>6, <1>1, <1>2 DEF FInv, TypeOK, Control, Done
    <2>2. FileClaim'
      BY <1>6, <1>2 DEF FInv, FileClaim, Written
    <2>. QED  BY <2>1, <2>2, <1>2, BufferKept DEF FInv
  <1>. QED  BY <1>3, <1>4, <1>5, <1>6 DEF Return, Flushed

-----------------------------------------------------------------------------
(* Every step keeps the invariant.                                         *)
THEOREM FilterInductive == Spec => []FInv
  <1>1. Init => FInv
    BY FInvInit
  <1>2. FInv /\ [Next]_vars => FInv'
    <2>. SUFFICES ASSUME FInv, [Next]_vars PROVE FInv'
      OBVIOUS
    <2>1. CASE UNCHANGED vars
      BY <2>1 DEF FInv, TypeOK, Control, RingHolds, TurnsRound, FileClaim, Done, Written,
                  Saved, vars
    <2>2. CASE Next
      BY <2>2, WriteKeeps, FlushKeeps, CopyKeeps, ReturnKeeps, SysWriteKeeps, SysErrorKeeps
         DEF Next, Step
    <2>. QED  BY <2>1, <2>2
  <1>. QED  BY <1>1, <1>2, PTL DEF Spec

(* The state has its type: the place where to write next is a cell of the  *)
(* buffer, whatever the lengths of the calls.                              *)
THEOREM FilterTypeCorrect == Spec => []TypeOK
  <1>1. FInv => TypeOK
    BY DEF FInv
  <1>. QED  BY <1>1, FilterInductive, PTL

(* The buffer holds the newest bytes, in order from w on.                  *)
THEOREM BufferHoldsNewest == Spec => []RingHolds
  <1>1. FInv => RingHolds
    BY DEF FInv
  <1>. QED  BY <1>1, FilterInductive, PTL

(* Between two calls the file has just the beginning of the output.        *)
THEOREM BeginningAtOnce == Spec => []HeadAtOnce
  <1>1. FInv => HeadAtOnce
    BY ConcatEmptySeq DEF FInv, HeadAtOnce, FileClaim, Written, Control, TypeOK
  <1>. QED  BY <1>1, FilterInductive, PTL

(* In the end the file has all of the output, or its first and last bytes. *)
THEOREM FileSaved == Spec => []FirstAndLastSaved
  <1>1. FInv => FirstAndLastSaved
    BY ConcatEmptySeq DEF FInv, FirstAndLastSaved, FileClaim, Written, Control, TypeOK
  <1>. QED  BY <1>1, FilterInductive, PTL

-----------------------------------------------------------------------------
(* The order of what is in the file, whatever fails.  FileClaim says       *)
(* nothing when a write has failed; what is still true is that each call   *)
(* of systemWrite brings bytes beyond those before.                        *)

Ascending(s) ==
  \A i, j \in 1..Len(s) : (i < j /\ s[i] # Message /\ s[j] # Message) => s[i] < s[j]

Below(s, t) ==
  \A i \in 1..Len(s) : \A j \in 1..Len(t) : (s[i] # Message /\ t[j] # Message) => s[i] < t[j]

UpTo(s, b) == \A i \in 1..Len(s) : s[i] <= b

(* The last byte that may be in the file when the call in progress is over. *)
Reached ==
  CASE pc \in {"idle", "write", "copy"} ->
         IF total < activateSize THEN total ELSE activateSize
    [] pc = "flushMsg" -> activateSize
    [] pc = "flushOld" -> total - w
    [] OTHER -> total

OrderInv ==
  /\ Ascending(file) /\ Ascending(out)
  /\ Below(file, out)
  /\ UpTo(file, Reached) /\ UpTo(out, Reached)

(* A call that brings the bytes from a to b, all beyond those in the file. *)
LEMMA NextBytes ==
  ASSUME NEW f \in Seq(Byte), NEW a \in Int, NEW b \in Int, NEW c \in Int,
         a >= 1, b <= MaxInput, b >= a - 1, UpTo(f, c), c < a, c <= b
  PROVE  /\ Ascending(Bytes(a, b)) /\ Below(f, Bytes(a, b))
         /\ UpTo(f, b) /\ UpTo(Bytes(a, b), b)
  <1>. USE FilterAssumption
  <1>. DEFINE t == Bytes(a, b)
  <1>1. Len(t) = b - a + 1 /\ \A i \in 1..(b - a + 1) : t[i] = a + i - 1
    BY BytesType
  <1>2. \A i \in 1..Len(f) : f[i] \in Int /\ f[i] <= c
    BY ElementOfSeq DEF UpTo, Byte
  <1>. HIDE DEF t
  <1>3. \A i \in 1..Len(t) : t[i] = a + i - 1 /\ i \in Int /\ i >= 1 /\ i <= b - a + 1
    BY <1>1
  <1>4. Ascending(t)
    BY <1>3 DEF Ascending
  <1>5. Below(f, t)
    BY <1>2, <1>3 DEF Below
  <1>6. UpTo(f, b) /\ UpTo(t, b)
    BY <1>2, <1>3 DEF UpTo
  <1>. QED  BY <1>4, <1>5, <1>6 DEF t

LEMMA NothingToWrite ==
  ASSUME NEW f, NEW b
  PROVE  Ascending(<<>>) /\ Below(f, <<>>) /\ UpTo(<<>>, b)
  BY DEF Ascending, Below, UpTo

LEMMA OrderInit == Init => OrderInv
  <1>. SUFFICES ASSUME Init PROVE OrderInv
    OBVIOUS
  <1>. QED  BY DEF Init, OrderInv, Ascending, Below, UpTo

LEMMA WriteOrders ==
  ASSUME FInv, OrderInv, NEW n \in 1..MaxInput, write(n)
  PROVE  OrderInv'
  <1>. USE FilterAssumption
  <1>1. /\ total \in Nat /\ n \in Nat /\ total + n <= MaxInput /\ total' = total + n
        /\ file \in Seq(Byte) /\ file' = file /\ pc = "idle" /\ pc' = "write"
        /\ out' = Bytes(total + 1, total + HeadPart(n))
    BY DEF FInv, TypeOK, write, Byte
  <1>2. UpTo(file, Reached)
    BY DEF OrderInv
  <1>3. CASE total < activateSize
    <2>1. Reached = total /\ Reached' = total + HeadPart(n) /\ HeadPart(n) \in Nat /\ HeadPart(n) <= n
      BY <1>1, <1>3 DEF Reached, HeadPart
    <2>2. /\ total + 1 \in Int /\ total + HeadPart(n) \in Int /\ total \in Int /\ total + 1 >= 1
          /\ total + HeadPart(n) <= MaxInput /\ total + HeadPart(n) >= (total + 1) - 1
          /\ total < total + 1 /\ total <= total + HeadPart(n)
      BY <1>1, <2>1
    <2>3. UpTo(file, total)
      BY <1>2, <2>1
    <2>. DEFINE b == total + HeadPart(n)
    <2>4. /\ Ascending(Bytes(total + 1, b)) /\ Below(file, Bytes(total + 1, b))
          /\ UpTo(file, b) /\ UpTo(Bytes(total + 1, b), b)
      BY <1>1, <2>2, <2>3, NextBytes
    <2>. QED  BY <2>4, <2>1, <1>1 DEF OrderInv, Ascending, Below, UpTo
  <1>4. CASE total >= activateSize
    <2>1. out' = <<>>
      <3>1. HeadPart(n) = 0 /\ total + 1 \in Int /\ total + 0 = (total + 1) - 1
        BY <1>1, <1>4 DEF HeadPart
      <3>. QED  BY <3>1, <1>1, BytesNone
    <2>2. Reached = activateSize /\ Reached' = activateSize
      BY <1>1, <1>4 DEF Reached
    <2>. QED  BY <2>1, <2>2, <1>1, NothingToWrite DEF OrderInv, Ascending, Below, UpTo
  <1>. QED  BY <1>1, <1>3, <1>4

LEMMA FlushOrders ==
  ASSUME FInv, OrderInv, flush
  PROVE  OrderInv'
  <1>. USE FilterAssumption
  <1>1. /\ pc = "idle" /\ out = <<>> /\ total \in Nat /\ file \in Seq(Byte) /\ total <= MaxInput
        /\ allocated <=> (total >= activateSize /\ total > 0)
        /\ activateSize \in Nat /\ maxSize \in Nat /\ activateSize < maxSize
        /\ UNCHANGED <<total, w, file>>
    BY DEF FInv, Control, flush, TypeOK, Byte
  <1>2. UpTo(file, IF total < activateSize THEN total ELSE activateSize)
    BY <1>1 DEF OrderInv, Reached
  <1>3. CASE ~allocated
    <2>1. pc' = "closed" /\ out' = <<>> /\ Reached' = total
      BY <1>1, <1>3 DEF flush, Reached
    <2>2. (IF total < activateSize THEN total ELSE activateSize) = total
      BY <1>1, <1>3
    <2>. QED  BY <1>1, <1>2, <2>1, <2>2, NothingToWrite DEF OrderInv, Ascending, Below, UpTo
  <1>4. CASE allocated /\ total <= maxSize
    <2>1. pc' = "flush" /\ out' = Slice(0, total - activateSize) /\ Reached' = total
      BY <1>1, <1>4 DEF flush, Reached
    <2>2. out' = Bytes(activateSize + 1, total)
      BY <2>1, <1>4, <1>1, SliceAll
    <2>3. UpTo(file, activateSize)
      BY <1>1, <1>2, <1>4
    <2>4. /\ activateSize + 1 \in Int /\ total \in Int /\ activateSize \in Int
          /\ activateSize + 1 >= 1 /\ total >= (activateSize + 1) - 1
          /\ activateSize < activateSize + 1 /\ activateSize <= total
      BY <1>1, <1>4
    <2>5. /\ Ascending(Bytes(activateSize + 1, total)) /\ Below(file, Bytes(activateSize + 1, total))
          /\ UpTo(file, total) /\ UpTo(Bytes(activateSize + 1, total), total)
      BY <1>1, <2>3, <2>4, NextBytes
    <2>. QED  BY <1>1, <2>1, <2>2, <2>5 DEF OrderInv, Ascending, Below, UpTo
  <1>5. CASE allocated /\ total > maxSize
    <2>1. pc' = "flushMsg" /\ out' = <<Message>> /\ Reached' = activateSize
      BY <1>1, <1>5 DEF flush, Reached
    <2>2. UpTo(file, activateSize)
      BY <1>1, <1>2, <1>5
    <2>3. \A i \in 1..Len(out') : out'[i] = Message
      BY <2>1
    <2>4. Ascending(out') /\ Below(file, out') /\ UpTo(out', activateSize)
      BY <2>3, <1>1 DEF Ascending, Below, UpTo, Message
    <2>. QED  BY <1>1, <2>1, <2>2, <2>4 DEF OrderInv, Ascending, Below, UpTo
  <1>. QED  BY <1>1, <1>3, <1>4, <1>5

LEMMA ReturnOrders ==
  ASSUME FInv, OrderInv, Return
  PROVE  OrderInv'
  <1>. USE FilterAssumption
  <1>1. /\ out = <<>> /\ file \in Seq(Byte) /\ total \in Nat /\ total <= MaxInput
        /\ activateSize \in Nat /\ maxSize \in Nat /\ activateSize < maxSize
        /\ bufferSize = maxSize - activateSize /\ w \in Nat /\ w < bufferSize
        /\ len \in Nat /\ UNCHANGED <<total, w, file>>
    BY DEF FInv, TypeOK, Return, Byte, bufferSize
  <1>2. UpTo(file, Reached)
    BY DEF OrderInv
  <1>3. CASE pc = "flushMsg" /\ pc' = "flushOld" /\ out' = Slice(w, bufferSize)
    <2>1. allocated /\ len = 0 /\ total > maxSize
      BY <1>3, <1>1 DEF FInv, Control
    <2>. DEFINE a == total - bufferSize + 1
    <2>. DEFINE b == total - w
    <2>2. out' = Bytes(a, b)
      BY <1>3, <2>1, SliceHalves
    <2>3. Reached = activateSize /\ Reached' = b
      BY <1>3, <1>1 DEF Reached
    <2>4. /\ a \in Int /\ b \in Int /\ activateSize \in Int /\ a >= 1 /\ b <= MaxInput
          /\ b >= a - 1 /\ activateSize < a /\ activateSize <= b
      BY <1>1, <2>1
    <2>. HIDE DEF a, b
    <2>5. /\ Ascending(Bytes(a, b)) /\ Below(file, Bytes(a, b))
          /\ UpTo(file, b) /\ UpTo(Bytes(a, b), b)
      BY <1>1, <1>2, <2>3, <2>4, NextBytes
    <2>. QED  BY <1>1, <2>2, <2>3, <2>5 DEF OrderInv, Ascending, Below, UpTo
  <1>4. CASE pc = "flushOld" /\ pc' = "flushNew" /\ out' = Slice(0, w)
    <2>1. allocated /\ len = 0 /\ total > maxSize
      BY <1>4, <1>1 DEF FInv, Control
    <2>. DEFINE a == total - w + 1
    <2>2. out' = Bytes(a, total)
      BY <1>4, <2>1, SliceHalves
    <2>3. Reached = total - w /\ Reached' = total
      BY <1>4, <1>1 DEF Reached
    <2>4. /\ a \in Int /\ total \in Int /\ total - w \in Int /\ a >= 1
          /\ total >= a - 1 /\ total - w < a /\ total - w <= total
      BY <1>1, <2>1
    <2>. HIDE DEF a
    <2>5. /\ Ascending(Bytes(a, total)) /\ Below(file, Bytes(a, total))
          /\ UpTo(file, total) /\ UpTo(Bytes(a, total), total)
      BY <1>1, <1>2, <2>3, <2>4, NextBytes
    <2>. QED  BY <1>1, <2>2, <2>3, <2>5 DEF OrderInv, Ascending, Below, UpTo
  <1>5. CASE pc \in {"flush", "flushNew"} /\ pc' = "closed" /\ UNCHANGED out
    <2>1. Reached' = Reached
      BY <1>5, <1>1 DEF Reached
    <2>. QED  BY <1>1, <1>5, <2>1 DEF OrderInv, Ascending, Below, UpTo
  <1>6. CASE pc = "write" /\ pc' = (IF len > 0 THEN "copy" ELSE "idle") /\ UNCHANGED out
    <2>1. Reached' = Reached
      BY <1>6, <1>1 DEF Reached
    <2>. QED  BY <1>1, <1>6, <2>1 DEF OrderInv, Ascending, Below, UpTo
  <1>. QED  BY <1>3, <1>4, <1>5, <1>6 DEF Return, Flushed

(* write(2) cuts what is left anywhere.                                    *)
LEMMA SysWriteOrders ==
  ASSUME FInv, OrderInv, NEW n \in 1..Len(out), SysWrite(n)
  PROVE  OrderInv'
  <1>1. file \in Seq(Byte) /\ out \in Seq(Byte) /\ Len(out) \in Nat /\ n \in Nat /\ n <= Len(out)
        /\ Len(file) \in Nat
    BY LenProperties DEF FInv, TypeOK, Byte
  <1>. DEFINE a == SubSeq(out, 1, n)
  <1>. DEFINE b == SubSeq(out, n + 1, Len(out))
  <1>2. /\ a \in Seq(Byte) /\ Len(a) = n /\ \A i \in 1..n : a[i] = out[i]
        /\ Len(b) = Len(out) - n /\ \A i \in 1..(Len(out) - n) : b[i] = out[n + i]
    <2>1. \A i \in 1..Len(out) : out[i] \in Byte
      BY <1>1, ElementOfSeq
    <2>2. \A i \in 1..n : out[i] \in Byte
      BY <2>1, <1>1
    <2>3. a \in Seq(Byte) /\ Len(a) = n /\ \A i \in 1..n : a[i] = out[i]
      BY <2>2, <1>1, SubSeqProperties
    <2>4. \A i \in (n + 1)..Len(out) : out[i] \in Byte
      BY <2>1, <1>1
    <2>5. Len(b) = Len(out) - n /\ \A i \in 1..(Len(out) - n) : b[i] = out[n + i]
      BY <2>4, <1>1, SubSeqProperties
    <2>. QED  BY <2>3, <2>5
  <1>3. file' = file \o a /\ out' = b /\ Reached' = Reached
    BY DEF SysWrite, Left, Reached
  <1>. HIDE DEF a, b
  <1>4. /\ Len(file') = Len(file) + n
        /\ \A i \in 1..Len(file') : IF i <= Len(file) THEN i \in 1..Len(file) /\ file'[i] = file[i]
                                    ELSE /\ i - Len(file) \in 1..n /\ i - Len(file) \in 1..Len(out)
                                         /\ file'[i] = out[i - Len(file)]
    <2>1. /\ Len(file \o a) = Len(file) + Len(a)
          /\ \A i \in 1..(Len(file) + Len(a)) :
               (file \o a)[i] = IF i <= Len(file) THEN file[i] ELSE a[i - Len(file)]
      BY <1>1, <1>2, ConcatProperties
    <2>. QED  BY <2>1, <1>1, <1>2, <1>3
  <1>5. /\ Len(out') = Len(out) - n
        /\ \A i \in 1..Len(out') : n + i \in 1..Len(out) /\ out'[i] = out[n + i]
    BY <1>1, <1>2, <1>3
  <1>6. /\ Ascending(file) /\ Ascending(out) /\ Below(file, out)
        /\ UpTo(file, Reached) /\ UpTo(out, Reached)
    BY DEF OrderInv
  <1>7. UpTo(file', Reached) /\ UpTo(out', Reached)
    BY <1>4, <1>5, <1>6 DEF UpTo
  <1>8. Ascending(out')
    <2>. SUFFICES ASSUME NEW i \in 1..Len(out'), NEW j \in 1..Len(out'),
                         i < j, out'[i] # Message, out'[j] # Message
                  PROVE  out'[i] < out'[j]
      BY DEF Ascending
    <2>1. /\ n + i \in 1..Len(out) /\ out'[i] = out[n + i]
          /\ n + j \in 1..Len(out) /\ out'[j] = out[n + j]
      BY <1>5
    <2>2. n + i < n + j
      BY <1>1
    <2>. QED  BY <2>1, <2>2, <1>6 DEF Ascending
  <1>9. Below(file', out')
    <2>. SUFFICES ASSUME NEW i \in 1..Len(file'), NEW j \in 1..Len(out'),
                         file'[i] # Message, out'[j] # Message
                  PROVE  file'[i] < out'[j]
      BY DEF Below
    <2>1. n + j \in 1..Len(out) /\ out'[j] = out[n + j]
      BY <1>5
    <2>2. CASE i <= Len(file)
      <3>1. i \in 1..Len(file) /\ file'[i] = file[i]
        BY <1>4, <2>2
      <3>. QED  BY <3>1, <2>1, <1>6 DEF Below
    <2>3. CASE ~(i <= Len(file))
      <3>1. /\ i - Len(file) \in 1..n /\ i - Len(file) \in 1..Len(out)
            /\ file'[i] = out[i - Len(file)]
        BY <1>4, <2>3
      <3>2. i - Len(file) < n + j
        BY <3>1, <1>1
      <3>. QED  BY <3>1, <3>2, <2>1, <1>6 DEF Ascending
    <2>. QED  BY <2>2, <2>3
  <1>10. Ascending(file')
    <2>. SUFFICES ASSUME NEW i \in 1..Len(file'), NEW j \in 1..Len(file'),
                         i < j, file'[i] # Message, file'[j] # Message
                  PROVE  file'[i] < file'[j]
      BY DEF Ascending
    <2>1. CASE j <= Len(file)
      <3>1. /\ i \in 1..Len(file) /\ file'[i] = file[i]
            /\ j \in 1..Len(file) /\ file'[j] = file[j]
        BY <1>1, <1>4, <2>1
      <3>. QED  BY <3>1, <1>6 DEF Ascending
    <2>2. CASE ~(j <= Len(file)) /\ i <= Len(file)
      <3>1. /\ i \in 1..Len(file) /\ file'[i] = file[i]
            /\ j - Len(file) \in 1..Len(out) /\ file'[j] = out[j - Len(file)]
        BY <1>4, <2>2
      <3>. QED  BY <3>1, <1>6 DEF Below
    <2>3. CASE ~(i <= Len(file))
      <3>1. /\ i - Len(file) \in 1..Len(out) /\ file'[i] = out[i - Len(file)]
            /\ j - Len(file) \in 1..Len(out) /\ file'[j] = out[j - Len(file)]
        BY <1>1, <1>4, <2>3
      <3>2. i - Len(file) < j - Len(file)
        BY <1>1
      <3>. QED  BY <3>1, <3>2, <1>6 DEF Ascending
    <2>. QED  BY <2>1, <2>2, <2>3
  <1>. QED  BY <1>3, <1>7, <1>8, <1>9, <1>10 DEF OrderInv, Ascending, Below, UpTo

(* Whatever fails, what is in the file is in order, and nothing twice.     *)
THEOREM FileInOrder == Spec => []InOrder
  <1>1. Init => FInv /\ OrderInv
    BY FInvInit, OrderInit
  <1>2. FInv /\ OrderInv /\ [Next]_vars => OrderInv'
    <2>. SUFFICES ASSUME FInv, OrderInv, [Next]_vars PROVE OrderInv'
      OBVIOUS
    <2>1. ASSUME UNCHANGED <<file, out>>, Reached' = Reached PROVE OrderInv'
      BY <2>1 DEF OrderInv, Ascending, Below, UpTo
    <2>2. CASE UNCHANGED vars
      BY <2>1, <2>2 DEF vars, Reached
    <2>3. CASE copy
      <3>1. UNCHANGED <<file, out, total>> /\ pc = "copy" /\ pc' \in {"copy", "idle"}
        BY <2>3 DEF copy
      <3>. QED  BY <2>1, <3>1 DEF Reached
    <2>4. CASE SysError
      <3>1. out' = <<>> /\ file' = file /\ Reached' = Reached
        BY <2>4 DEF SysError, Reached
      <3>. QED  BY <3>1, NothingToWrite DEF OrderInv, Ascending, Below, UpTo
    <2>. QED  BY <2>2, <2>3, <2>4, WriteOrders, FlushOrders, ReturnOrders, SysWriteOrders
                 DEF Next, Step
  <1>3. OrderInv => InOrder
    BY DEF OrderInv, InOrder, Ascending
  <1>. QED  BY <1>1, <1>2, <1>3, FilterInductive, PTL DEF Spec
=============================================================================

--------------------------- MODULE StamperProofs ---------------------------
(***************************************************************************)
(* Proofs about Stamper, for any streams, buffers and amount of output:    *)
(* the file has every character once, in order, and a stamp at the         *)
(* beginning of each line.                                                 *)
(***************************************************************************)
EXTENDS Stamper, SumProofs, SequenceTheorems

(* Characters of s printed by now.                                         *)
Chars(s) == {c \in Item : c.what = "char" /\ c.stream = s /\ c.time <= published}

(* What is on its way is characters of its stream.                         *)
Pipes ==
  /\ \A s \in Names : unread[s] \in Seq(Chars(s))
  /\ pc = "send" => i <= Len(watched) /\ buffer # <<>> /\ buffer \in Seq(Chars(watched[i]))
  /\ pc # "send" => buffer = <<>>

(* A stream is watched until its end; those found ready still are when     *)
(* their turn comes.                                                       *)
Watching ==
  /\ IsInjective(watched)
  /\ \A s \in Names : s \notin ToSet(watched) => s \notin open /\ unread[s] = <<>>
  /\ pc \in {"scan", "send"} =>
       \A j \in DOMAIN watched :
         watched[j] \in ready /\ (j > i \/ (j = i /\ pc = "scan")) => Readable(watched[j])
  /\ pc = "select" => watchDog < WatchDog
  /\ pc \in {"scan", "send"} => watchDog = 0

Alternates(q) ==
  \A k \in 1..Len(q) : (q[k].what = "stamp") <=> (k = 1 \/ q[k - 1].eol)

AtStart(q) == q = <<>> \/ q[Len(q)].eol

TimesRight(q) ==
  \A k \in 1..Len(q) : q[k].what = "stamp" =>
    /\ q[k].time <= published
    /\ k < Len(q) => q[k].time >= q[k + 1].time
    /\ \A j \in 1..k : q[j].what = "stamp" => q[j].time <= q[k].time

Sheet(q) ==
  /\ q \in Seq(Item)
  /\ \A s \in Names : Alternates(Of(q, s))
  /\ TimesRight(q)

(* The file goes on after it.                                              *)
Unended(q) ==
  /\ q # <<>> => q[Len(q)].what # "stamp"
  /\ \A k \in 1..Len(q) : q[k].what # "EOF"

FileInv ==
  /\ Sheet(file)
  /\ EOFOnItsOwn
  /\ pc # "done" =>
       /\ Unended(file)
       /\ \A s \in Names : EOLBefore[s] <=> AtStart(Of(file, s))
       /\ incompleteLineSent <=> ~AtStart(file)

StInv == TypeOK /\ Pipes /\ Watching /\ FileInv /\ Transparent

-----------------------------------------------------------------------------
(* Sequences.                                                              *)

(* What seq has of T, one element after the other.                         *)
Keeps(S, q, T, kept) ==
  /\ kept \in [0..Len(q) -> Seq(S)]
  /\ kept[0] = <<>>
  /\ \A n \in 1..Len(q) :
       kept[n] = IF q[n] \in T THEN Append(kept[n - 1], q[n]) ELSE kept[n - 1]
  /\ Only(q, T) = kept[Len(q)]

LEMMA OnlyStep ==
  ASSUME NEW S, NEW q \in Seq(S), NEW T
  PROVE  \E kept : Keeps(S, q, T, kept)
<1> DEFINE M == Len(q)
           More(a, n) == IF q[n] \in T THEN Append(a, q[n]) ELSE a
           Loop(f, N) == [n \in 0..N |-> IF n = 0 THEN <<>> ELSE More(f[n - 1], n)]
           P == {N \in 0..M : \E f : f = Loop(f, N)}
<1>0. M \in Nat /\ \A n \in 1..M : q[n] \in S
  OBVIOUS
<1> HIDE DEF M, More
<1>1. 0 \in P
  <2> DEFINE f == [n \in 0..0 |-> <<>>]
  <2>1. f = Loop(f, 0)
    OBVIOUS
  <2>2. 0 \in 0..M
    BY <1>0
  <2>3. QED
    BY <2>1, <2>2, Zenon
<1>2. ASSUME NEW N \in 0..M - 1, N \in P PROVE N + 1 \in P
  <2>1. PICK f : f = Loop(f, N)
    BY <1>2
  <2> DEFINE g == [n \in 0..N + 1 |-> IF n = N + 1 THEN More(f[N], n) ELSE f[n]]
  <2>2. \A n \in 0..N + 1 : g[n] = IF n = 0 THEN <<>> ELSE More(g[n - 1], n)
    <3> SUFFICES ASSUME NEW n \in 0..N + 1
                 PROVE g[n] = IF n = 0 THEN <<>> ELSE More(g[n - 1], n)
      OBVIOUS
    <3>1. CASE n = 0
      BY <2>1, <3>1, <1>2
    <3>2. CASE n \in 1..N
      <4>1. f[n] = More(f[n - 1], n)
        BY <2>1, <3>2, <1>2
      <4>2. g[n] = f[n] /\ g[n - 1] = f[n - 1]
        BY <3>2, <1>2
      <4>3. QED
        BY <3>2, <4>1, <4>2
    <3>3. CASE n = N + 1
      <4>1. g[n] = More(f[N], n) /\ g[n - 1] = f[N] /\ n # 0
        BY <3>3, <1>2
      <4>2. QED
        BY <4>1
    <3>4. QED
      BY <3>1, <3>2, <3>3, <1>2
  <2>3. g = Loop(g, N + 1)
    BY <2>2, Zenon
  <2>4. N + 1 \in 0..M
    BY <1>0, <1>2
  <2>5. QED
    BY <2>3, <2>4, Zenon
<1>3. M \in P
  <2> HIDE DEF P
  <2>1. QED
    BY <1>0, <1>1, <1>2, CountUp
<1> DEFINE kept == CHOOSE f : f = Loop(f, M)
<1>4. kept = Loop(kept, M)
  <2>1. \E f : f = Loop(f, M)
    BY <1>3
  <2> HIDE DEF Loop
  <2>2. QED
    BY <2>1
<1>5. Only(q, T) = kept[M]
  BY Zenon DEF Only, M, More
<1> HIDE DEF kept, Loop
<1>6. /\ kept[0] = <<>>
      /\ \A n \in 1..M : kept[n] = More(kept[n - 1], n)
      /\ DOMAIN kept = 0..M
  <2>1. \A n \in 0..M : kept[n] = IF n = 0 THEN <<>> ELSE More(kept[n - 1], n)
    BY <1>4 DEF Loop
  <2>2. DOMAIN kept = 0..M
    BY <1>4 DEF Loop
  <2>3. QED
    BY <1>0, <2>1, <2>2
<1> DEFINE R == {n \in 0..M : kept[n] \in Seq(S)}
<1>7. 0 \in R
  <2>1. <<>> \in Seq(S) /\ 0 \in 0..M
    BY <1>0
  <2>2. QED
    BY <1>6, <2>1
<1>8. ASSUME NEW n \in 0..M - 1, n \in R PROVE n + 1 \in R
  <2>1. n + 1 \in 1..M /\ (n + 1) - 1 = n /\ n + 1 \in 0..M
    BY <1>0
  <2>2. kept[n + 1] = More(kept[n], n + 1) /\ q[n + 1] \in S
    BY <1>0, <1>6, <2>1
  <2>3. kept[n] \in Seq(S)
    BY <1>8
  <2> DEFINE a == kept[n]
             e == q[n + 1]
  <2>4. Append(a, e) \in Seq(S)
    <3>1. a \in Seq(S) /\ e \in S
      BY <2>2, <2>3
    <3> HIDE DEF a, e
    <3>2. QED
      BY <3>1
  <2>5. kept[n + 1] \in Seq(S)
    BY <2>2, <2>3, <2>4 DEF More
  <2>6. QED
    BY <2>1, <2>5
<1>9. \A n \in 0..M : kept[n] \in Seq(S)
  <2> HIDE DEF R
  <2>1. 0..M \subseteq R
    BY <1>0, <1>7, <1>8, CountUp
  <2>2. QED
    BY <2>1 DEF R
<1>10. kept = Loop(kept, M) /\ kept \in [0..M -> Seq(S)]
  <2>1. kept = [n \in 0..M |-> kept[n]]
    BY <1>4 DEF Loop
  <2>2. QED
    BY <1>4, <1>9, <2>1
<1>11. Keeps(S, q, T, kept)
  BY <1>5, <1>6, <1>10 DEF Keeps, More, M
<1>12. QED
  BY <1>11

LEMMA OnlyEmpty ==
  ASSUME NEW T
  PROVE  Only(<<>>, T) = <<>>
<1>1. <<>> \in Seq({}) /\ Len(<<>>) = 0
  OBVIOUS
<1>2. PICK f : Keeps({}, <<>>, T, f)
  BY <1>1, OnlyStep
<1>3. QED
  BY <1>1, <1>2 DEF Keeps

(* One element more.                                                       *)
LEMMA OnlyAppend ==
  ASSUME NEW S, NEW q \in Seq(S), NEW e \in S, NEW T
  PROVE  /\ Only(q, T) \in Seq(S)
         /\ Only(Append(q, e), T) = IF e \in T THEN Append(Only(q, T), e) ELSE Only(q, T)
<1> DEFINE w == Append(q, e)
           M == Len(q)
<1>1. M \in Nat /\ w \in Seq(S) /\ Len(w) = M + 1 /\ w[M + 1] = e
      /\ \A n \in 1..M : w[n] = q[n]
  OBVIOUS
<1> HIDE DEF w, M
<1>2. PICK f :
        /\ f \in [0..M -> Seq(S)]
        /\ f[0] = <<>>
        /\ \A n \in 1..M : f[n] = IF q[n] \in T THEN Append(f[n - 1], q[n]) ELSE f[n - 1]
        /\ Only(q, T) = f[M]
  <2>1. PICK f : Keeps(S, q, T, f)
    BY OnlyStep
  <2>2. QED
    BY <2>1 DEF Keeps, M
<1>3. PICK g :
        /\ g \in [0..Len(w) -> Seq(S)]
        /\ g[0] = <<>>
        /\ \A n \in 1..Len(w) : g[n] = IF w[n] \in T THEN Append(g[n - 1], w[n]) ELSE g[n - 1]
        /\ Only(w, T) = g[Len(w)]
  <2>1. PICK h : Keeps(S, w, T, h)
    BY <1>1, OnlyStep
  <2>2. QED
    BY <2>1 DEF Keeps
<1> DEFINE P == {n \in 0..M : g[n] = f[n]}
<1>4. 0 \in P
  BY <1>1, <1>2, <1>3
<1>5. ASSUME NEW n \in 0..M - 1, n \in P PROVE n + 1 \in P
  <2>1. n + 1 \in 1..M /\ n + 1 \in 1..Len(w) /\ (n + 1) - 1 = n /\ n + 1 \in 0..M
    BY <1>1
  <2>2. f[n + 1] = IF q[n + 1] \in T THEN Append(f[n], q[n + 1]) ELSE f[n]
    BY <1>2, <2>1
  <2>3. g[n + 1] = IF w[n + 1] \in T THEN Append(g[n], w[n + 1]) ELSE g[n]
    BY <1>3, <2>1
  <2>4. QED
    BY <1>1, <1>5, <2>1, <2>2, <2>3
<1>6. g[M] = f[M]
  <2> HIDE DEF P
  <2>1. M \in P
    BY <1>1, <1>4, <1>5, CountUp
  <2>2. QED
    BY <2>1 DEF P
<1>7. g[M + 1] = IF e \in T THEN Append(g[M], e) ELSE g[M]
  <2>1. M + 1 \in 1..Len(w) /\ (M + 1) - 1 = M
    BY <1>1
  <2>2. QED
    BY <1>1, <1>3, <2>1
<1>8. f[M] \in Seq(S)
  BY <1>1, <1>2
<1>9. QED
  BY <1>1, <1>2, <1>3, <1>6, <1>7, <1>8 DEF w

(* A sequence of elements of T only, or of none.                           *)
LEMMA OnlyAll ==
  ASSUME NEW S, NEW q \in Seq(S), NEW T
  PROVE  /\ S \subseteq T => Only(q, T) = q
         /\ S \cap T = {} => Only(q, T) = <<>>
<1> DEFINE M == Len(q)
<1>1. M \in Nat /\ \A n \in 1..M : q[n] \in S
  BY DEF M
<1> HIDE DEF M
<1>2. PICK f :
        /\ f \in [0..M -> Seq(S)]
        /\ f[0] = <<>>
        /\ \A n \in 1..M : f[n] = IF q[n] \in T THEN Append(f[n - 1], q[n]) ELSE f[n - 1]
        /\ Only(q, T) = f[M]
  <2>1. PICK f : Keeps(S, q, T, f)
    BY OnlyStep
  <2>2. QED
    BY <2>1 DEF Keeps, M
<1>3. ASSUME S \subseteq T PROVE Only(q, T) = q
  <2> DEFINE P == {n \in 0..M : Len(f[n]) = n /\ \A k \in 1..n : f[n][k] = q[k]}
  <2>1. 0 \in P
    BY <1>1, <1>2
  <2>2. ASSUME NEW n \in 0..M - 1, n \in P PROVE n + 1 \in P
    <3>1. n + 1 \in 1..M /\ (n + 1) - 1 = n /\ n + 1 \in 0..M /\ n \in 0..M
      BY <1>1
    <3>2. f[n + 1] = Append(f[n], q[n + 1])
      BY <1>1, <1>2, <1>3, <3>1
    <3>3. f[n] \in Seq(S) /\ q[n + 1] \in S /\ Len(f[n]) = n /\ \A k \in 1..n : f[n][k] = q[k]
      BY <1>1, <1>2, <2>2, <3>1
    <3> DEFINE a == f[n]
               b == f[n + 1]
    <3> HIDE DEF a, b
    <3>4. Len(b) = n + 1 /\ b[n + 1] = q[n + 1] /\ \A k \in 1..n : b[k] = q[k]
      <4>1. b = Append(a, q[n + 1]) /\ a \in Seq(S) /\ q[n + 1] \in S /\ Len(a) = n
            /\ \A k \in 1..n : a[k] = q[k]
        BY <3>2, <3>3 DEF a, b
      <4>2. QED
        BY <4>1
    <3>5. \A k \in 1..n + 1 : k \in 1..n \/ k = n + 1
      BY <1>1
    <3>6. QED
      BY <3>1, <3>4, <3>5 DEF b
  <2>3. Len(f[M]) = M /\ \A k \in 1..M : f[M][k] = q[k]
    <3> HIDE DEF P
    <3>1. M \in P
      BY <1>1, <2>1, <2>2, CountUp
    <3>2. QED
      BY <3>1 DEF P
  <2>4. f[M] \in Seq(S)
    BY <1>1, <1>2
  <2> DEFINE a == f[M]
  <2> HIDE DEF a
  <2>5. a \in Seq(S) /\ Len(a) = Len(q) /\ \A k \in 1..Len(a) : a[k] = q[k]
    BY <2>3, <2>4 DEF M, a
  <2>6. a = q
    BY <2>5, SeqEqual
  <2>7. QED
    BY <1>2, <2>6 DEF a
<1>4. ASSUME S \cap T = {} PROVE Only(q, T) = <<>>
  <2> DEFINE P == {n \in 0..M : f[n] = <<>>}
  <2>1. 0 \in P
    BY <1>1, <1>2
  <2>2. ASSUME NEW n \in 0..M - 1, n \in P PROVE n + 1 \in P
    <3>1. n + 1 \in 1..M /\ (n + 1) - 1 = n /\ n + 1 \in 0..M
      BY <1>1
    <3>2. q[n + 1] \notin T
      BY <1>1, <1>4, <3>1
    <3>3. QED
      BY <1>2, <2>2, <3>1, <3>2
  <2>3. M \in P
    <3> HIDE DEF P
    <3>1. QED
      BY <1>1, <2>1, <2>2, CountUp
  <2>4. QED
    BY <1>2, <2>3
<1>5. QED
  BY <1>3, <1>4
-----------------------------------------------------------------------------
(* What is written to the file.                                            *)

LEMMA NamesAre ==
  "" \notin Names /\ \A k \in 1..Len(Streams) : Streams[k] \in Names
<1> DEFINE S == STRING \ {""}
<1>1. Streams \in Seq(S)
  BY StamperAssumption
<1>2. "" \notin S
  OBVIOUS
<1> HIDE DEF S
<1>3. DOMAIN Streams = 1..Len(Streams) /\ \A k \in 1..Len(Streams) : Streams[k] \in S
  BY <1>1
<1>4. QED
  BY <1>2, <1>3 DEF Names, ToSet

LEMMA ItemsAre ==
  ASSUME published \in 0..MaxTime, NEW s \in Names, NEW eol \in BOOLEAN
  PROVE  /\ Char(s, eol) \in Chars(s) /\ Char(s, eol) \in Item
         /\ Stamp(s) \in Item /\ Stamp("") \in Item
         /\ AddedEOL \in Item /\ EOFLine \in Item
<1>1. published \in 0..MaxTime /\ published <= published /\ FALSE \in BOOLEAN /\ TRUE \in BOOLEAN
  <2>1. MaxTime \in Nat
    BY StamperAssumption
  <2>2. QED
    BY <2>1
<1>2. \A what \in {"char", "stamp", "eol", "EOF"}, x \in Names \cup {""}, end \in BOOLEAN :
        [what |-> what, stream |-> x, eol |-> end, time |-> published] \in Item
  BY <1>1 DEF Item
<1>3. Char(s, eol) \in Item
  BY <1>2 DEF Char
<1>4. Char(s, eol) \in Chars(s)
  <2>1. /\ Char(s, eol).what = "char" /\ Char(s, eol).stream = s
        /\ Char(s, eol).time = published
    BY DEF Char
  <2>2. QED
    BY <1>1, <1>3, <2>1 DEF Chars
<1>5. Stamp(s) \in Item /\ Stamp("") \in Item
  BY <1>1, <1>2 DEF Stamp
<1>6. AddedEOL \in Item /\ EOFLine \in Item
  BY <1>1, <1>2 DEF AddedEOL, EOFLine
<1>7. QED
  BY <1>3, <1>4, <1>5, <1>6

LEMMA AlternatesAppend ==
  ASSUME NEW q \in Seq(Item), NEW e \in Item, Alternates(q), e.what = "stamp" <=> AtStart(q)
  PROVE  Alternates(Append(q, e)) /\ AtStart(Append(q, e)) = e.eol
<1> DEFINE w == Append(q, e)
           n == Len(q)
<1>1. /\ n \in Nat /\ w \in Seq(Item) /\ Len(w) = n + 1 /\ w[n + 1] = e
      /\ \A k \in 1..n : w[k] = q[k]
  OBVIOUS
<1>2. q = <<>> <=> n = 0
  OBVIOUS
<1>3. w # <<>>
  BY <1>1
<1>4. e.eol \in BOOLEAN
  BY DEF Item
<1> HIDE DEF w, n
<1>5. AtStart(w) = e.eol
  BY <1>1, <1>3, <1>4 DEF AtStart
<1>6. ASSUME NEW k \in 1..n + 1
      PROVE  (w[k].what = "stamp") <=> (k = 1 \/ w[k - 1].eol)
  <2>1. CASE k \in 1..n
    <3>1. (q[k].what = "stamp") <=> (k = 1 \/ q[k - 1].eol)
      BY <2>1 DEF Alternates, n
    <3>2. k # 1 => k - 1 \in 1..n
      BY <1>1, <2>1
    <3>3. QED
      BY <1>1, <2>1, <3>1, <3>2
  <2>2. CASE k = n + 1
    <3>1. k = 1 <=> q = <<>>
      BY <1>1, <1>2, <2>2
    <3>2. k # 1 => k - 1 = n /\ n \in 1..n /\ w[n] = q[n]
      BY <1>1, <2>2
    <3>3. (e.what = "stamp") <=> (k = 1 \/ q[n].eol)
      BY <3>1 DEF AtStart, n
    <3>4. QED
      BY <1>1, <2>2, <3>2, <3>3
  <2>3. QED
    BY <1>1, <2>1, <2>2
<1>7. Alternates(w)
  BY <1>1, <1>6 DEF Alternates
<1>8. QED
  BY <1>5, <1>7 DEF w

LEMMA TimesAppend ==
  ASSUME NEW q \in Seq(Item), NEW e \in Item, TimesRight(q), published \in 0..MaxTime,
         e.what = "stamp" => e.time = published,
         q # <<>> /\ q[Len(q)].what = "stamp" => q[Len(q)].time >= e.time
  PROVE  TimesRight(Append(q, e))
<1> DEFINE w == Append(q, e)
           n == Len(q)
<1>1. /\ n \in Nat /\ w \in Seq(Item) /\ Len(w) = n + 1 /\ w[n + 1] = e
      /\ \A k \in 1..n : w[k] = q[k]
  OBVIOUS
<1>2. n # 0 => q # <<>>
  OBVIOUS
<1>3. published \in Int
  OBVIOUS
<1> HIDE DEF w, n
<1>4. \A j \in 1..n : q[j].what = "stamp" => q[j].time <= published
  BY DEF TimesRight, n
<1>5. ASSUME NEW k \in 1..n + 1, w[k].what = "stamp"
      PROVE  /\ w[k].time <= published
             /\ k < n + 1 => w[k].time >= w[k + 1].time
             /\ \A j \in 1..k : w[j].what = "stamp" => w[j].time <= w[k].time
  <2>1. CASE k \in 1..n
    <3>1. /\ q[k].time <= published
          /\ k < n => q[k].time >= q[k + 1].time
          /\ \A j \in 1..k : q[j].what = "stamp" => q[j].time <= q[k].time
      BY <1>1, <1>5, <2>1 DEF TimesRight, n
    <3>2. k = n => q[n].time >= e.time
      BY <1>1, <1>2, <1>5, <2>1 DEF n
    <3>3. k < n => w[k + 1] = q[k + 1]
      BY <1>1, <2>1
    <3>4. k = n => w[k + 1] = e
      BY <1>1
    <3>5. \A j \in 1..k : w[j] = q[j]
      BY <1>1, <2>1
    <3>6. w[k] = q[k] /\ (k < n \/ k = n)
      BY <1>1, <2>1
    <3>7. QED
      BY <3>1, <3>2, <3>3, <3>4, <3>5, <3>6
  <2>2. CASE k = n + 1
    <3>1. e.time = published /\ w[k] = e
      BY <1>1, <1>5, <2>2
    <3>2. \A j \in 1..k : j \in 1..n \/ j = k
      BY <1>1, <2>2
    <3>3. \A j \in 1..k : w[j].what = "stamp" => w[j].time <= w[k].time
      BY <1>1, <1>3, <1>4, <3>1, <3>2
    <3>4. QED
      BY <1>3, <2>2, <3>1, <3>3
  <2>3. QED
    BY <1>1, <2>1, <2>2
<1>6. TimesRight(w)
  BY <1>1, <1>5 DEF TimesRight
<1>7. QED
  BY <1>6 DEF w

(* What an item more does to what is seen of each stream.                  *)
LEMMA OneMore ==
  ASSUME NEW q \in Seq(Item), NEW e \in Item, NEW t \in Names
  PROVE  /\ Of(q, t) \in Seq(Item) /\ CharsOf(q, t) \in Seq(Item)
         /\ Of(Append(q, e), t) = IF e.stream = t THEN Append(Of(q, t), e) ELSE Of(q, t)
         /\ CharsOf(Append(q, e), t)
              = IF e.stream = t /\ e.what = "char" THEN Append(CharsOf(q, t), e)
                                                   ELSE CharsOf(q, t)
<1>1. e \in {c \in Item : c.stream = t} <=> e.stream = t
  OBVIOUS
<1>2. e \in {c \in Item : c.what = "char" /\ c.stream = t} <=> e.stream = t /\ e.what = "char"
  OBVIOUS
<1> DEFINE A == {c \in Item : c.stream = t}
           B == {c \in Item : c.what = "char" /\ c.stream = t}
<1> HIDE DEF A, B
<1>3. /\ Only(q, A) \in Seq(Item)
      /\ Only(Append(q, e), A) = IF e \in A THEN Append(Only(q, A), e) ELSE Only(q, A)
  BY OnlyAppend
<1>4. /\ Only(q, B) \in Seq(Item)
      /\ Only(Append(q, e), B) = IF e \in B THEN Append(Only(q, B), e) ELSE Only(q, B)
  BY OnlyAppend
<1>5. QED
  BY <1>1, <1>2, <1>3, <1>4 DEF A, B, Of, CharsOf

(* A stamp at the beginning of a line.                                     *)
LEMMA StampAdded ==
  ASSUME published \in 0..MaxTime, NEW q, Sheet(q), Unended(q), NEW s \in Names,
         AtStart(Of(q, s))
  PROVE  LET w == Append(q, Stamp(s))
         IN /\ Sheet(w) /\ w # <<>> /\ w[Len(w)] = Stamp(s)
            /\ \A k \in 1..Len(w) : w[k].what # "EOF"
            /\ ~AtStart(Of(w, s))
            /\ \A t \in Names : t # s => Of(w, t) = Of(q, t)
            /\ \A t \in Names : CharsOf(w, t) = CharsOf(q, t)
<1> DEFINE e == Stamp(s)
           w == Append(q, e)
           n == Len(q)
<1>1. q \in Seq(Item) /\ e \in Item
  BY ItemsAre DEF Sheet
<1>2. e.what = "stamp" /\ e.stream = s /\ e.eol = FALSE /\ e.time = published
  BY DEF Stamp
<1> HIDE DEF e
<1>3. /\ n \in Nat /\ w \in Seq(Item) /\ Len(w) = n + 1 /\ w[n + 1] = e
      /\ \A k \in 1..n : w[k] = q[k]
      /\ w # <<>>
  BY <1>1
<1>4. \A t \in Names : /\ Of(q, t) \in Seq(Item)
                       /\ Of(w, t) = IF s = t THEN Append(Of(q, t), e) ELSE Of(q, t)
                       /\ CharsOf(w, t) = CharsOf(q, t)
  BY <1>1, <1>2, OneMore
<1> HIDE DEF w, n
<1>5. Alternates(Of(w, s)) /\ ~AtStart(Of(w, s))
  <2>1. Alternates(Of(q, s))
    BY DEF Sheet
  <2>2. Alternates(Append(Of(q, s), e)) /\ AtStart(Append(Of(q, s), e)) = e.eol
    BY <1>1, <1>2, <1>4, <2>1, AlternatesAppend
  <2>3. QED
    BY <1>2, <1>4, <2>2
<1>6. \A t \in Names : Alternates(Of(w, t))
  BY <1>4, <1>5 DEF Sheet
<1>7. TimesRight(w)
  <2>1. q # <<>> => q[Len(q)].what # "stamp"
    BY DEF Unended
  <2>2. TimesRight(q)
    BY DEF Sheet
  <2>3. QED
    BY <1>1, <1>2, <2>1, <2>2, TimesAppend DEF w
<1>8. \A k \in 1..Len(w) : w[k].what # "EOF"
  <2>1. \A k \in 1..n + 1 : k \in 1..n \/ k = n + 1
    BY <1>3
  <2>2. \A k \in 1..n : q[k].what # "EOF"
    BY DEF Unended, n
  <2>3. QED
    BY <1>2, <1>3, <2>1, <2>2
<1>9. Sheet(w) /\ w # <<>> /\ w[Len(w)] = e
  BY <1>3, <1>6, <1>7 DEF Sheet
<1>10. QED
  BY <1>4, <1>5, <1>8, <1>9 DEF w, e

(* A character, where its line goes on.                                    *)
LEMMA CharAdded ==
  ASSUME published \in 0..MaxTime, NEW q, Sheet(q), NEW s \in Names, NEW c \in Chars(s),
         ~AtStart(Of(q, s)), \A k \in 1..Len(q) : q[k].what # "EOF",
         q # <<>> /\ q[Len(q)].what = "stamp" => q[Len(q)].time >= c.time
  PROVE  LET w == Append(q, c)
         IN /\ Sheet(w) /\ Unended(w)
            /\ AtStart(w) = c.eol /\ AtStart(Of(w, s)) = c.eol
            /\ \A t \in Names : t # s => Of(w, t) = Of(q, t) /\ CharsOf(w, t) = CharsOf(q, t)
            /\ CharsOf(w, s) = Append(CharsOf(q, s), c)
<1> DEFINE w == Append(q, c)
           n == Len(q)
<1>1. /\ q \in Seq(Item) /\ c \in Item /\ c.what = "char" /\ c.stream = s /\ c.eol \in BOOLEAN
  BY DEF Sheet, Chars, Item
<1>2. /\ n \in Nat /\ w \in Seq(Item) /\ Len(w) = n + 1 /\ w[n + 1] = c
      /\ \A k \in 1..n : w[k] = q[k]
      /\ w # <<>>
  BY <1>1
<1>3. \A t \in Names :
        /\ Of(q, t) \in Seq(Item)
        /\ Of(w, t) = IF s = t THEN Append(Of(q, t), c) ELSE Of(q, t)
        /\ CharsOf(w, t) = IF s = t THEN Append(CharsOf(q, t), c) ELSE CharsOf(q, t)
  BY <1>1, OneMore
<1> HIDE DEF w, n
<1>4. Alternates(Of(w, s)) /\ AtStart(Of(w, s)) = c.eol
  <2>1. Alternates(Of(q, s))
    BY DEF Sheet
  <2>2. Alternates(Append(Of(q, s), c)) /\ AtStart(Append(Of(q, s), c)) = c.eol
    BY <1>1, <1>3, <2>1, AlternatesAppend
  <2>3. QED
    BY <1>3, <2>2
<1>5. \A t \in Names : Alternates(Of(w, t))
  BY <1>3, <1>4 DEF Sheet
<1>6. TimesRight(w)
  BY <1>1, TimesAppend DEF w, Sheet
<1>7. \A k \in 1..Len(w) : w[k].what # "EOF"
  <2>1. \A k \in 1..n + 1 : k \in 1..n \/ k = n + 1
    BY <1>2
  <2>2. \A k \in 1..n : q[k].what # "EOF"
    BY DEF n
  <2>3. QED
    BY <1>1, <1>2, <2>1, <2>2
<1>8. Sheet(w) /\ Unended(w) /\ AtStart(w) = c.eol
  BY <1>1, <1>2, <1>5, <1>6, <1>7 DEF Sheet, Unended, AtStart
<1>9. QED
  BY <1>3, <1>4, <1>8 DEF w
(* An element more, after two sequences.                                   *)
Follows(x, y, e) == x \o Append(y, e) = Append(x \o y, e)

LEMMA ConcatAppend ==
  ASSUME NEW S, NEW x \in Seq(S), NEW y \in Seq(S), NEW e \in S
  PROVE  Follows(x, y, e)
<1> DEFINE one == <<e>>
<1>1. one \in Seq(S) /\ Append(y, e) = y \o one
  BY AppendIsConcat
<1>2. x \o y \in Seq(S)
  BY ConcatProperties
<1>3. Append(x \o y, e) = (x \o y) \o one
  BY <1>2, AppendIsConcat
<1> HIDE DEF one
<1>4. (x \o y) \o one = x \o (y \o one)
  BY <1>1, ConcatAssociative
<1>5. QED
  BY <1>1, <1>3, <1>4, Zenon DEF Follows

LEMMA OneMoreTaken ==
  ASSUME NEW S, NEW b \in Seq(S), NEW n \in 0..Len(b) - 1
  PROVE  SubSeq(b, 1, n) \in Seq(S) /\ SubSeq(b, 1, n + 1) = Append(SubSeq(b, 1, n), b[n + 1])
<1> DEFINE a == SubSeq(b, 1, n)
           c == SubSeq(b, 1, n + 1)
<1>1. n + 1 \in 1..Len(b) /\ n \in Nat
  OBVIOUS
<1>2. a \in Seq(S) /\ Len(a) = n /\ \A k \in 1..n : a[k] = b[k]
  OBVIOUS
<1>3. c \in Seq(S) /\ Len(c) = n + 1 /\ \A k \in 1..n + 1 : c[k] = b[k]
  OBVIOUS
<1>4. b[n + 1] \in S
  BY <1>1
<1> DEFINE w == Append(a, b[n + 1])
<1> HIDE DEF a, c
<1>5. w \in Seq(S) /\ Len(w) = n + 1 /\ \A k \in 1..n + 1 : w[k] = b[k]
  <2>1. w \in Seq(S) /\ Len(w) = n + 1 /\ w[n + 1] = b[n + 1] /\ \A k \in 1..n : w[k] = a[k]
    BY <1>1, <1>2, <1>4
  <2>2. \A k \in 1..n + 1 : k \in 1..n \/ k = n + 1
    BY <1>1
  <2> HIDE DEF w
  <2>3. QED
    BY <1>2, <2>1, <2>2
<1> HIDE DEF w
<1>6. w = c
  BY <1>1, <1>3, <1>5, SeqEqual
<1>7. QED
  BY <1>2, <1>6 DEF w, a, c

(* The file while readFrom writes.                                         *)
Sends(s, sent) ==
  /\ sent[0] = file
  /\ \A n \in 1..Len(buffer) : sent[n] = Append(WithStamp(sent[n - 1], s, n), buffer[n])
  /\ Lines(s) = sent[Len(buffer)]

LEMMA LinesStep ==
  ASSUME NEW S, buffer \in Seq(S), NEW s
  PROVE  \E sent : Sends(s, sent)
<1> DEFINE M == Len(buffer)
           More(q, n) == Append(WithStamp(q, s, n), buffer[n])
           Loop(f, N) == [n \in 0..N |-> IF n = 0 THEN file ELSE More(f[n - 1], n)]
           P == {N \in 0..M : \E f : f = Loop(f, N)}
<1>0. M \in Nat
  OBVIOUS
<1> HIDE DEF M, More
<1>1. 0 \in P
  <2> DEFINE f == [n \in 0..0 |-> file]
  <2>1. f = Loop(f, 0)
    OBVIOUS
  <2>2. 0 \in 0..M
    BY <1>0
  <2>3. QED
    BY <2>1, <2>2, Zenon
<1>2. ASSUME NEW N \in 0..M - 1, N \in P PROVE N + 1 \in P
  <2>1. PICK f : f = Loop(f, N)
    BY <1>2
  <2> DEFINE g == [n \in 0..N + 1 |-> IF n = N + 1 THEN More(f[N], n) ELSE f[n]]
  <2>2. \A n \in 0..N + 1 : g[n] = IF n = 0 THEN file ELSE More(g[n - 1], n)
    <3> SUFFICES ASSUME NEW n \in 0..N + 1
                 PROVE g[n] = IF n = 0 THEN file ELSE More(g[n - 1], n)
      OBVIOUS
    <3>1. CASE n = 0
      BY <2>1, <3>1, <1>2
    <3>2. CASE n \in 1..N
      <4>1. f[n] = More(f[n - 1], n)
        BY <2>1, <3>2, <1>2
      <4>2. g[n] = f[n] /\ g[n - 1] = f[n - 1]
        BY <3>2, <1>2
      <4>3. QED
        BY <3>2, <4>1, <4>2
    <3>3. CASE n = N + 1
      <4>1. g[n] = More(f[N], n) /\ g[n - 1] = f[N] /\ n # 0
        BY <3>3, <1>2
      <4>2. QED
        BY <4>1
    <3>4. QED
      BY <3>1, <3>2, <3>3, <1>2
  <2>3. g = Loop(g, N + 1)
    BY <2>2, Zenon
  <2>4. N + 1 \in 0..M
    BY <1>0, <1>2
  <2>5. QED
    BY <2>3, <2>4, Zenon
<1>3. M \in P
  <2> HIDE DEF P
  <2>1. QED
    BY <1>0, <1>1, <1>2, CountUp
<1> DEFINE sent == CHOOSE f : f = Loop(f, M)
<1>4. sent = Loop(sent, M)
  <2>1. \E f : f = Loop(f, M)
    BY <1>3
  <2> HIDE DEF Loop
  <2>2. QED
    BY <2>1
<1>5. Lines(s) = sent[M]
  BY Zenon DEF Lines, M, More
<1> HIDE DEF sent, Loop
<1>6. sent[0] = file /\ \A n \in 1..M : sent[n] = More(sent[n - 1], n)
  <2>1. \A n \in 0..M : sent[n] = IF n = 0 THEN file ELSE More(sent[n - 1], n)
    BY <1>4 DEF Loop
  <2>2. QED
    BY <1>0, <2>1
<1>7. Sends(s, sent)
  BY <1>5, <1>6 DEF Sends, More, M
<1>8. QED
  BY <1>7

(* What readFrom has done to the file when it has written w.               *)
Sent(s, w) ==
  /\ Sheet(w) /\ Unended(w)
  /\ AtStart(w) = Last(buffer).eol
  /\ AtStart(Of(w, s)) = Last(buffer).eol
  /\ \A t \in Names : t # s => Of(w, t) = Of(file, t) /\ CharsOf(w, t) = CharsOf(file, t)
  /\ CharsOf(w, s) = CharsOf(file, s) \o buffer

LEMMA LinesSent ==
  ASSUME published \in 0..MaxTime, NEW s \in Names, buffer \in Seq(Chars(s)), buffer # <<>>,
         Sheet(file), Unended(file), EOLBefore[s] <=> AtStart(Of(file, s))
  PROVE  Sent(s, Lines(s))
<1> DEFINE M == Len(buffer)
<1>1. M \in Nat \ {0} /\ \A n \in 1..M : buffer[n] \in Chars(s)
  BY DEF M
<1>2. \A n \in 1..M : buffer[n] \in Item /\ buffer[n].eol \in BOOLEAN /\ buffer[n].time <= published
  BY <1>1 DEF Chars, Item
<1>3. PICK sent : Sends(s, sent)
  BY LinesStep
<1> DEFINE Goes(n) ==
             LET w == sent[n] IN
             /\ Sheet(w) /\ Unended(w)
             /\ n > 0 => AtStart(w) = buffer[n].eol /\ AtStart(Of(w, s)) = buffer[n].eol
             /\ n = 0 => (AtStart(Of(w, s)) <=> EOLBefore[s])
             /\ \A t \in Names : t # s => Of(w, t) = Of(file, t) /\ CharsOf(w, t) = CharsOf(file, t)
             /\ CharsOf(w, s) = CharsOf(file, s) \o SubSeq(buffer, 1, n)
           P == {n \in 0..M : Goes(n)}
<1>4. CharsOf(file, s) \in Seq(Item) /\ buffer \in Seq(Item)
  <2>1. file \in Seq(Item)
    BY DEF Sheet
  <2>2. CharsOf(file, s) \in Seq(Item)
    <3>1. PICK e : e \in Item
      BY ItemsAre
    <3>2. QED
      BY <2>1, <3>1, OneMore
  <2>3. buffer \in Seq(Item)
    BY <1>2
  <2>4. QED
    BY <2>2, <2>3
<1>5. 0 \in P
  <2>1. sent[0] = file
    BY <1>3 DEF Sends
  <2>2. SubSeq(buffer, 1, 0) = <<>>
    BY <1>4
  <2>3. CharsOf(file, s) \o <<>> = CharsOf(file, s)
    BY <1>4, ConcatEmptySeq
  <2> DEFINE w == sent[0]
             x == CharsOf(file, s)
             y == SubSeq(buffer, 1, 0)
  <2>4. w = file /\ CharsOf(w, s) = x \o y
    BY <2>1, <2>2, <2>3
  <2>5. AtStart(Of(w, s)) <=> EOLBefore[s]
    BY <2>4
  <2> HIDE DEF w, x, y
  <2>6. /\ Sheet(w) /\ Unended(w)
        /\ 0 > 0 => AtStart(w) = buffer[0].eol /\ AtStart(Of(w, s)) = buffer[0].eol
        /\ 0 = 0 => (AtStart(Of(w, s)) <=> EOLBefore[s])
        /\ \A t \in Names : t # s => Of(w, t) = Of(file, t) /\ CharsOf(w, t) = CharsOf(file, t)
        /\ CharsOf(w, s) = x \o y
    BY <2>4, <2>5
  <2>7. Goes(0)
    BY <2>6, Zenon DEF w, x, y
  <2>8. 0 \in 0..M
    BY <1>1
  <2> HIDE DEF Goes
  <2>9. QED
    BY <2>7, <2>8
<1>6. ASSUME NEW n \in 0..M - 1, n \in P PROVE n + 1 \in P
  <2> DEFINE q == sent[n]
             c == buffer[n + 1]
             r == WithStamp(q, s, n + 1)
             w == sent[n + 1]
  <2>1. n + 1 \in 1..M /\ n + 1 \in 0..M /\ (n + 1) - 1 = n /\ n + 1 > 0 /\ n + 1 # 0 /\ n \in Nat
    BY <1>1
  <2>2. w = Append(r, c)
    BY <1>3, <2>1 DEF Sends
  <2>3. c \in Chars(s) /\ c.time <= published
    BY <1>1, <1>2, <2>1
  <2>4. Goes(n)
    BY <1>6
  <2>5. Stamped(s, n + 1) <=> AtStart(Of(q, s))
    <3>1. CASE n = 0
      BY <2>4, <3>1 DEF Stamped
    <3>2. CASE n # 0
      <4>1. n + 1 # 1 /\ n > 0
        BY <2>1, <3>2
      <4>2. QED
        BY <2>1, <2>4, <4>1 DEF Stamped
    <3>3. QED
      BY <3>1, <3>2
  <2>6. Sheet(q) /\ Unended(q)
    BY <2>4
  <2> HIDE DEF q, c, w
  <2>7. /\ Sheet(r) /\ \A k \in 1..Len(r) : r[k].what # "EOF"
        /\ ~AtStart(Of(r, s))
        /\ r # <<>> /\ r[Len(r)].what = "stamp" => r[Len(r)].time >= c.time
        /\ \A t \in Names : t # s => Of(r, t) = Of(q, t)
        /\ \A t \in Names : CharsOf(r, t) = CharsOf(q, t)
    <3>1. CASE AtStart(Of(q, s))
      <4> DEFINE v == Append(q, Stamp(s))
      <4>1. r = v
        BY <2>5, <3>1 DEF WithStamp
      <4>2. /\ Sheet(v) /\ v # <<>> /\ v[Len(v)] = Stamp(s)
            /\ \A k \in 1..Len(v) : v[k].what # "EOF"
            /\ ~AtStart(Of(v, s))
            /\ \A t \in Names : t # s => Of(v, t) = Of(q, t)
            /\ \A t \in Names : CharsOf(v, t) = CharsOf(q, t)
        BY <2>6, <3>1, StampAdded
      <4>3. Stamp(s).time = published /\ published \in Int /\ c.time \in Int
        <5>1. MaxTime \in Nat
          BY StamperAssumption
        <5>2. Stamp(s).time = published
          BY DEF Stamp
        <5>3. c.time \in 0..MaxTime
          BY <2>3 DEF Chars, Item
        <5>4. QED
          BY <5>1, <5>2, <5>3
      <4>4. Stamp(s).time >= c.time
        BY <2>3, <4>3
      <4> HIDE DEF v, r
      <4>5. QED
        BY <4>1, <4>2, <4>4
    <3>2. CASE ~AtStart(Of(q, s))
      <4>1. r = q
        BY <2>5, <3>2 DEF WithStamp
      <4> HIDE DEF r
      <4>2. QED
        BY <2>6, <3>2, <4>1 DEF Unended
    <3>3. QED
      BY <3>1, <3>2
  <2> HIDE DEF r
  <2>8. /\ Sheet(w) /\ Unended(w)
        /\ AtStart(w) = c.eol /\ AtStart(Of(w, s)) = c.eol
        /\ \A t \in Names : t # s => Of(w, t) = Of(r, t) /\ CharsOf(w, t) = CharsOf(r, t)
        /\ CharsOf(w, s) = Append(CharsOf(r, s), c)
    BY <2>2, <2>3, <2>7, CharAdded
  <2>9. CharsOf(w, s) = CharsOf(file, s) \o SubSeq(buffer, 1, n + 1)
    <3> DEFINE x == CharsOf(file, s)
               y == SubSeq(buffer, 1, n)
               z == SubSeq(buffer, 1, n + 1)
    <3>1. x \in Seq(Item)
      BY <1>4
    <3>2. y \in Seq(Item) /\ z = Append(y, c)
      BY <1>4, OneMoreTaken DEF c, M
    <3>3. CharsOf(w, s) = Append(x \o y, c)
      BY <2>4, <2>7, <2>8 DEF q
    <3>4. c \in Item
      BY <2>3 DEF Chars
    <3> HIDE DEF x, y, z
    <3>5. Append(x \o y, c) = x \o Append(y, c)
      <4>1. Follows(x, y, c)
        BY <3>1, <3>2, <3>4, ConcatAppend
      <4>2. QED
        BY <4>1, Zenon DEF Follows
    <3>6. CharsOf(w, s) = x \o z
      BY <3>2, <3>3, <3>5
    <3>7. QED
      BY <3>6 DEF x, z
  <2>10. \A t \in Names : t # s => Of(w, t) = Of(file, t) /\ CharsOf(w, t) = CharsOf(file, t)
    BY <2>4, <2>7, <2>8 DEF q
  <2>11. Goes(n + 1)
    BY <2>1, <2>8, <2>9, <2>10 DEF w, c
  <2>12. QED
    BY <2>1, <2>11
<1>7. Goes(M)
  <2> HIDE DEF Goes, M
  <2>1. M \in P
    <3> HIDE DEF P
    <3>1. QED
      BY <1>1, <1>5, <1>6, CountUp
  <2>2. QED
    BY <2>1
<1>8. SubSeq(buffer, 1, M) = buffer
  BY <1>4
<1>9. Lines(s) = sent[M]
  BY <1>3 DEF Sends
<1>10. M > 0 /\ Last(buffer) = buffer[M]
  BY <1>1 DEF Last
<1> DEFINE w == sent[M]
<1>11. /\ Sheet(w) /\ Unended(w)
       /\ AtStart(w) = buffer[M].eol /\ AtStart(Of(w, s)) = buffer[M].eol
       /\ \A t \in Names : t # s => Of(w, t) = Of(file, t) /\ CharsOf(w, t) = CharsOf(file, t)
       /\ CharsOf(w, s) = CharsOf(file, s) \o SubSeq(buffer, 1, M)
  <2> HIDE DEF M
  <2>1. QED
    BY <1>7, <1>10
<1> HIDE DEF M, w
<1>12. Sent(s, w)
  BY <1>8, <1>10, <1>11, Zenon DEF Sent
<1>13. QED
  BY <1>9, <1>12 DEF w
-----------------------------------------------------------------------------
(* The steps.                                                              *)

LEMMA Numbers ==
  BufferSize \in Nat \ {0} /\ WatchDog \in Nat \ {0} /\ MaxPrinted \in Nat /\ MaxTime \in Nat
BY StamperAssumption

LEMMA ItemTime ==
  \A c \in Item : c.time \in 0..MaxTime /\ c.time \in Int
<1>1. \A c \in Item : c.time \in 0..MaxTime
  BY DEF Item
<1>2. QED
  BY <1>1, Numbers

LEMMA LongerNotEmpty ==
  ASSUME NEW S, NEW q \in Seq(S), NEW e \in S
  PROVE  Append(q, e) \in Seq(S) /\ Append(q, e) # <<>>
<1> DEFINE w == Append(q, e)
<1>1. w \in Seq(S) /\ Len(w) = Len(q) + 1 /\ Len(q) \in Nat
  OBVIOUS
<1> HIDE DEF w
<1>2. w # <<>>
  BY <1>1
<1>3. QED
  BY <1>1, <1>2 DEF w

LEMMA InitStamper ==
  Init => StInv
<1> SUFFICES ASSUME Init PROVE StInv
  OBVIOUS
<1> USE DEF Init
<1>1. watched = Streams /\ Streams \in Seq(Names) /\ IsInjective(Streams)
  <2>1. Streams = [k \in 1..Len(Streams) |-> Streams[k]] /\ Len(Streams) \in Nat
    <3> DEFINE S == STRING \ {""}
    <3>1. Streams \in Seq(S)
      BY StamperAssumption
    <3> HIDE DEF S
    <3>2. QED
      BY <3>1
  <2>2. Streams \in Seq(Names)
    <3>1. \A k \in 1..Len(Streams) : Streams[k] \in Names
      BY NamesAre
    <3> DEFINE q == Streams
    <3> HIDE DEF q
    <3>2. q \in Seq(Names)
      BY <2>1, <3>1, IsASeq DEF q
    <3>3. QED
      BY <3>2 DEF q
  <2>3. IsInjective(Streams)
    BY StamperAssumption
  <2>4. QED
    BY <2>2, <2>3
<1>2. Len(watched) \in Nat
  BY <1>1
<1>3. \A S : <<>> \in Seq(S)
  OBVIOUS
<1>4. TypeOK
  <2>1. printed \in Seq(Item) /\ buffer \in Seq(Item) /\ file \in Seq(Item)
        /\ unread \in [Names -> Seq(Item)]
    BY <1>3
  <2>2. open \subseteq Names /\ ready \subseteq Names /\ watched \in Seq(Names)
    BY <1>1
  <2>3. EOLBefore \in [Names -> BOOLEAN] /\ incompleteLineSent \in BOOLEAN
    OBVIOUS
  <2>4. published \in 0..MaxTime /\ watchDog \in 0..WatchDog /\ i \in 1..(Len(watched) + 1)
    <3>1. published = 0 /\ watchDog = 0 /\ i = 1
      OBVIOUS
    <3>2. QED
      BY <1>2, <3>1, Numbers
  <2>5. QED
    BY <2>1, <2>2, <2>3, <2>4, Zenon DEF TypeOK
<1>5. Pipes
  BY <1>3 DEF Pipes
<1>6. Watching
  BY <1>1, Numbers DEF Watching, Names
<1>7. \A s \in Names : Of(file, s) = <<>> /\ CharsOf(file, s) = <<>> /\ CharsOf(buffer, s) = <<>>
                       /\ CharsOf(printed, s) = <<>>
  BY OnlyEmpty DEF Of, CharsOf
<1>8. Len(<<>>) = 0
  OBVIOUS
<1>9. FileInv
  BY <1>3, <1>7, <1>8 DEF FileInv, Sheet, Alternates, TimesRight, EOFOnItsOwn, Unended, AtStart
<1>10. Transparent
  <2>1. (<<>> \o <<>>) \o <<>> = <<>>
    BY <1>3, ConcatEmptySeq
  <2>2. \A s \in Names : unread[s] = <<>>
    OBVIOUS
  <2>3. QED
    BY <1>7, <2>1, <2>2 DEF Transparent
<1>11. QED
  BY <1>4, <1>5, <1>6, <1>9, <1>10 DEF StInv

(* What the file is, if nothing is written to it.                          *)
LEMMA FileKept ==
  ASSUME FileInv, UNCHANGED <<file, EOLBefore, incompleteLineSent>>,
         published' \in 0..MaxTime, published \in 0..MaxTime, published <= published',
         (pc = "done") = (pc' = "done")
  PROVE  FileInv'
<1>1. published \in Int /\ published' \in Int
  BY Numbers
<1>2. TimesRight(file)'
  <2>1. \A k \in 1..Len(file) : file[k].what = "stamp" => file[k].time \in Int
    <3>1. \A k \in 1..Len(file) : file[k] \in Item
      BY DEF FileInv, Sheet
    <3>2. QED
      BY <3>1, ItemTime
  <2>2. TimesRight(file)
    BY DEF FileInv, Sheet
  <2>3. \A k \in 1..Len(file) : file[k].what = "stamp" => file[k].time <= published'
    BY <1>1, <2>1, <2>2 DEF TimesRight
  <2>4. QED
    BY <2>2, <2>3 DEF TimesRight
<1>3. Sheet(file)'
  BY <1>2 DEF FileInv, Sheet
<1>4. QED
  BY <1>3 DEF FileInv, EOFOnItsOwn

LEMMA PutsStep ==
  ASSUME StInv, NEW s \in Names, NEW eol \in BOOLEAN, Puts(s, eol),
         UNCHANGED <<watched, EOLBefore, incompleteLineSent, watchDog, ready, i, buffer, file, pc>>
  PROVE  StInv'
<1> DEFINE c == Char(s, eol)
<1>1. TypeOK /\ Pipes /\ Watching /\ FileInv /\ Transparent
  BY DEF StInv
<1>2. /\ s \in open /\ printed' = Append(printed, c)
      /\ unread' = [unread EXCEPT ![s] = Append(@, c)] /\ UNCHANGED <<open, published>>
  BY DEF Puts
<1>3. c \in Chars(s) /\ c \in Item /\ c.stream = s /\ c.what = "char"
  <2>1. c.stream = s /\ c.what = "char"
    BY DEF Char
  <2>2. QED
    BY <1>1, <2>1, ItemsAre DEF TypeOK
<1> HIDE DEF c
<1>4. \A t \in Names : unread'[t] = IF t = s THEN Append(unread[s], c) ELSE unread[t]
  BY <1>1, <1>2 DEF TypeOK
<1>5. TypeOK'
  <2>1. printed' \in Seq(Item) /\ unread' \in [Names -> Seq(Item)]
    BY <1>1, <1>2, <1>3 DEF TypeOK
  <2>2. QED
    BY <1>1, <1>2, <2>1 DEF TypeOK
<1>6. Pipes'
  <2>1. \A t : Chars(t)' = Chars(t)
    BY <1>2 DEF Chars
  <2>2. \A t \in Names : unread'[t] \in Seq(Chars(t))
    <3>1. \A t \in Names : unread[t] \in Seq(Chars(t))
      BY <1>1 DEF Pipes
    <3>2. Append(unread[s], c) \in Seq(Chars(s))
      BY <1>3, <3>1, LongerNotEmpty
    <3>3. QED
      BY <1>4, <3>1, <3>2
  <2>3. QED
    BY <1>1, <2>1, <2>2 DEF Pipes
<1>7. Watching'
  <2>1. \A t \in Names : t \notin ToSet(watched) => t # s
    BY <1>1, <1>2 DEF Watching
  <2>2. Append(unread[s], c) # <<>>
    <3>1. unread[s] \in Seq(Item)
      BY <1>1 DEF TypeOK
    <3>2. QED
      BY <1>3, <3>1, LongerNotEmpty
  <2>3. \A t \in Names : Readable(t) => Readable(t)'
    BY <1>2, <1>4, <2>2 DEF Readable
  <2>4. \A j \in DOMAIN watched : watched[j] \in Names
    BY <1>1 DEF TypeOK
  <2>5. QED
    BY <1>1, <1>2, <1>4, <2>1, <2>3, <2>4 DEF Watching
<1>8. FileInv'
  <2>1. published \in 0..MaxTime /\ published <= published /\ published' = published
    BY <1>1, <1>2, Numbers DEF TypeOK
  <2>2. QED
    BY <1>1, <2>1, FileKept
<1>9. Transparent'
  <2> SUFFICES ASSUME NEW t \in Names
               PROVE  (CharsOf(file, t) \o CharsOf(buffer, t)) \o unread'[t] = CharsOf(printed', t)
    BY DEF Transparent
  <2> DEFINE x == CharsOf(file, t) \o CharsOf(buffer, t)
  <2>1. x \o unread[t] = CharsOf(printed, t)
    BY <1>1 DEF Transparent
  <2>2. CharsOf(printed', t) = IF t = s THEN Append(CharsOf(printed, t), c) ELSE CharsOf(printed, t)
    <3>1. printed \in Seq(Item)
      BY <1>1 DEF TypeOK
    <3>2. CharsOf(Append(printed, c), t)
            = IF t = s THEN Append(CharsOf(printed, t), c) ELSE CharsOf(printed, t)
      BY <1>3, <3>1, OneMore
    <3>3. QED
      BY <1>2, <3>2
  <2>3. x \in Seq(Item)
    <3>1. CharsOf(file, t) \in Seq(Item) /\ CharsOf(buffer, t) \in Seq(Item)
      BY <1>1, <1>3, OneMore DEF TypeOK
    <3>2. QED
      BY <3>1, ConcatProperties
  <2>4. unread[t] \in Seq(Item)
    BY <1>1 DEF TypeOK
  <2> DEFINE u == unread[t]
  <2> HIDE DEF x, u
  <2>5. Append(x \o u, c) = x \o Append(u, c)
    <3>1. u \in Seq(Item)
      BY <2>4 DEF u
    <3>2. Follows(x, u, c)
      BY <1>3, <2>3, <3>1, ConcatAppend
    <3>3. QED
      BY <3>2, Zenon DEF Follows
  <2>6. x \o unread'[t] = CharsOf(printed', t)
    BY <1>4, <2>1, <2>2, <2>5 DEF u
  <2>7. QED
    BY <2>6 DEF x
<1>10. QED
  BY <1>5, <1>6, <1>7, <1>8, <1>9 DEF StInv

LEMMA CloseStep ==
  ASSUME StInv, NEW s \in Names, Close(s),
         UNCHANGED <<watched, EOLBefore, incompleteLineSent, watchDog, ready, i, buffer, file, pc>>
  PROVE  StInv'
<1>1. TypeOK /\ Pipes /\ Watching /\ FileInv /\ Transparent
  BY DEF StInv
<1>2. open' = open \ {s} /\ UNCHANGED <<printed, unread, published>>
  BY DEF Close
<1>3. TypeOK'
  BY <1>1, <1>2 DEF TypeOK
<1>4. Pipes'
  BY <1>1, <1>2 DEF Pipes, Chars
<1>5. Watching'
  <2>1. \A t : Readable(t) => Readable(t)'
    BY <1>2 DEF Readable
  <2>2. QED
    BY <1>1, <1>2, <2>1 DEF Watching
<1>6. FileInv'
  <2>1. published \in 0..MaxTime /\ published <= published /\ published' = published
    BY <1>1, <1>2, Numbers DEF TypeOK
  <2>2. QED
    BY <1>1, <2>1, FileKept
<1>7. Transparent'
  BY <1>1, <1>2 DEF Transparent
<1>8. QED
  BY <1>3, <1>4, <1>5, <1>6, <1>7 DEF StInv

LEMMA PublishStep ==
  ASSUME StInv, setCPUtimeFromAnotherThread,
         UNCHANGED <<watched, EOLBefore, incompleteLineSent, watchDog, ready, i, buffer, file, pc>>
  PROVE  StInv'
<1>1. TypeOK /\ Pipes /\ Watching /\ FileInv /\ Transparent
  BY DEF StInv
<1>2. published < MaxTime /\ published' = published + 1 /\ UNCHANGED <<printed, unread, open>>
  BY DEF setCPUtimeFromAnotherThread
<1>3. published \in 0..MaxTime /\ published' \in 0..MaxTime /\ published <= published'
  BY <1>1, <1>2, Numbers DEF TypeOK
<1>4. TypeOK'
  BY <1>1, <1>2, <1>3 DEF TypeOK
<1>5. Pipes'
  <2>1. \A t : Chars(t) \subseteq Chars(t)'
    <3>1. \A c \in Item : c.time \in Int
      BY ItemTime
    <3>2. QED
      BY <1>3, <3>1, Numbers DEF Chars
  <2>2. \A t : Seq(Chars(t)) \subseteq Seq(Chars(t)')
    BY <2>1, SeqMonotonic
  <2>3. QED
    BY <1>1, <1>2, <2>2 DEF Pipes
<1>6. Watching'
  BY <1>1, <1>2 DEF Watching, Readable
<1>7. FileInv'
  BY <1>1, <1>3, FileKept
<1>8. Transparent'
  BY <1>1, <1>2 DEF Transparent
<1>9. QED
  BY <1>4, <1>5, <1>6, <1>7, <1>8 DEF StInv

LEMMA Unpacked ==
  ASSUME StInv
  PROVE  /\ TypeOK /\ Pipes /\ Watching /\ FileInv /\ Transparent
         /\ published \in 0..MaxTime /\ published <= published
         /\ watched \in Seq(Names) /\ Len(watched) \in Nat /\ DOMAIN watched = 1..Len(watched)
         /\ i \in 1..(Len(watched) + 1) /\ watchDog \in 0..WatchDog
<1>1. TypeOK /\ Pipes /\ Watching /\ FileInv /\ Transparent
  BY DEF StInv
<1>2. published \in 0..MaxTime /\ watched \in Seq(Names) /\ i \in 1..(Len(watched) + 1)
      /\ watchDog \in 0..WatchDog
  BY <1>1 DEF TypeOK
<1>3. published <= published
  BY <1>2, Numbers
<1>4. Len(watched) \in Nat /\ DOMAIN watched = 1..Len(watched)
  BY <1>2
<1>5. QED
  BY <1>1, <1>2, <1>3, <1>4

LEMMA SelectStep ==
  ASSUME StInv, Select
  PROVE  StInv'
<1>1. /\ pc = "select" /\ pc' = "scan" /\ watchDog' = 0 /\ i' = 1
      /\ ready' = {s \in ToSet(watched) : Readable(s)}
      /\ UNCHANGED <<printed, unread, open, published>>
      /\ UNCHANGED <<watched, EOLBefore, incompleteLineSent, buffer, file>>
  BY DEF Select, env
<1>2. TypeOK'
  <2>1. ready' \subseteq Names
    <3>1. ToSet(watched) \subseteq Names
      BY Unpacked DEF ToSet
    <3>2. QED
      BY <1>1, <3>1
  <2>2. i' \in 1..(Len(watched) + 1) /\ watchDog' \in 0..WatchDog
    BY <1>1, Unpacked, Numbers
  <2>3. pc' \in {"select", "scan", "send", "eof", "done"}
    BY <1>1
  <2>4. TypeOK
    BY Unpacked
  <2>5. QED
    BY <1>1, <2>1, <2>2, <2>3, <2>4 DEF TypeOK
<1>3. Pipes'
  <2>1. Pipes
    BY Unpacked
  <2>2. \A s : Chars(s)' = Chars(s)
    BY <1>1 DEF Chars
  <2>3. QED
    BY <1>1, <2>1, <2>2 DEF Pipes
<1>4. Watching'
  <2>1. Watching
    BY Unpacked
  <2>2. \A s : Readable(s)' = Readable(s)
    BY <1>1 DEF Readable
  <2>3. QED
    BY <1>1, <2>1, <2>2 DEF Watching
<1>5. FileInv'
  <2>1. published' = published /\ (pc = "done") = (pc' = "done")
    BY <1>1
  <2>2. QED
    BY <1>1, <2>1, Unpacked, FileKept
<1>6. Transparent'
  BY <1>1, Unpacked DEF Transparent
<1>7. QED
  BY <1>2, <1>3, <1>4, <1>5, <1>6 DEF StInv

(* A step of the loop that moves no character.                             *)
LEMMA QuietStep ==
  ASSUME StInv, UNCHANGED <<printed, unread, open, published>>,
         UNCHANGED <<watched, EOLBefore, incompleteLineSent, ready, buffer, file>>,
         pc # "send", pc' \in {"select", "scan", "eof"}, pc # "done",
         i' \in 1..(Len(watched) + 1), watchDog' \in 0..WatchDog,
         pc' = "select" => watchDog' < WatchDog,
         pc' = "scan" => pc = "scan" /\ i' = i + 1 /\ watchDog' = watchDog
  PROVE  StInv'
<1>1. TypeOK'
  BY Unpacked DEF TypeOK
<1>2. Pipes'
  <2>1. Pipes
    BY Unpacked
  <2>2. \A s : Chars(s)' = Chars(s)
    BY DEF Chars
  <2>3. QED
    BY <2>1, <2>2 DEF Pipes
<1>3. Watching'
  <2>1. Watching
    BY Unpacked
  <2>2. \A s : Readable(s)' = Readable(s)
    BY DEF Readable
  <2>3. ASSUME pc' = "scan", NEW j \in DOMAIN watched, watched[j] \in ready, j > i' \/ j = i'
        PROVE  Readable(watched[j])
    <3>1. j > i
      BY <2>3, Unpacked
    <3>2. QED
      BY <2>1, <2>3, <3>1 DEF Watching
  <2>4. pc' = "scan" => watchDog' = 0
    BY <2>1 DEF Watching
  <2>5. QED
    BY <2>1, <2>2, <2>3, <2>4 DEF Watching
<1>4. FileInv'
  <2>1. published' = published /\ (pc = "done") = (pc' = "done")
    OBVIOUS
  <2>2. QED
    BY <2>1, Unpacked, FileKept
<1>5. Transparent'
  BY Unpacked DEF Transparent
<1>6. QED
  BY <1>1, <1>2, <1>3, <1>4, <1>5 DEF StInv

LEMMA SelectFailsStep ==
  ASSUME StInv, SelectFails
  PROVE  StInv'
<1>1. /\ pc = "select" /\ watchDog' = watchDog + 1
      /\ pc' = IF watchDog + 1 < WatchDog THEN "select" ELSE "eof"
      /\ UNCHANGED <<printed, unread, open, published>>
      /\ UNCHANGED <<watched, EOLBefore, incompleteLineSent, ready, buffer, file>> /\ i' = i
  BY DEF SelectFails, env
<1>2. watchDog < WatchDog
  BY <1>1, Unpacked DEF Watching
<1>3. watchDog' \in 0..WatchDog /\ (pc' = "select" => watchDog' < WatchDog)
  BY <1>1, <1>2, Unpacked, Numbers
<1>4. pc # "send" /\ pc # "done" /\ pc' \in {"select", "scan", "eof"} /\ pc' # "scan"
  BY <1>1
<1>5. i' \in 1..(Len(watched) + 1)
  BY <1>1, Unpacked
<1>6. QED
  BY <1>1, <1>3, <1>4, <1>5, QuietStep

LEMMA ScanEndsStep ==
  ASSUME StInv, ScanEnds
  PROVE  StInv'
<1>1. /\ pc = "scan" /\ pc' = "select" /\ i' = i /\ watchDog' = watchDog
      /\ UNCHANGED <<printed, unread, open, published>>
      /\ UNCHANGED <<watched, EOLBefore, incompleteLineSent, ready, buffer, file>>
  BY DEF ScanEnds, env
<1>2. watchDog = 0
  BY <1>1, Unpacked DEF Watching
<1>3. watchDog' \in 0..WatchDog /\ watchDog' < WatchDog
  BY <1>1, <1>2, Numbers
<1>4. pc # "send" /\ pc # "done" /\ pc' \in {"select", "scan", "eof"} /\ pc' # "scan"
  BY <1>1
<1>5. i' \in 1..(Len(watched) + 1)
  BY <1>1, Unpacked
<1>6. QED
  BY <1>1, <1>3, <1>4, <1>5, QuietStep

LEMMA LoopEndsStep ==
  ASSUME StInv, LoopEnds
  PROVE  StInv'
<1>1. /\ pc = "select" /\ pc' = "eof" /\ i' = i /\ watchDog' = watchDog
      /\ UNCHANGED <<printed, unread, open, published>>
      /\ UNCHANGED <<watched, EOLBefore, incompleteLineSent, ready, buffer, file>>
  BY DEF LoopEnds, env
<1>2. watchDog' \in 0..WatchDog
  BY <1>1, Unpacked
<1>3. pc # "send" /\ pc # "done" /\ pc' \in {"select", "scan", "eof"} /\ pc' # "scan"
      /\ pc' # "select"
  BY <1>1
<1>4. i' \in 1..(Len(watched) + 1)
  BY <1>1, Unpacked
<1>5. QED
  BY <1>1, <1>2, <1>3, <1>4, QuietStep

(* Characters of a stream are seen whole in their stream, not in another.  *)
LEMMA TakenOf ==
  ASSUME NEW s \in Names, NEW b \in Seq(Chars(s)), NEW t \in Names
  PROVE  CharsOf(b, t) = IF t = s THEN b ELSE <<>>
<1> DEFINE T == {c \in Item : c.what = "char" /\ c.stream = t}
           S == Chars(s)
<1>1. (t = s => S \subseteq T) /\ (t # s => S \cap T = {})
  BY DEF Chars
<1> HIDE DEF T, S
<1>2. (S \subseteq T => Only(b, T) = b) /\ (S \cap T = {} => Only(b, T) = <<>>)
  <2>1. b \in Seq(S)
    BY DEF S
  <2>2. QED
    BY <2>1, OnlyAll
<1>3. CharsOf(b, t) = Only(b, T)
  BY DEF CharsOf, T
<1>4. QED
  BY <1>1, <1>2, <1>3

LEMMA NoneOf ==
  \A t \in Names : CharsOf(<<>>, t) = <<>>
BY OnlyEmpty DEF CharsOf

(* What follows a sequence, and what is in the middle, moved.              *)
Regroups(x, y, z) == (x \o <<>>) \o (y \o z) = (x \o y) \o z

LEMMA Regrouped ==
  ASSUME NEW S, NEW x \in Seq(S), NEW y \in Seq(S), NEW z \in Seq(S)
  PROVE  Regroups(x, y, z)
<1>1. x \o <<>> = x
  BY ConcatEmptySeq
<1>2. (x \o y) \o z = x \o (y \o z)
  BY ConcatAssociative
<1>3. QED
  BY <1>1, <1>2, Zenon DEF Regroups

LEMMA ScanWaits ==
  ASSUME StInv, pc = "scan", i <= Len(watched), i' = i + 1,
         UNCHANGED <<env, watched, buffer, pc>>,
         UNCHANGED <<EOLBefore, incompleteLineSent, watchDog, ready, file>>
  PROVE  StInv'
<1>1. /\ UNCHANGED <<printed, unread, open, published>>
      /\ UNCHANGED <<watched, EOLBefore, incompleteLineSent, ready, buffer, file>>
      /\ watchDog' = watchDog /\ pc' = "scan"
  BY DEF env
<1>2. i' \in 1..(Len(watched) + 1) /\ watchDog' \in 0..WatchDog
  BY <1>1, Unpacked
<1>3. pc # "send" /\ pc # "done" /\ pc' \in {"select", "scan", "eof"} /\ pc' # "select"
  BY <1>1
<1>4. QED
  BY <1>1, <1>2, <1>3, QuietStep

LEMMA ScanReads ==
  ASSUME StInv, pc = "scan", i <= Len(watched), unread[watched[i]] # <<>>,
         NEW n \in 1..(IF Len(unread[watched[i]]) < BufferSize THEN Len(unread[watched[i]])
                                                              ELSE BufferSize),
         buffer' = SubSeq(unread[watched[i]], 1, n),
         unread' = [unread EXCEPT ![watched[i]] = SubSeq(@, n + 1, Len(@))],
         pc' = "send",
         UNCHANGED <<printed, open, published, watched, i>>,
         UNCHANGED <<EOLBefore, incompleteLineSent, watchDog, ready, file>>
  PROVE  StInv'
<1> DEFINE s == watched[i]
           u == unread[s]
           b == SubSeq(u, 1, n)
           r == SubSeq(u, n + 1, Len(u))
<1>1. i \in 1..Len(watched) /\ s \in Names
  BY Unpacked
<1>2. TypeOK /\ Pipes /\ Watching /\ FileInv /\ Transparent
  BY Unpacked
<1>3. u \in Seq(Chars(s)) /\ u \in Seq(Item)
  BY <1>1, <1>2 DEF Pipes, TypeOK
<1>4. Len(u) \in Nat /\ n \in 1..Len(u)
  BY <1>3, Numbers
<1>5. buffer' = b /\ \A t \in Names : unread'[t] = IF t = s THEN r ELSE unread[t]
  BY <1>1, <1>2 DEF TypeOK
<1> HIDE DEF s, u
<1>6. b \in Seq(Chars(s)) /\ b \in Seq(Item) /\ b # <<>>
  <2> DEFINE S == Chars(s)
  <2> HIDE DEF S
  <2>1. u \in Seq(S)
    BY <1>3 DEF S
  <2>2. b \in Seq(S) /\ Len(b) = n
    BY <1>4, <2>1
  <2>3. b \in Seq(Item)
    BY <1>3, <1>4
  <2> HIDE DEF b
  <2>4. b # <<>>
    BY <1>4, <2>2
  <2>5. QED
    BY <2>2, <2>3, <2>4 DEF S
<1>7. r \in Seq(Chars(s)) /\ r \in Seq(Item)
  <2>1. \A S : u \in Seq(S) => r \in Seq(S)
    BY <1>4
  <2> HIDE DEF r
  <2>2. QED
    BY <1>3, <2>1
<1>8. b \o r = u
  <2>1. SubSeq(u, 1, n) \o SubSeq(u, n + 1, Len(u)) = SubSeq(u, 1, Len(u))
    BY <1>3, <1>4, ConcatAdjacentSubSeq
  <2>2. SubSeq(u, 1, Len(u)) = u
    BY <1>3, SubSeqFull
  <2>3. QED
    BY <2>1, <2>2
<1> HIDE DEF b, r
<1>9. TypeOK'
  <2>1. unread' \in [Names -> Seq(Item)]
    <3>1. unread' = [t \in Names |-> unread'[t]]
      BY <1>2 DEF TypeOK
    <3>2. \A t \in Names : unread'[t] \in Seq(Item)
      BY <1>2, <1>5, <1>7 DEF TypeOK
    <3>3. QED
      BY <3>1, <3>2
  <2>2. QED
    BY <1>2, <1>5, <1>6, <2>1 DEF TypeOK
<1>10. Pipes'
  <2>1. \A t : Chars(t)' = Chars(t)
    BY DEF Chars
  <2>2. \A t \in Names : unread'[t] \in Seq(Chars(t))
    BY <1>2, <1>5, <1>7 DEF Pipes
  <2>3. QED
    BY <1>1, <1>5, <1>6, <2>1, <2>2 DEF Pipes, s
<1>11. Watching'
  <2>1. \A t \in Names : t # s => (Readable(t)' <=> Readable(t)) /\ unread'[t] = unread[t]
    BY <1>5 DEF Readable
  <2>2. s \in ToSet(watched)
    BY <1>1, Unpacked DEF s, ToSet
  <2>3. ASSUME NEW j \in DOMAIN watched, watched[j] \in ready, j > i
        PROVE  Readable(watched[j])'
    <3>1. i \in DOMAIN watched /\ j # i
      BY <1>1, <2>3, Unpacked
    <3>2. watched[j] # s
      BY <1>2, <2>3, <3>1 DEF Watching, IsInjective, s
    <3>3. watched[j] \in Names
      BY <2>3, Unpacked
    <3>4. Readable(watched[j])
      BY <1>2, <2>3 DEF Watching
    <3>5. Readable(watched[j])'
      BY <2>1, <3>2, <3>3, <3>4
    <3>6. QED
      BY <3>5
  <2>4. QED
    BY <1>2, <2>1, <2>2, <2>3 DEF Watching
<1>12. FileInv'
  <2>1. published' = published /\ (pc = "done") = (pc' = "done")
    OBVIOUS
  <2>2. QED
    BY <2>1, Unpacked, FileKept
<1>13. Transparent'
  <2> SUFFICES ASSUME NEW t \in Names
               PROVE  (CharsOf(file, t) \o CharsOf(buffer', t)) \o unread'[t] = CharsOf(printed, t)
    BY DEF Transparent
  <2>1. (CharsOf(file, t) \o CharsOf(buffer, t)) \o unread[t] = CharsOf(printed, t)
    BY <1>2 DEF Transparent
  <2>2. CharsOf(buffer, t) = <<>>
    BY <1>2, NoneOf DEF Pipes
  <2>3. CharsOf(buffer', t) = IF t = s THEN b ELSE <<>>
    BY <1>1, <1>5, <1>6, TakenOf
  <2>4. CASE t # s
    BY <1>5, <2>1, <2>2, <2>3, <2>4
  <2>5. CASE t = s
    <3> DEFINE x == CharsOf(file, t)
    <3>1. x \in Seq(Item)
      <4>1. file \in Seq(Item)
        BY <1>2 DEF TypeOK
      <4>2. PICK e : e \in Item
        BY Unpacked, ItemsAre
      <4>3. QED
        BY <4>1, <4>2, OneMore
    <3>2. (x \o <<>>) \o (b \o r) = CharsOf(printed, t)
      BY <1>8, <2>1, <2>2, <2>5 DEF u
    <3> HIDE DEF x
    <3>3. Regroups(x, b, r)
      BY <1>6, <1>7, <3>1, Regrouped
    <3>4. (x \o b) \o r = CharsOf(printed, t)
      BY <3>2, <3>3, Zenon DEF Regroups
    <3>5. QED
      BY <1>5, <2>3, <2>5, <3>4 DEF x
  <2>6. QED
    BY <2>4, <2>5
<1>14. QED
  BY <1>9, <1>10, <1>11, <1>12, <1>13 DEF StInv

(* A sequence without its k-th element.                                    *)
Without(q, k, w) ==
  /\ Len(w) = Len(q) - 1
  /\ \A j \in 1..Len(w) : w[j] = q[IF j < k THEN j ELSE j + 1]

LEMMA RemovedAt ==
  ASSUME NEW S, NEW q \in Seq(S), NEW k \in 1..Len(q)
  PROVE  RemoveAt(q, k) \in Seq(S) /\ Without(q, k, RemoveAt(q, k))
<1> DEFINE n == Len(q)
           a == SubSeq(q, 1, k - 1)
           b == SubSeq(q, k + 1, n)
           w == RemoveAt(q, k)
<1>1. n \in Nat /\ k \in 1..n
  OBVIOUS
<1>2. a \in Seq(S) /\ Len(a) = k - 1 /\ \A j \in 1..k - 1 : a[j] = q[j]
  BY <1>1
<1>3. b \in Seq(S) /\ Len(b) = n - k /\ \A j \in 1..n - k : b[j] = q[k + j]
  BY <1>1
<1>4. w = a \o b
  BY DEF RemoveAt
<1> HIDE DEF n, a, b, w
<1>5. /\ w \in Seq(S) /\ Len(w) = n - 1
      /\ \A j \in 1..n - 1 : w[j] = IF j <= k - 1 THEN a[j] ELSE b[j - (k - 1)]
  <2>1. /\ a \o b \in Seq(S) /\ Len(a \o b) = Len(a) + Len(b)
        /\ \A j \in 1..Len(a) + Len(b) : (a \o b)[j] = IF j <= Len(a) THEN a[j] ELSE b[j - Len(a)]
    BY <1>2, <1>3, ConcatProperties
  <2>2. Len(a) + Len(b) = n - 1
    BY <1>1, <1>2, <1>3
  <2>3. QED
    BY <1>2, <1>4, <2>1, <2>2
<1>6. ASSUME NEW j \in 1..n - 1 PROVE w[j] = q[IF j < k THEN j ELSE j + 1]
  <2>1. CASE j < k
    <3>1. j \in 1..k - 1 /\ j <= k - 1
      BY <1>1, <2>1
    <3>2. QED
      BY <1>2, <1>5, <2>1, <3>1
  <2>2. CASE ~(j < k)
    <3>1. j - (k - 1) \in 1..n - k /\ ~(j <= k - 1) /\ k + (j - (k - 1)) = j + 1
      BY <1>1, <2>2
    <3>2. QED
      BY <1>3, <1>5, <2>2, <3>1
  <2>3. QED
    BY <2>1, <2>2
<1>7. QED
  BY <1>5, <1>6 DEF Without, w, n

LEMMA ScanForgets ==
  ASSUME StInv, pc = "scan", i <= Len(watched), watched[i] \in ready,
         unread[watched[i]] = <<>>, AfterEOF,
         UNCHANGED <<env, buffer, pc>>,
         UNCHANGED <<EOLBefore, incompleteLineSent, watchDog, ready, file>>
  PROVE  StInv'
<1> DEFINE s == watched[i]
           n == Len(watched)
           w == RemoveAt(watched, i)
           At(j) == IF j < i THEN j ELSE j + 1
<1>1. n \in Nat /\ i \in 1..n /\ s \in Names /\ DOMAIN watched = 1..n
  BY Unpacked
<1>2. TypeOK /\ Pipes /\ Watching /\ FileInv /\ Transparent
  BY Unpacked
<1>3. /\ UNCHANGED <<printed, unread, open, published, buffer, pc>>
      /\ watched' = w /\ i' = i
  BY DEF AfterEOF, env
<1>4. w \in Seq(Names) /\ Len(w) = n - 1 /\ \A j \in 1..n - 1 : w[j] = watched[At(j)]
  BY <1>1, Unpacked, RemovedAt DEF Without
<1> HIDE DEF w, n
<1>5. DOMAIN w = 1..n - 1
  BY <1>4
<1>6. \A j \in 1..n - 1 : At(j) \in 1..n /\ At(j) # i /\ (j >= i => At(j) > i)
  BY <1>1
<1>7. s \notin open
  <2>1. Readable(s)
    BY <1>1, <1>2 DEF Watching
  <2>2. QED
    BY <2>1 DEF Readable
<1>8. TypeOK'
  <2>1. i' \in 1..(Len(w) + 1)
    BY <1>1, <1>3, <1>4
  <2>2. QED
    BY <1>2, <1>3, <1>4, <2>1 DEF TypeOK
<1>9. Pipes'
  <2>1. \A t : Chars(t)' = Chars(t)
    BY <1>3 DEF Chars
  <2>2. QED
    BY <1>2, <1>3, <2>1 DEF Pipes
<1>10. Watching'
  <2>1. IsInjective(w)
    <3> SUFFICES ASSUME NEW a \in 1..n - 1, NEW b \in 1..n - 1, w[a] = w[b]
                 PROVE  a = b
      BY <1>5 DEF IsInjective
    <3>1. At(a) \in DOMAIN watched /\ At(b) \in DOMAIN watched /\ watched[At(a)] = watched[At(b)]
      BY <1>1, <1>4, <1>6
    <3>2. At(a) = At(b)
      BY <1>2, <3>1 DEF Watching, IsInjective
    <3>3. QED
      BY <1>1, <3>2
  <2>2. ASSUME NEW t \in Names, t \notin ToSet(w)
        PROVE  t \notin open /\ unread[t] = <<>>
    <3>1. CASE t \in ToSet(watched)
      <4>1. PICK k \in 1..n : watched[k] = t
        BY <1>1, <3>1 DEF ToSet
      <4>2. k = i
        <5>1. SUFFICES ASSUME k # i PROVE FALSE
          OBVIOUS
        <5>2. PICK j \in 1..n - 1 : At(j) = k
          <6>1. CASE k < i
            BY <1>1, <6>1
          <6>2. CASE k > i
            <7>1. k - 1 \in 1..n - 1 /\ At(k - 1) = k
              BY <1>1, <6>2
            <7>2. QED
              BY <7>1
          <6>3. QED
            BY <1>1, <5>1, <6>1, <6>2
        <5>3. w[j] = t
          BY <1>4, <4>1, <5>2
        <5>4. QED
          BY <1>5, <2>2, <5>3 DEF ToSet
      <4>3. t = s
        BY <4>1, <4>2
      <4>4. QED
        BY <1>7, <4>3
    <3>2. CASE t \notin ToSet(watched)
      BY <1>2, <3>2 DEF Watching
    <3>3. QED
      BY <3>1, <3>2
  <2>3. ASSUME NEW j \in 1..n - 1, w[j] \in ready, j > i \/ j = i
        PROVE  Readable(w[j])
    <3>1. At(j) > i /\ At(j) \in DOMAIN watched
      BY <1>1, <1>6, <2>3
    <3>2. watched[At(j)] \in ready
      BY <1>4, <2>3
    <3>3. Readable(watched[At(j)])
      BY <1>2, <3>1, <3>2 DEF Watching
    <3>4. QED
      BY <1>4, <3>3
  <2>4. \A t : Readable(t)' <=> Readable(t)
    BY <1>3 DEF Readable
  <2>5. QED
    BY <1>2, <1>3, <1>5, <2>1, <2>2, <2>3, <2>4 DEF Watching
<1>11. FileInv'
  <2>1. published' = published /\ (pc = "done") = (pc' = "done")
    BY <1>3
  <2>2. QED
    BY <2>1, Unpacked, FileKept
<1>12. Transparent'
  BY <1>2, <1>3 DEF Transparent
<1>13. QED
  BY <1>8, <1>9, <1>10, <1>11, <1>12 DEF StInv

LEMMA ScanStep ==
  ASSUME StInv, Scan
  PROVE  StInv'
<1> DEFINE s == watched[i]
           Most == IF Len(unread[s]) < BufferSize THEN Len(unread[s]) ELSE BufferSize
<1>1. pc = "scan" /\ i <= Len(watched)
      /\ UNCHANGED <<EOLBefore, incompleteLineSent, watchDog, ready, file>>
  BY DEF Scan
<1>2. \/ i' = i + 1 /\ UNCHANGED <<env, watched, buffer, pc>>
      \/ /\ unread[s] # <<>>
         /\ \E n \in 1..Most : /\ buffer' = SubSeq(unread[s], 1, n)
                               /\ unread' = [unread EXCEPT ![s] = SubSeq(@, n + 1, Len(@))]
         /\ pc' = "send"
         /\ UNCHANGED <<printed, open, published, watched, i>>
      \/ s \in ready /\ unread[s] = <<>> /\ AfterEOF /\ UNCHANGED <<env, buffer, pc>>
  BY DEF Scan
<1>3. CASE i' = i + 1 /\ UNCHANGED <<env, watched, buffer, pc>>
  BY <1>1, <1>3, ScanWaits
<1>4. CASE /\ unread[s] # <<>>
           /\ \E n \in 1..Most : /\ buffer' = SubSeq(unread[s], 1, n)
                                 /\ unread' = [unread EXCEPT ![s] = SubSeq(@, n + 1, Len(@))]
           /\ pc' = "send"
           /\ UNCHANGED <<printed, open, published, watched, i>>
  <2>1. PICK n \in 1..Most : /\ buffer' = SubSeq(unread[s], 1, n)
                             /\ unread' = [unread EXCEPT ![s] = SubSeq(@, n + 1, Len(@))]
    BY <1>4
  <2>2. QED
    BY <1>1, <1>4, <2>1, ScanReads
<1>5. CASE s \in ready /\ unread[s] = <<>> /\ AfterEOF /\ UNCHANGED <<env, buffer, pc>>
  BY <1>1, <1>5, ScanForgets
<1>6. QED
  BY <1>2, <1>3, <1>4, <1>5

LEMMA SendStep ==
  ASSUME StInv, Send
  PROVE  StInv'
<1> DEFINE s == watched[i]
           f == Lines(s)
<1>1. /\ pc = "send" /\ pc' = "scan" /\ file' = f
      /\ EOLBefore' = [EOLBefore EXCEPT ![s] = Last(buffer).eol]
      /\ incompleteLineSent' = ~Last(buffer).eol
      /\ i' = i + 1 /\ buffer' = <<>>
      /\ UNCHANGED <<printed, unread, open, published, watched, watchDog, ready>>
  BY DEF Send, env
<1>2. TypeOK /\ Pipes /\ Watching /\ FileInv /\ Transparent
  BY Unpacked
<1>3. i \in 1..Len(watched) /\ s \in Names /\ buffer # <<>> /\ buffer \in Seq(Chars(s))
  <2>1. i <= Len(watched) /\ buffer # <<>> /\ buffer \in Seq(Chars(s))
    BY <1>1, <1>2 DEF Pipes
  <2>2. i \in 1..Len(watched)
    BY <2>1, Unpacked
  <2>3. QED
    BY <2>1, <2>2, Unpacked
<1> HIDE DEF s
<1>4. Sent(s, f)
  <2>1. Sheet(file) /\ Unended(file) /\ (EOLBefore[s] <=> AtStart(Of(file, s)))
    BY <1>1, <1>2, <1>3 DEF FileInv
  <2>2. QED
    BY <1>3, <2>1, Unpacked, LinesSent
<1> HIDE DEF f
<1>5. Last(buffer).eol \in BOOLEAN
  <2> DEFINE S == Chars(s)
  <2>1. \A c \in S : c.eol \in BOOLEAN
    BY DEF Chars, Item
  <2> HIDE DEF S
  <2>2. Last(buffer) \in S
    <3>1. buffer \in Seq(S)
      BY <1>3 DEF S
    <3>2. QED
      BY <1>3, <3>1 DEF Last
  <2>3. QED
    BY <2>1, <2>2
<1> DEFINE eol == Last(buffer).eol
<1>6. /\ incompleteLineSent' = ~eol /\ eol \in BOOLEAN
      /\ EOLBefore' \in [Names -> BOOLEAN]
      /\ \A t \in Names : EOLBefore'[t] = IF t = s THEN eol ELSE EOLBefore[t]
  BY <1>1, <1>2, <1>3, <1>5 DEF TypeOK
<1>7. /\ Sheet(f) /\ Unended(f) /\ AtStart(f) = eol /\ AtStart(Of(f, s)) = eol
      /\ \A t \in Names : t # s => Of(f, t) = Of(file, t) /\ CharsOf(f, t) = CharsOf(file, t)
      /\ CharsOf(f, s) = CharsOf(file, s) \o buffer
  BY <1>4 DEF Sent
<1> HIDE DEF eol
<1>8. TypeOK'
  <2>1. f \in Seq(Item) /\ buffer' \in Seq(Item)
    BY <1>1, <1>7 DEF Sheet
  <2>2. i' \in 1..(Len(watched) + 1)
    BY <1>1, <1>3, Unpacked
  <2>3. incompleteLineSent' \in BOOLEAN
    BY <1>6
  <2>4. QED
    BY <1>1, <1>2, <1>6, <2>1, <2>2, <2>3 DEF TypeOK
<1>9. Pipes'
  <2>1. \A t : Chars(t)' = Chars(t)
    BY <1>1 DEF Chars
  <2>2. QED
    BY <1>1, <1>2, <2>1 DEF Pipes
<1>10. Watching'
  <2>1. \A t : Readable(t)' <=> Readable(t)
    BY <1>1 DEF Readable
  <2>2. \A j \in DOMAIN watched : j > i' \/ j = i' => j > i
    BY <1>1, Unpacked
  <2>3. QED
    BY <1>1, <1>2, <2>1, <2>2 DEF Watching
<1>11. FileInv'
  <2>2. EOFOnItsOwn'
    BY <1>1, <1>7 DEF EOFOnItsOwn, Unended
  <2>3. \A t \in Names : EOLBefore'[t] <=> AtStart(Of(f, t))
    <3>1. \A t \in Names : EOLBefore[t] <=> AtStart(Of(file, t))
      BY <1>1, <1>2 DEF FileInv
    <3>2. QED
      BY <1>6, <1>7, <3>1
  <2>4. incompleteLineSent' <=> ~AtStart(f)
    BY <1>6, <1>7
  <2>5. Sheet(file)' /\ Unended(file)'
    BY <1>1, <1>7 DEF Sheet, TimesRight, Unended
  <2>6. \A t \in Names : EOLBefore'[t] <=> AtStart(Of(file', t))
    BY <1>1, <2>3
  <2>7. incompleteLineSent' <=> ~AtStart(file')
    BY <1>1, <2>4
  <2>8. QED
    BY <2>2, <2>5, <2>6, <2>7 DEF FileInv
<1>12. Transparent'
  <2> SUFFICES ASSUME NEW t \in Names
               PROVE  (CharsOf(f, t) \o CharsOf(<<>>, t)) \o unread[t] = CharsOf(printed, t)
    BY <1>1 DEF Transparent
  <2>1. (CharsOf(file, t) \o CharsOf(buffer, t)) \o unread[t] = CharsOf(printed, t)
    BY <1>2 DEF Transparent
  <2>2. CharsOf(<<>>, t) = <<>>
    BY NoneOf
  <2>3. CharsOf(buffer, t) = IF t = s THEN buffer ELSE <<>>
    BY <1>3, TakenOf
  <2>4. CASE t # s
    BY <1>7, <2>1, <2>2, <2>3, <2>4
  <2>5. CASE t = s
    <3> DEFINE x == CharsOf(file, s)
    <3>1. x \in Seq(Item) /\ buffer \in Seq(Item)
      <4>1. file \in Seq(Item) /\ buffer \in Seq(Item)
        BY <1>2 DEF TypeOK
      <4>2. PICK e : e \in Item
        BY <1>3, Unpacked, ItemsAre
      <4>3. QED
        BY <1>3, <4>1, <4>2, OneMore
    <3> HIDE DEF x
    <3>2. (x \o buffer) \o <<>> = x \o buffer
      <4>1. x \o buffer \in Seq(Item)
        BY <3>1, ConcatProperties
      <4>2. QED
        BY <4>1, ConcatEmptySeq
    <3>3. CharsOf(f, t) = x \o buffer /\ (x \o buffer) \o unread[t] = CharsOf(printed, t)
      BY <1>7, <2>1, <2>3, <2>5 DEF x
    <3>4. QED
      BY <2>2, <3>2, <3>3
  <2>6. QED
    BY <2>4, <2>5
<1>13. QED
  BY <1>8, <1>9, <1>10, <1>11, <1>12 DEF StInv

(* An item of no stream.                                                   *)
LEMMA OfNoStream ==
  ASSUME NEW q \in Seq(Item), NEW e \in Item, e.stream = "", NEW t \in Names
  PROVE  Of(Append(q, e), t) = Of(q, t) /\ CharsOf(Append(q, e), t) = CharsOf(q, t)
<1>1. e.stream # t
  BY NamesAre
<1>2. QED
  BY <1>1, OneMore

(* What the file is after the line EOF.                                    *)
Closed(w) ==
  /\ Sheet(w)
  /\ \A k \in 1..Len(w) : w[k].what = "EOF" =>
       k = Len(w) /\ w[k - 1].what = "stamp" /\ (k = 2 \/ w[k - 2].eol)
  /\ \A t \in Names : CharsOf(w, t) = CharsOf(file, t)

LEMMA LastLineCloses ==
  ASSUME published \in 0..MaxTime, Sheet(file), Unended(file),
         incompleteLineSent <=> ~AtStart(file), NEW s \in Names
  PROVE  Closed(LastLine)
<1> DEFINE d == AddedEOL
           e == Stamp("")
           g == EOFLine
           a == IF incompleteLineSent THEN Append(file, d) ELSE file
           b == Append(a, e)
           c == Append(b, g)
           n == Len(a)
<1>1. /\ file \in Seq(Item) /\ TimesRight(file)
      /\ d \in Item /\ e \in Item /\ g \in Item
  <2>1. TRUE \in BOOLEAN
    OBVIOUS
  <2>2. QED
    BY <2>1, ItemsAre DEF Sheet
<1>2. /\ d.stream = "" /\ d.what = "eol" /\ d.eol = TRUE
      /\ e.stream = "" /\ e.what = "stamp" /\ e.time = published
      /\ g.stream = "" /\ g.what = "EOF" /\ g.time = published
  BY DEF AddedEOL, Stamp, EOFLine
<1> HIDE DEF d, e, g
<1>3. /\ a \in Seq(Item) /\ TimesRight(a) /\ AtStart(a) /\ Unended(a)
      /\ \A t \in Names : Of(a, t) = Of(file, t) /\ CharsOf(a, t) = CharsOf(file, t)
  <2>1. CASE incompleteLineSent
    <3> DEFINE w == Append(file, d)
               m == Len(file)
    <3>1. /\ m \in Nat /\ w \in Seq(Item) /\ Len(w) = m + 1 /\ w[m + 1] = d
          /\ \A k \in 1..m : w[k] = file[k]
      BY <1>1
    <3>2. \A t \in Names : Of(w, t) = Of(file, t) /\ CharsOf(w, t) = CharsOf(file, t)
      BY <1>1, <1>2, OfNoStream
    <3>3. TimesRight(w)
      BY <1>1, <1>2, TimesAppend DEF Unended
    <3>4. \A k \in 1..m : file[k].what # "EOF"
      BY DEF Unended
    <3> HIDE DEF w, m
    <3>5. w[Len(w)] = d
      BY <3>1
    <3>6. AtStart(w)
      BY <1>2, <3>5 DEF AtStart
    <3>7. \A k \in 1..Len(w) : w[k].what # "EOF"
      <4>1. \A k \in 1..m + 1 : k \in 1..m \/ k = m + 1
        BY <3>1
      <4>2. QED
        BY <1>2, <3>1, <3>4, <4>1
    <3>8. Unended(w)
      BY <1>2, <3>5, <3>7 DEF Unended
    <3>9. a = w
      BY <2>1 DEF w
    <3> HIDE DEF a
    <3>10. QED
      BY <3>1, <3>2, <3>3, <3>6, <3>8, <3>9
  <2>2. CASE ~incompleteLineSent
    BY <1>1, <2>2
  <2>3. QED
    BY <2>1, <2>2
<1> HIDE DEF a
<1>4. /\ n \in Nat /\ b \in Seq(Item) /\ Len(b) = n + 1 /\ b[n + 1] = e
      /\ \A k \in 1..n : b[k] = a[k]
  BY <1>1, <1>3
<1>5. TimesRight(b)
  BY <1>1, <1>2, <1>3, TimesAppend DEF Unended
<1>6. \A t \in Names : Of(b, t) = Of(a, t) /\ CharsOf(b, t) = CharsOf(a, t)
  BY <1>1, <1>2, <1>3, OfNoStream
<1> HIDE DEF b
<1>7. /\ c \in Seq(Item) /\ Len(c) = n + 2 /\ c[n + 2] = g
      /\ \A k \in 1..n + 1 : c[k] = b[k]
  BY <1>1, <1>4
<1>8. TimesRight(c)
  <2>1. b[Len(b)] = e
    BY <1>4
  <2>2. e.time >= g.time
    <3>1. published \in Int
      BY Numbers
    <3>2. published >= published
      BY <3>1
    <3>3. QED
      BY <1>2, <3>2, Zenon
  <2>3. QED
    BY <1>1, <1>2, <1>4, <1>5, <2>1, <2>2, TimesAppend
<1>9. \A t \in Names : Of(c, t) = Of(b, t) /\ CharsOf(c, t) = CharsOf(b, t)
  BY <1>1, <1>2, <1>4, OfNoStream
<1> HIDE DEF c, n
<1>10. ASSUME NEW k \in 1..Len(c), c[k].what = "EOF"
       PROVE  k = Len(c) /\ c[k - 1].what = "stamp" /\ (k = 2 \/ c[k - 2].eol)
  <2>1. k = n + 2
    <3>1. CASE k \in 1..n
      <4>1. k \in 1..n + 1 /\ c[k] = a[k]
        BY <1>4, <1>7, <3>1
      <4>2. a[k].what # "EOF"
        BY <1>3, <3>1 DEF Unended, n
      <4>3. QED
        BY <1>10, <4>1, <4>2
    <3>2. CASE k = n + 1
      <4>1. k \in 1..n + 1 /\ c[k] = e
        BY <1>4, <1>7, <3>2
      <4>2. QED
        BY <1>2, <1>10, <4>1
    <3>3. QED
      BY <1>4, <1>7, <3>1, <3>2
  <2>2. k - 1 = n + 1 /\ c[n + 1] = e
    BY <1>4, <1>7, <2>1
  <2>3. CASE n = 0
    <3>1. k = 2 /\ k = Len(c)
      BY <1>7, <2>1, <2>3
    <3>2. c[k - 1].what = "stamp"
      BY <1>2, <2>2
    <3>3. QED
      BY <3>1, <3>2
  <2>4. CASE n # 0
    <3>1. k - 2 = n /\ n \in 1..n /\ n \in 1..n + 1
      BY <1>4, <2>1, <2>4
    <3>2. c[n] = a[n]
      BY <1>4, <1>7, <3>1
    <3>3. a[n].eol
      <4>1. a # <<>>
        BY <2>4 DEF n
      <4>2. QED
        BY <1>3, <4>1 DEF AtStart, n
    <3>4. QED
      BY <1>2, <1>7, <2>1, <2>2, <3>1, <3>2, <3>3
  <2>5. QED
    BY <2>3, <2>4
<1>11. Sheet(c)
  <2>1. \A t \in Names : Of(c, t) = Of(file, t)
    BY <1>3, <1>6, <1>9
  <2>2. QED
    BY <1>7, <1>8, <2>1 DEF Sheet
<1>12. \A t \in Names : CharsOf(c, t) = CharsOf(file, t)
  BY <1>3, <1>6, <1>9
<1>13. Closed(c)
  BY <1>10, <1>11, <1>12 DEF Closed
<1>14. LastLine = c
  BY DEF LastLine, a, b, c, d, e, g
<1>15. QED
  BY <1>13, <1>14

LEMMA AddEOFStep ==
  ASSUME StInv, AddEOF
  PROVE  StInv'
<1>0. PICK f \in {LastLine, file} : file' = f
  BY DEF AddEOF
<1>1. /\ pc = "eof" /\ pc' = "done" /\ file' = f
      /\ UNCHANGED <<printed, unread, open, published, watched>>
      /\ UNCHANGED <<EOLBefore, incompleteLineSent, watchDog, ready, i, buffer>>
  BY <1>0 DEF AddEOF, env
<1>2. TypeOK /\ Pipes /\ Watching /\ FileInv /\ Transparent
  BY Unpacked
<1>3. Closed(f)
  <2>1. Sheet(file) /\ Unended(file) /\ (incompleteLineSent <=> ~AtStart(file))
    BY <1>1, <1>2 DEF FileInv
  <2>2. \E s : s \in Names
    <3>1. Len(Streams) \in Nat \ {0}
      <4> DEFINE S == STRING \ {""}
      <4>1. Streams \in Seq(S) /\ Streams # <<>>
        BY StamperAssumption, Zenon
      <4> HIDE DEF S
      <4>2. QED
        BY <4>1
    <3>2. 1 \in 1..Len(Streams)
      BY <3>1
    <3>3. Streams[1] \in Names
      BY <3>2, NamesAre, Zenon
    <3>4. QED
      BY <3>3, Zenon
  <2>3. Closed(LastLine)
    BY <2>1, <2>2, Unpacked, LastLineCloses
  <2>4. Closed(file)
    BY <2>1 DEF Closed, Unended
  <2>5. QED
    BY <2>3, <2>4
<1>4. TypeOK'
  <2>1. file' \in Seq(Item)
    BY <1>1, <1>3 DEF Closed, Sheet
  <2>2. QED
    BY <1>1, <1>2, <2>1 DEF TypeOK
<1>5. Pipes'
  <2>1. \A t : Chars(t)' = Chars(t)
    BY <1>1 DEF Chars
  <2>2. QED
    BY <1>1, <1>2, <2>1 DEF Pipes
<1>6. Watching'
  BY <1>1, <1>2 DEF Watching
<1>7. FileInv'
  <2>1. Sheet(file)'
    BY <1>1, <1>3 DEF Closed, Sheet, TimesRight
  <2>2. EOFOnItsOwn'
    BY <1>1, <1>3 DEF Closed, EOFOnItsOwn
  <2>3. QED
    BY <1>1, <2>1, <2>2 DEF FileInv
<1>8. Transparent'
  <2>1. \A t \in Names : CharsOf(f, t) = CharsOf(file, t)
    BY <1>3 DEF Closed
  <2>2. QED
    BY <1>1, <1>2, <2>1 DEF Transparent
<1>9. QED
  BY <1>4, <1>5, <1>6, <1>7, <1>8 DEF StInv

LEMMA StamperStep ==
  StInv /\ [Next]_vars => StInv'
<1> SUFFICES ASSUME StInv, [Next]_vars PROVE StInv'
  OBVIOUS
<1>1. CASE Environment
  <2>1. UNCHANGED <<watched, EOLBefore, incompleteLineSent, watchDog, ready, i, buffer, file, pc>>
    BY <1>1 DEF Environment
  <2>2. ASSUME NEW s \in Names, NEW eol \in BOOLEAN, Puts(s, eol) PROVE StInv'
    BY <2>1, <2>2, PutsStep
  <2>3. ASSUME NEW s \in Names, Close(s) PROVE StInv'
    BY <2>1, <2>3, CloseStep
  <2>4. CASE setCPUtimeFromAnotherThread
    BY <2>1, <2>4, PublishStep
  <2>5. QED
    BY <1>1, <2>2, <2>3, <2>4, Zenon DEF Environment
<1>2. CASE Thread
  <2>1. Select \/ SelectFails \/ Scan \/ ScanEnds \/ Send \/ LoopEnds \/ AddEOF
    BY <1>2 DEF Thread
  <2>2. QED
    BY <2>1, SelectStep, SelectFailsStep, ScanStep, ScanEndsStep, SendStep, LoopEndsStep,
       AddEOFStep
<1>3. CASE UNCHANGED vars
  <2>1. /\ UNCHANGED <<printed, unread, open, published, watched, EOLBefore, incompleteLineSent>>
        /\ UNCHANGED <<watchDog, ready, i, buffer, file, pc>>
    BY <1>3 DEF vars, env
  <2>2. TypeOK' /\ Pipes' /\ Watching'
    BY <2>1 DEF StInv, TypeOK, Pipes, Watching, Chars, Readable
  <2>3. FileInv'
    BY <2>1, Unpacked, FileKept
  <2>4. Transparent'
    BY <2>1 DEF StInv, Transparent
  <2>5. QED
    BY <2>2, <2>3, <2>4 DEF StInv
<1>4. QED
  BY <1>1, <1>2, <1>3 DEF Next

(* The inductive invariant of the time stamper: what is on its way in the  *)
(* pipes and the buffer, which streams are still watched, and what the     *)
(* file may be continued with.                                             *)
THEOREM StamperInductive == Spec => []StInv
<1>1. StInv /\ [Next]_vars => StInv'
  BY StamperStep
<1>2. QED
  BY InitStamper, <1>1, PTL DEF Spec

(* Every line of the file has one stamp, at its beginning, which is not    *)
(* older than the line, and the line EOF starts a line of its own, however *)
(* the reads cut what the solver prints.                                   *)
THEOREM EveryLineStamped == Spec => []LinesStamped
<1>1. StInv => LinesStamped
  <2> SUFFICES ASSUME StInv PROVE LinesStamped
    OBVIOUS
  <2>1. TypeOK /\ FileInv
    BY Unpacked
  <2>2. EachLineStamped
    BY <2>1 DEF FileInv, Sheet, Alternates, EachLineStamped
  <2>3. StampsCurrent
    BY <2>1 DEF FileInv, Sheet, TimesRight, StampsCurrent
  <2>4. EOFOnItsOwn
    BY <2>1 DEF FileInv
  <2>5. QED
    BY <2>1, <2>2, <2>3, <2>4 DEF LinesStamped
<1>2. QED
  BY <1>1, StamperInductive, PTL

(* Without its stamps the file is what the solver has printed, up to what  *)
(* is still on its way, and all of it once the streams have ended.         *)
THEOREM EveryCharKept == Spec => []CharsKept
<1>1. StInv => CharsKept
  <2> SUFFICES ASSUME StInv PROVE CharsKept
    OBVIOUS
  <2>1. Transparent /\ Watching /\ Pipes /\ TypeOK
    BY Unpacked
  <2>2. ASSUME pc \in {"eof", "done"}, watched = <<>>, NEW s \in Names
        PROVE  CharsOf(file, s) = CharsOf(printed, s)
    <3>1. s \notin ToSet(watched)
      <4>1. DOMAIN <<>> = {}
        OBVIOUS
      <4>2. QED
        BY <2>2, <4>1 DEF ToSet
    <3>2. unread[s] = <<>> /\ CharsOf(buffer, s) = <<>>
      BY <2>1, <2>2, <3>1, NoneOf DEF Watching, Pipes
    <3> DEFINE x == CharsOf(file, s)
    <3>3. (x \o <<>>) \o <<>> = CharsOf(printed, s)
      BY <2>1, <3>2 DEF Transparent
    <3>4. x \in Seq(Item)
      <4>1. file \in Seq(Item)
        BY <2>1 DEF TypeOK
      <4>2. PICK e : e \in Item
        BY Unpacked, ItemsAre
      <4>3. QED
        BY <4>1, <4>2, OneMore
    <3> HIDE DEF x
    <3>5. x \o <<>> = x
      BY <3>4, ConcatEmptySeq
    <3>6. x = CharsOf(printed, s)
      BY <3>3, <3>5
    <3>7. QED
      BY <3>6 DEF x
  <2>3. NothingLost
    BY <2>2 DEF NothingLost
  <2>4. QED
    BY <2>1, <2>3 DEF CharsKept
<1>2. QED
  BY <1>1, StamperInductive, PTL
=============================================================================

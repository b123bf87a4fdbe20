--------------------------- MODULE CaptureProofs ---------------------------
(***************************************************************************)
(* Proofs about Capture, for any number of records, runs and tears.        *)
(***************************************************************************)
EXTENDS Capture, FiniteSetTheorems, WellFoundedInduction, TLAPS

Piece == [rec : Nat, whole : BOOLEAN]

FileOK ==
    /\ file \in Seq(Piece) /\ records \in Nat
    /\ durable \in 0..Len(file)

\* Record n is complete in the durable part of the file.
OnDisk(n) == \E i \in 1..durable : file[i].whole /\ file[i].rec = n /\ n # 0

SettledOnDisk == \A n \in settled : OnDisk(n)

DiskInv == FileOK /\ SettledOnDisk

-----------------------------------------------------------------------------
LEMMA PiecesTyped ==
    ASSUME NEW n \in Nat
    PROVE  /\ Newline \in Piece /\ Whole(n) \in Piece /\ Part(n) \in Piece
           /\ \A piece \in Pieces(n) \cup {<<Whole(n), Newline>>} : piece \in Seq(Piece)
  BY DEF Newline, Whole, Part, Piece, Pieces

\* Appending to the file leaves what is on the disk where it is.
LEMMA AppendKeepsDisk ==
    ASSUME DiskInv, NEW piece \in Seq(Piece),
           file' = file \o piece, durable' = durable, settled' = settled,
           records' \in Nat
    PROVE  DiskInv'
  <1>1. /\ file' \in Seq(Piece) /\ Len(file') = Len(file) + Len(piece)
        /\ \A i \in 1..Len(file) : file'[i] = file[i]
    BY DEF DiskInv, FileOK
  <1>2. FileOK'
    BY <1>1 DEF DiskInv, FileOK
  <1>3. SettledOnDisk'
    BY <1>1 DEF DiskInv, FileOK, SettledOnDisk, OnDisk
  <1> QED
    BY <1>2, <1>3 DEF DiskInv

\* Whatever remains after a loss of power begins with the durable part.
LEMMA RemainsKeepDisk ==
    ASSUME FileOK, NEW f \in Remains
    PROVE  /\ f \in Seq(Piece) /\ Len(f) >= durable
           /\ \A i \in 1..durable : f[i] = file[i]
  <1>1. PICK k \in durable..Len(file) :
            LET kept == SubSeq(file, 1, k) IN
            f = kept \/ (k < Len(file) /\ f = Append(kept, Part(file[k + 1].rec)))
    BY DEF Remains
  <1> DEFINE kept == SubSeq(file, 1, k)
  <1>2. /\ k \in Nat /\ kept \in Seq(Piece) /\ Len(kept) = k
        /\ \A i \in 1..k : kept[i] = file[i]
    BY DEF FileOK
  <1>3. CASE f = kept
    BY <1>2, <1>3 DEF FileOK
  <1>4. CASE k < Len(file) /\ f = Append(kept, Part(file[k + 1].rec))
    <2>1. file[k + 1] \in Piece
      BY <1>2, <1>4 DEF FileOK
    <2>2. Part(file[k + 1].rec) \in Piece
      BY <2>1 DEF Piece, Part
    <2> HIDE DEF kept
    <2>3. f \in Seq(Piece) /\ Len(f) = k + 1 /\ \A i \in 1..k : f[i] = kept[i]
      BY <1>2, <1>4, <2>2
    <2> QED
      BY <1>2, <2>3 DEF FileOK
  <1> QED
    BY <1>1, <1>3, <1>4

-----------------------------------------------------------------------------
\* One step per action that touches the file or what is settled.
LEMMA NextDiskInv == DiskInv /\ [Next]_vars => DiskInv'
  <1> SUFFICES ASSUME DiskInv, [Next]_vars PROVE DiskInv'
    OBVIOUS
  <1> USE DEF logVars, readVars
  <1>0. records + 1 \in Nat
    BY DEF DiskInv, FileOK
  <1>1. CASE Open
    BY <1>1 DEF Open, Opened, DiskInv, FileOK, SettledOnDisk, OnDisk
  <1>2. CASE Write
    <2>1. <<Whole(records + 1), Newline>> \in Seq(Piece)
      BY <1>0, PiecesTyped
    <2>2. /\ file' = file \o <<Whole(records + 1), Newline>>
          /\ durable' = durable /\ settled' = settled /\ records' \in Nat
      BY <1>0, <1>2 DEF Write
    <2> QED
      BY <2>1, <2>2, AppendKeepsDisk
  <1>3. CASE WriteFails
    <2>1. PICK piece \in Pieces(records + 1) : file' = file \o piece
      BY <1>3 DEF WriteFails
    <2>2. piece \in Seq(Piece)
      BY <1>0, <2>1, PiecesTyped
    <2>3. durable' = durable /\ settled' = settled /\ records' \in Nat
      BY <1>0, <1>3 DEF WriteFails
    <2> QED
      BY <2>1, <2>2, <2>3, AppendKeepsDisk
  <1>4. CASE WriteRefused
    BY <1>4 DEF WriteRefused, DiskInv, FileOK, SettledOnDisk, OnDisk
  <1>5. CASE Close
    <2>1. UNCHANGED <<file, records>>
      BY <1>5 DEF Close
    <2>2. CASE /\ durable' = DurableAfterClose
               /\ settled' = IF sink = "alerts" THEN Complete(file) ELSE settled
      <3>1. CASE sink = "alerts"
        <4>1. \A n \in Complete(file) :
                 \E i \in 1..Len(file) : file[i].whole /\ file[i].rec = n /\ n # 0
          BY DEF Complete
        <4> QED
          BY <2>1, <2>2, <3>1, <4>1 DEF DurableAfterClose, DiskInv, FileOK, SettledOnDisk, OnDisk
      <3>2. CASE sink # "alerts"
        BY <2>1, <2>2, <3>2 DEF DurableAfterClose, DiskInv, FileOK, SettledOnDisk, OnDisk
      <3> QED
        BY <3>1, <3>2
    <2>3. CASE UNCHANGED <<durable, settled>>
      BY <2>1, <2>3 DEF DiskInv, FileOK, SettledOnDisk, OnDisk
    <2> QED
      BY <1>5, <2>2, <2>3 DEF Close
  <1>6. CASE Killed
    <2>1. CASE UNCHANGED <<file, records>>
      BY <1>6, <2>1 DEF Killed, DiskInv, FileOK, SettledOnDisk, OnDisk
    <2>2. CASE /\ records' = records + 1
               /\ \E piece \in Pieces(records + 1) \cup {<<Whole(records + 1), Newline>>} :
                     file' = file \o piece
      <3>1. PICK piece \in Pieces(records + 1) \cup {<<Whole(records + 1), Newline>>} :
                file' = file \o piece
        BY <2>2
      <3>2. piece \in Seq(Piece)
        BY <1>0, <3>1, PiecesTyped
      <3>3. durable' = durable /\ settled' = settled /\ records' \in Nat
        BY <1>0, <1>6, <2>2 DEF Killed
      <3> QED
        BY <3>1, <3>2, <3>3, AppendKeepsDisk
    <2> QED
      BY <1>6, <2>1, <2>2 DEF Killed
  <1>7. CASE PowerLoss
    <2>1. PICK f \in Remains : file' = f /\ durable' = Len(f)
      BY <1>7 DEF PowerLoss
    <2>2. /\ file' \in Seq(Piece) /\ Len(file') >= durable
          /\ \A i \in 1..durable : file'[i] = file[i]
      BY <2>1, RemainsKeepDisk DEF DiskInv
    <2>3. UNCHANGED <<records, settled>>
      BY <1>7 DEF PowerLoss
    <2> QED
      BY <2>1, <2>2, <2>3 DEF DiskInv, FileOK, SettledOnDisk, OnDisk
  <1>8. CASE Reading \/ UNCHANGED vars
    <2>1. UNCHANGED logVars
      BY <1>8 DEF Reading, StartReplay, ReadLine, EndOfFile, vars
    <2> QED
      BY <2>1 DEF DiskInv, FileOK, SettledOnDisk, OnDisk
  <1> QED
    BY <1>1, <1>2, <1>3, <1>4, <1>5, <1>6, <1>7, <1>8 DEF Next, Writing, Fault

\* Close of the alert log: what was in it when a run synced it stays in it,
\* through kills, full disks, losses of power and later runs.
THEOREM SettledAlertsStay == Spec => []StoppedRunsSurvive
  <1>1. Init => DiskInv
    BY DEF Init, DiskInv, FileOK, SettledOnDisk
  <1>2. DiskInv => StoppedRunsSurvive
    BY DEF DiskInv, FileOK, SettledOnDisk, OnDisk, StoppedRunsSurvive, Complete
  <1> QED
    BY <1>1, <1>2, NextDiskInv, PTL DEF Spec

-----------------------------------------------------------------------------
(* The replay. *)

\* Records are numbered in the order of the file, and only a newline has
\* number 0.
InOrder(f) ==
    /\ \A i \in 1..Len(f) : f[i].rec = 0 <=> f[i] = Newline
    /\ \A i, j \in 1..Len(f) :
          i < j /\ f[i] # Newline /\ f[j] # Newline => f[i].rec < f[j].rec

LogInv ==
    /\ FileOK /\ InOrder(file)
    /\ \A i \in 1..Len(file) : file[i].rec <= records

\* Position i is alone on its line in the first q pieces of f.
AloneIn(f, q, i) ==
    /\ f[i] # Newline /\ f[i].whole
    /\ i = 1 \/ f[i - 1] = Newline
    /\ i = q \/ f[i + 1] = Newline

StandingIn(f, q) == {f[i].rec : i \in {j \in 1..q : AloneIn(f, q, j)}}

Increasing(s) == \A i, j \in 1..Len(s) : i < j => s[i] < s[j]

ReaderState ==
    [at : {"idle", "reading", "ending", "done"}, pos : Nat, pendingErr : BOOLEAN,
     result : {"none", "ok", "error", "interrupted"}]

USE DEF ReaderState

\* The reader is between two lines; what it delivered stands before it.
ReaderInv ==
    /\ reader \in ReaderState
    /\ reader.pos <= Len(file)
    /\ reader.at = "reading" => reader.pos = 0 \/ file[reader.pos] = Newline
    /\ delivered \in Seq(Nat)
    /\ Delivered = StandingIn(file, reader.pos)
    /\ Increasing(delivered)

ReplayInv == LogInv /\ ReaderInv

LEMMA StandingOfPrefix ==
    ASSUME NEW f \in Seq(Piece), NEW q \in 0..Len(f)
    PROVE  Standing(SubSeq(f, 1, q)) = StandingIn(f, q)
  <1> DEFINE g == SubSeq(f, 1, q)
  <1>1. Len(g) = q /\ \A i \in 1..q : g[i] = f[i]
    OBVIOUS
  <1> HIDE DEF g
  <1>2. \A i \in 1..q : Alone(g, i) <=> AloneIn(f, q, i)
    BY <1>1 DEF Alone, AloneIn
  <1>3. {g[i].rec : i \in {j \in 1..Len(g) : Alone(g, j)}} = StandingIn(f, q)
    BY <1>1, <1>2 DEF StandingIn
  <1> QED
    BY <1>3 DEF Standing, g

\* What comes after position q does not matter.
LEMMA StandingStays ==
    ASSUME NEW f \in Seq(Piece), NEW g \in Seq(Piece),
           NEW q \in 0..Len(f), q <= Len(g), \A i \in 1..q : g[i] = f[i]
    PROVE  StandingIn(g, q) = StandingIn(f, q)
  <1>1. \A i \in 1..q : AloneIn(g, q, i) <=> AloneIn(f, q, i)
    BY DEF AloneIn
  <1> QED
    BY <1>1 DEF StandingIn

\* e is the end of the line that begins after p.
EndsLine(f, p, e) ==
    /\ e \in p..Len(f)
    /\ e = Len(f) \/ f[e + 1] = Newline
    /\ \A i \in (p + 1)..e : f[i] # Newline

\* Every line has an end: before the first newline after it, or at the end of
\* the file.
LEMMA LineEndExists ==
    ASSUME NEW f \in Seq(Piece), NEW p \in 0..Len(f)
    PROVE  \E e \in p..Len(f) : EndsLine(f, p, e)
  <1> DEFINE S == {i \in Nat : p < i /\ i <= Len(f) /\ f[i] = Newline}
  <1>1. CASE S = {}
    BY <1>1 DEF EndsLine
  <1>2. CASE S # {}
    <2>1. S \in SUBSET Nat
      OBVIOUS
    <2>2. PICK x \in S : \A y \in S : ~(<<y, x>> \in OpToRel(<, Nat))
      <3> HIDE DEF S
      <3> QED
        BY <1>2, <2>1, NatLessThanWellFounded, WFMin
    <2>3. \A y \in S : ~(y < x)
      BY <2>2 DEF OpToRel
    <2>4. x \in Nat /\ p < x /\ x <= Len(f) /\ f[x] = Newline
      BY <2>2
    <2>5. \A i \in (p + 1)..(x - 1) : f[i] # Newline
      BY <2>3, <2>4
    <2>6. x - 1 \in p..Len(f) /\ f[(x - 1) + 1] = Newline
      BY <2>4
    <2> QED
      BY <2>5, <2>6 DEF EndsLine
  <1> QED
    BY <1>1, <1>2

LEMMA LineEndIsEnd ==
    ASSUME FileOK, NEW p \in 0..Len(file)
    PROVE  EndsLine(file, p, LineEnd(p))
  <1>1. \E e \in p..Len(file) : EndsLine(file, p, e)
    BY LineEndExists DEF FileOK
  <1>2. LineEnd(p) = CHOOSE e \in p..Len(file) : EndsLine(file, p, e)
    BY DEF LineEnd, EndsLine
  <1> QED
    BY <1>1, <1>2

\* A line adds its record to what stands if the record is all there is on it.
LEMMA LineAdds ==
    ASSUME NEW f \in Seq(Piece), NEW p \in 0..Len(f), NEW e \in p..Len(f),
           p = 0 \/ f[p] = Newline, EndsLine(f, p, e),
           NEW q \in 0..Len(f), q = IF e < Len(f) THEN e + 1 ELSE e
    PROVE  StandingIn(f, q) = StandingIn(f, p)
                \cup (IF e = p + 1 /\ f[e].whole THEN {f[e].rec} ELSE {})
  <1>1. \A i \in 1..p : AloneIn(f, q, i) <=> AloneIn(f, p, i)
    BY DEF AloneIn, EndsLine
  <1>2. \A i \in (p + 1)..q : AloneIn(f, q, i) <=> e = p + 1 /\ i = e /\ f[e].whole
    BY DEF AloneIn, EndsLine
  <1>3. p <= q /\ q \in Nat /\ p \in Nat /\ (e = p + 1 => e \in 1..q)
    OBVIOUS
  <1> QED
    BY <1>1, <1>2, <1>3 DEF StandingIn

-----------------------------------------------------------------------------
\* The reader is not disturbed by what happens to the file behind it.
LEMMA ReaderStays ==
    ASSUME ReplayInv, file' \in Seq(Piece), reader.pos <= Len(file'),
           \A i \in 1..reader.pos : file'[i] = file[i],
           UNCHANGED <<reader, delivered>>
    PROVE  ReaderInv'
  <1>1. reader.pos \in 0..Len(file)
    BY DEF ReplayInv, ReaderInv, LogInv, FileOK
  <1>2. StandingIn(file', reader.pos) = StandingIn(file, reader.pos)
    BY <1>1, StandingStays DEF ReplayInv, LogInv, FileOK
  <1>3. (reader.pos = 0 \/ file[reader.pos] = Newline)
            => (reader.pos = 0 \/ file'[reader.pos] = Newline)
    BY <1>1
  <1>4. Delivered' = Delivered
    BY DEF Delivered
  <1> QED
    BY <1>1, <1>2, <1>3, <1>4 DEF ReplayInv, ReaderInv

LEMMA Positions ==
    ASSUME NEW m \in Nat, NEW n \in {0, 1, 2}, NEW i \in 1..(m + n)
    PROVE  i \in 1..m \/ (i = m + 1 /\ n >= 1) \/ (i = m + 2 /\ n = 2)
  OBVIOUS

\* Appending the next record, or a piece of it, keeps the order.
LEMMA AppendKeepsOrder ==
    ASSUME ReplayInv, NEW piece \in Pieces(records + 1) \cup {<<Whole(records + 1), Newline>>},
           file' = file \o piece, records' = records + 1, durable' = durable,
           UNCHANGED <<reader, delivered>>
    PROVE  ReplayInv'
  <1>1. records \in Nat /\ file \in Seq(Piece) /\ durable \in 0..Len(file)
    BY DEF ReplayInv, LogInv, FileOK
  <1>2. piece \in Seq(Piece)
    BY <1>1, PiecesTyped
  <1>3. /\ file' \in Seq(Piece) /\ Len(file') = Len(file) + Len(piece)
        /\ \A i \in 1..Len(file) : file'[i] = file[i]
        /\ \A i \in 1..Len(piece) : file'[Len(file) + i] = piece[i]
    BY <1>1, <1>2
  <1>4. /\ Len(piece) \in 0..2
        /\ Len(piece) >= 1 => piece[1].rec = records + 1 /\ piece[1] # Newline
        /\ Len(piece) = 2 => piece[2] = Newline /\ piece[2].rec = 0
    <2>1. \/ piece = <<>> \/ piece = <<Part(records + 1)>> \/ piece = <<Whole(records + 1)>>
          \/ piece = <<Whole(records + 1), Newline>>
      BY DEF Pieces
    <2>2. /\ Part(records + 1).rec = records + 1 /\ Part(records + 1) # Newline
          /\ Whole(records + 1).rec = records + 1 /\ Whole(records + 1) # Newline
          /\ Newline.rec = 0
      <3>1. records + 1 # 0
        BY <1>1
      <3>2. /\ Part(records + 1).rec = records + 1 /\ Whole(records + 1).rec = records + 1
            /\ Newline.rec = 0
        BY DEF Whole, Part, Newline
      <3> QED
        BY <3>1, <3>2
    <2> QED
      BY <2>1, <2>2
  <1>5. \A i \in 1..Len(file') :
            \/ i \in 1..Len(file) /\ file'[i] = file[i]
            \/ i = Len(file) + 1 /\ file'[i].rec = records + 1 /\ file'[i] # Newline
            \/ i = Len(file) + 2 /\ file'[i].rec = 0 /\ file'[i] = Newline
    <2> TAKE i \in 1..Len(file')
    <2>2. \/ i \in 1..Len(file)
          \/ i = Len(file) + 1 /\ Len(piece) >= 1
          \/ i = Len(file) + 2 /\ Len(piece) = 2
      <3>1. Len(file) \in Nat /\ Len(piece) \in {0, 1, 2}
        BY <1>1, <1>4
      <3>2. i \in 1..(Len(file) + Len(piece))
        BY <1>3
      <3> QED
        BY <3>1, <3>2, Positions
    <2>3. CASE i = Len(file) + 1 /\ Len(piece) >= 1
      <3>1. file'[Len(file) + 1] = piece[1]
        BY <1>2, <1>3, <2>3
      <3> QED
        BY <1>4, <2>3, <3>1
    <2>4. CASE i = Len(file) + 2 /\ Len(piece) = 2
      BY <1>3, <1>4, <2>4
    <2> QED
      BY <1>3, <2>2, <2>3, <2>4
  <1>6. LogInv'
    <2>1. FileOK'
      BY <1>1, <1>2, <1>3 DEF FileOK
    <2>2. \A i \in 1..Len(file') : file'[i].rec = 0 <=> file'[i] = Newline
      <3>1. \A i \in 1..Len(file) : file[i].rec = 0 <=> file[i] = Newline
        BY DEF ReplayInv, LogInv, InOrder
      <3> QED
        BY <1>1, <1>5, <3>1
    <2>3. \A i \in 1..Len(file) : file[i].rec <= records /\ file[i].rec \in Nat
      <3>1. \A i \in 1..Len(file) : file[i] \in Piece
        BY <1>1
      <3> QED
        BY <3>1 DEF ReplayInv, LogInv, Piece
    <2>4. ASSUME NEW i \in 1..Len(file'), NEW j \in 1..Len(file'),
                 i < j, file'[i] # Newline, file'[j] # Newline
          PROVE  file'[i].rec < file'[j].rec
      <3>0. i \in Nat /\ j \in Nat /\ Len(file) \in Nat
        BY <1>1, <1>3
      <3>1. i \in 1..Len(file)
        <4>1. j \in 1..Len(file) \/ j = Len(file) + 1
          BY <1>5, <2>4
        <4> QED
          BY <2>4, <3>0, <4>1
      <3>2. CASE j \in 1..Len(file)
        BY <1>3, <2>4, <3>1, <3>2 DEF ReplayInv, LogInv, InOrder
      <3>3. CASE j = Len(file) + 1
        <4>1. file'[i] = file[i] /\ file[i].rec <= records /\ file[i].rec \in Nat
          BY <1>3, <2>3, <3>1
        <4>2. file'[j].rec = records + 1
          <5>1. \/ j \in 1..Len(file)
                \/ j = Len(file) + 1 /\ file'[j].rec = records + 1
                \/ j = Len(file) + 2
            BY <1>5, Zenon
          <5>2. j \notin 1..Len(file) /\ j # Len(file) + 2
            BY <3>0, <3>3
          <5> QED
            BY <5>1, <5>2, Zenon
        <4> QED
          BY <1>1, <4>1, <4>2
      <3> QED
        BY <1>5, <2>4, <3>2, <3>3
    <2>5. \A i \in 1..Len(file') : file'[i].rec <= records'
      <3>1. \A i \in 1..Len(file') :
                \/ i \in 1..Len(file) /\ file'[i].rec = file[i].rec
                \/ file'[i].rec = records + 1
                \/ file'[i].rec = 0
        BY <1>5, Zenon
      <3>2. \A n \in Nat : n <= records => n <= records + 1
        BY <1>1
      <3>3. records + 1 <= records + 1 /\ 0 <= records + 1
        BY <1>1
      <3>4. \A i \in 1..Len(file') : file'[i].rec <= records + 1
        BY <2>3, <3>1, <3>2, <3>3, Zenon
      <3> QED
        BY <3>4
    <2> QED
      BY <2>1, <2>2, <2>4, <2>5 DEF LogInv, InOrder
  <1>7. ReaderInv'
    <2>1. reader.pos \in Nat /\ reader.pos <= Len(file)
      BY DEF ReplayInv, ReaderInv
    <2> QED
      BY <1>1, <1>2, <1>3, <2>1, ReaderStays
  <1> QED
    BY <1>6, <1>7 DEF ReplayInv

\* A loss of power keeps the order of what remains.
LEMMA RemainsKeepOrder ==
    ASSUME LogInv, NEW f \in Remains
    PROVE  InOrder(f) /\ \A i \in 1..Len(f) : f[i].rec <= records
  <1>1. PICK k \in durable..Len(file) :
            LET kept == SubSeq(file, 1, k) IN
            f = kept \/ (k < Len(file) /\ file[k + 1] # Newline
                            /\ f = Append(kept, Part(file[k + 1].rec)))
    BY DEF Remains
  <1> DEFINE kept == SubSeq(file, 1, k)
  <1>2. /\ k \in Nat /\ k <= Len(file) /\ kept \in Seq(Piece) /\ Len(kept) = k
        /\ \A i \in 1..k : kept[i] = file[i]
    BY DEF LogInv, FileOK
  <1>3. CASE f = kept
    BY <1>2, <1>3 DEF LogInv, InOrder
  <1>4. CASE /\ k < Len(file) /\ file[k + 1] # Newline
             /\ f = Append(kept, Part(file[k + 1].rec))
    <2> HIDE DEF kept
    <2>1. k + 1 \in 1..Len(file) /\ file[k + 1] \in Piece
      BY <1>2, <1>4 DEF LogInv, FileOK
    <2>2. /\ Part(file[k + 1].rec) # Newline
          /\ Part(file[k + 1].rec).rec = file[k + 1].rec /\ file[k + 1].rec # 0
          /\ Part(file[k + 1].rec) \in Piece
      BY <1>4, <2>1 DEF Part, Newline, Piece, LogInv, InOrder
    <2>3. /\ Len(f) = k + 1 /\ f[k + 1] = Part(file[k + 1].rec)
          /\ \A i \in 1..k : f[i] = file[i]
      BY <1>2, <1>4, <2>2
    <2>4. \A i \in 1..Len(f) : f[i].rec = file[i].rec /\ (f[i] = Newline <=> file[i] = Newline)
      BY <1>2, <1>4, <2>2, <2>3
    <2> QED
      BY <1>2, <2>1, <2>3, <2>4 DEF LogInv, InOrder
  <1> QED
    BY <1>1, <1>3, <1>4

-----------------------------------------------------------------------------
\* The replay stops where it is.
LEMMA EndsKeeps ==
    ASSUME ReplayInv, NEW r \in {"ok", "error", "interrupted"},
           reader' = Ends(r), UNCHANGED <<delivered, logVars>>
    PROVE  ReplayInv'
  <1>1. UNCHANGED <<file, records, durable>>
    BY DEF logVars
  <1>2. /\ reader'.pos = reader.pos /\ reader'.at = "done"
        /\ reader' \in ReaderState
    BY DEF ReplayInv, ReaderInv, Ends
  <1>3. StandingIn(file, reader.pos)' = StandingIn(file, reader.pos)
    BY <1>1, <1>2
  <1>4. LogInv'
    BY <1>1 DEF ReplayInv, LogInv, FileOK
  <1> QED
    BY <1>1, <1>2, <1>3, <1>4 DEF ReplayInv, ReaderInv, Delivered

\* What Past leaves.
LEMMA PastIs ==
    ASSUME ReplayInv, reader.at = "reading", NEW e \in reader.pos..Len(file),
           EndsLine(file, reader.pos, e)
    PROVE  /\ Past(e).pos = IF e < Len(file) THEN e + 1 ELSE e
           /\ Past(e).pos \in 0..Len(file)
           /\ Past(e).at = "reading" => file[Past(e).pos] = Newline
           /\ Past(e) \in ReaderState
  <1>1. reader.pos \in Nat /\ Len(file) \in Nat
    BY DEF ReplayInv, ReaderInv, LogInv, FileOK
  <1>2. CASE e < Len(file)
    BY <1>1, <1>2 DEF Past, EndsLine, ReplayInv, ReaderInv
  <1>3. CASE ~(e < Len(file))
    <2>1. Past(e) = [reader EXCEPT !.pos = e, !.at = "ending"]
      BY <1>3 DEF Past
    <2>2. Past(e).pos = e /\ Past(e).at = "ending"
      BY <2>1 DEF ReplayInv, ReaderInv
    <2>3. Past(e) \in ReaderState
      <3>1. e \in Nat
        BY <1>1
      <3>2. reader \in ReaderState
        BY DEF ReplayInv, ReaderInv
      <3> QED
        BY <2>1, <3>1, <3>2
    <2> QED
      BY <1>1, <1>3, <2>2, <2>3
  <1> QED
    BY <1>2, <1>3

LEMMA LineOf ==
    ASSUME NEW f \in Seq(Piece), NEW p \in 0..Len(f), NEW e \in p..Len(f)
    PROVE  /\ Len(SubSeq(f, p + 1, e)) = e - p
           /\ e = p + 1 => SubSeq(f, p + 1, e)[1] = f[e]
  <1>1. Len(SubSeq(f, p + 1, e)) = e - p
    OBVIOUS
  <1>2. \A i \in 1..(e - p) : SubSeq(f, p + 1, e)[i] = f[(p + 1) + i - 1]
    OBVIOUS
  <1>3. e = p + 1 => 1 \in 1..(e - p) /\ (p + 1) + 1 - 1 = e
    OBVIOUS
  <1> QED
    BY <1>1, <1>2, <1>3

\* One line of ReadRecords.
LEMMA ReadLineReplayInv == ReplayInv /\ ReadLine => ReplayInv'
  <1> SUFFICES ASSUME ReplayInv, ReadLine PROVE ReplayInv'
    OBVIOUS
  <1> DEFINE p == reader.pos
             e == LineEnd(p)
             line == SubSeq(file, p + 1, e)
  <1>1. /\ reader.at = "reading" /\ p \in Nat /\ p < Len(file)
        /\ p = 0 \/ file[p] = Newline
        /\ file \in Seq(Piece) /\ FileOK /\ p \in 0..Len(file)
    BY DEF ReadLine, ReplayInv, ReaderInv, LogInv, FileOK
  <1>2. EndsLine(file, p, e) /\ e \in p..Len(file)
    BY <1>1, LineEndIsEnd DEF EndsLine
  <1>3. UNCHANGED logVars /\ UNCHANGED <<file, records, durable>> /\ LogInv'
    BY DEF ReadLine, logVars, ReplayInv, LogInv, FileOK
  <1>4. Parses(line) <=> e = p + 1 /\ file[e].whole
    <2>1. Len(line) = e - p /\ (e = p + 1 => line[1] = file[e])
      BY <1>1, <1>2, LineOf
    <2>2. Len(line) = 1 <=> e = p + 1
      <3> HIDE DEF line, e
      <3> QED
        BY <1>1, <1>2, <2>1
    <2> QED
      BY <2>1, <2>2 DEF Parses
  <1>5. Parses(line) => line[1] = file[e]
    BY <1>1, <1>2, <1>4, LineOf
  <1> HIDE DEF e, line
  <1> DEFINE q == Past(e).pos
  <1>6. /\ q = IF e < Len(file) THEN e + 1 ELSE e
        /\ q \in 0..Len(file)
        /\ Past(e).at = "reading" => file[q] = Newline
        /\ Past(e) \in ReaderState
    BY <1>1, <1>2, PastIs
  <1>7. StandingIn(file, q) = StandingIn(file, p)
            \cup (IF Parses(line) THEN {file[e].rec} ELSE {})
    <2> HIDE DEF q
    <2> QED
      BY <1>1, <1>2, <1>4, <1>6, LineAdds
  <1>8. CASE ReadMalformed(line, e)
    <2>1. /\ reader' = [Past(e) EXCEPT !.pendingErr = TRUE] /\ delivered' = delivered
          /\ ~Parses(line)
      BY <1>8 DEF ReadMalformed
    <2>2. /\ reader'.pos = q /\ reader'.at = Past(e).at
          /\ reader' \in ReaderState
      BY <1>6, <2>1
    <2>3. Delivered' = Delivered
      BY <2>1 DEF Delivered
    <2>4. StandingIn(file, reader.pos)' = StandingIn(file, p)
      BY <1>3, <1>7, <2>1, <2>2
    <2> HIDE DEF q
    <2> QED
      BY <1>3, <1>6, <2>1, <2>2, <2>3, <2>4 DEF ReplayInv, ReaderInv
  <1>9. CASE ReadEvent(line, e) /\ reader' = Past(e) /\ delivered' = Append(delivered, line[1].rec)
    <2>1. Parses(line) /\ line[1] = file[e] /\ e = p + 1 /\ e \in 1..Len(file)
      BY <1>1, <1>2, <1>4, <1>5, <1>9 DEF ReadEvent
    <2>2. file[e] \in Piece /\ file[e].rec \in Nat
      <3>1. file[e] \in Piece
        BY <1>1, <2>1
      <3> QED
        BY <3>1 DEF Piece
    <2>3. delivered \in Seq(Nat) /\ delivered' = Append(delivered, file[e].rec)
      BY <1>9, <2>1 DEF ReplayInv, ReaderInv
    <2>4. /\ delivered' \in Seq(Nat) /\ Len(delivered') = Len(delivered) + 1
          /\ \A i \in 1..Len(delivered) : delivered'[i] = delivered[i]
          /\ delivered'[Len(delivered) + 1] = file[e].rec
      BY <2>2, <2>3
    <2>5. Delivered' = Delivered \cup {file[e].rec}
      BY <2>3, <2>4 DEF Delivered
    <2>6. StandingIn(file, reader.pos)' = StandingIn(file, p) \cup {file[e].rec}
      BY <1>3, <1>7, <1>9, <2>1
    <2>7. \A n \in Delivered : n < file[e].rec
      <3>1. file[e] # Newline
        BY <1>2, <2>1 DEF EndsLine
      <3>2. \A i \in 1..p : file[i] # Newline => file[i].rec < file[e].rec
        <4>1. \A i \in 1..p : i \in 1..Len(file) /\ i < e
          BY <1>1, <2>1
        <4> QED
          BY <2>1, <3>1, <4>1 DEF ReplayInv, LogInv, InOrder
      <3>3. Delivered = StandingIn(file, p)
        BY DEF ReplayInv, ReaderInv
      <3> QED
        BY <3>2, <3>3 DEF StandingIn, AloneIn
    <2>8. Increasing(delivered')
      <3>1. \A i \in 1..Len(delivered) : delivered[i] \in Delivered
        BY DEF Delivered
      <3>2. ASSUME NEW i \in 1..Len(delivered'), NEW j \in 1..Len(delivered'), i < j
            PROVE  delivered'[i] < delivered'[j]
        <4>1. Len(delivered) \in Nat /\ i \in 1..Len(delivered)
          BY <2>3, <2>4, <3>2
        <4>2. CASE j \in 1..Len(delivered)
          BY <2>4, <3>2, <4>1, <4>2 DEF ReplayInv, ReaderInv, Increasing
        <4>3. CASE j = Len(delivered) + 1
          BY <2>4, <2>7, <3>1, <4>1, <4>3
        <4> QED
          BY <2>4, <3>2, <4>1, <4>2, <4>3
      <3> QED
        BY <3>2 DEF Increasing
    <2>9. reader'.pos = q /\ reader'.at = Past(e).at /\ reader' = Past(e)
      BY <1>9
    <2>10. Delivered = StandingIn(file, p)
      BY DEF ReplayInv, ReaderInv
    <2> HIDE DEF q
    <2> QED
      BY <1>3, <1>6, <2>4, <2>5, <2>6, <2>8, <2>9, <2>10 DEF ReplayInv, ReaderInv
  <1>10. CASE \E r \in {"ok", "error", "interrupted"} : reader' = Ends(r) /\ UNCHANGED delivered
    BY <1>3, <1>10, EndsKeeps
  <1>11. \/ ReadMalformed(line, e) \/ ReadCorrupt \/ ReadUnknown(line) \/ ReadEvent(line, e)
    BY DEF ReadLine, line, e
  <1> QED
    BY <1>8, <1>9, <1>10, <1>11 DEF ReadCorrupt, ReadUnknown, ReadEvent

LEMMA NextReplayInv == ReplayInv /\ [Next]_vars => ReplayInv'
  <1> SUFFICES ASSUME ReplayInv, [Next]_vars PROVE ReplayInv'
    OBVIOUS
  <1>0. /\ reader.pos \in Nat /\ reader.pos <= Len(file)
        /\ file \in Seq(Piece) /\ records \in Nat /\ durable \in 0..Len(file)
    BY DEF ReplayInv, ReaderInv, LogInv, FileOK
  <1>1. CASE UNCHANGED <<file, reader, delivered>> /\ records' \in {records, records + 1}
                /\ durable' \in 0..Len(file)
    <2>1. LogInv'
      <3>1. \A i \in 1..Len(file) : file[i].rec \in Nat
        <4>1. \A i \in 1..Len(file) : file[i] \in Piece
          BY <1>0
        <4> QED
          BY <4>1 DEF Piece
      <3>2. \A i \in 1..Len(file) : file[i].rec <= records'
        BY <1>0, <1>1, <3>1 DEF ReplayInv, LogInv
      <3> QED
        BY <1>0, <1>1, <3>2 DEF ReplayInv, LogInv, FileOK
    <2>2. ReaderInv'
      BY <1>0, <1>1, ReaderStays
    <2> QED
      BY <2>1, <2>2 DEF ReplayInv
  <1>2. CASE Open \/ WriteRefused
    BY <1>0, <1>1, <1>2 DEF Open, Opened, WriteRefused, readVars
  <1>3. CASE Close
    <2>1. durable' \in 0..Len(file)
      BY <1>0, <1>3 DEF Close, DurableAfterClose
    <2> QED
      BY <1>1, <1>3, <2>1 DEF Close, readVars
  <1>4. CASE Write
    BY <1>4, AppendKeepsOrder DEF Write, readVars
  <1>5. CASE WriteFails
    BY <1>5, AppendKeepsOrder DEF WriteFails, readVars
  <1>6. CASE Killed
    <2>1. CASE UNCHANGED <<file, records>>
      BY <1>0, <1>1, <1>6, <2>1 DEF Killed, readVars
    <2>2. CASE /\ records' = records + 1
               /\ \E piece \in Pieces(records + 1) \cup {<<Whole(records + 1), Newline>>} :
                     file' = file \o piece
      BY <1>6, <2>2, AppendKeepsOrder DEF Killed, readVars
    <2> QED
      BY <1>6, <2>1, <2>2 DEF Killed
  <1>7. CASE PowerLoss
    <2>1. PICK f \in Remains : file' = f /\ durable' = Len(f)
      BY <1>7 DEF PowerLoss
    <2>2. f \in Seq(Piece) /\ InOrder(f) /\ \A i \in 1..Len(f) : f[i].rec <= records
      BY <2>1, RemainsKeepDisk, RemainsKeepOrder DEF ReplayInv, LogInv
    <2>3. reader' = NoReader /\ delivered' = <<>> /\ records' = records
      BY <1>7 DEF PowerLoss
    <2>4. LogInv'
      BY <1>0, <2>1, <2>2, <2>3 DEF LogInv, FileOK
    <2>5. ReaderInv'
      BY <2>1, <2>2, <2>3 DEF ReaderInv, NoReader, Delivered, StandingIn, Increasing
    <2> QED
      BY <2>4, <2>5 DEF ReplayInv
  <1>8. CASE StartReplay
    <2>1. /\ reader' = [NoReader EXCEPT !.at = "reading"] /\ delivered' = <<>>
          /\ UNCHANGED <<file, records, durable>>
      BY <1>8 DEF StartReplay, logVars
    <2>2. LogInv'
      BY <2>1 DEF ReplayInv, LogInv, FileOK
    <2>3. ReaderInv'
      <3>1. /\ reader'.pos = 0
            /\ reader' \in ReaderState
        BY <2>1 DEF NoReader
      <3>2. Delivered' = {} /\ delivered' \in Seq(Nat) /\ Increasing(delivered')
        BY <2>1 DEF Delivered, Increasing
      <3>3. StandingIn(file, reader.pos)' = {}
        BY <3>1 DEF StandingIn
      <3>4. 0 <= Len(file')
        BY <1>0, <2>1
      <3> QED
        BY <3>1, <3>2, <3>3, <3>4 DEF ReaderInv
    <2> QED
      BY <2>2, <2>3 DEF ReplayInv
  <1>9. CASE ReadLine
    BY <1>9, ReadLineReplayInv
  <1>10. CASE EndOfFile
    BY <1>10, EndsKeeps DEF EndOfFile
  <1>11. CASE UNCHANGED vars
    BY <1>0, <1>1, <1>11 DEF vars, logVars, readVars
  <1> QED
    BY <1>2, <1>3, <1>4, <1>5, <1>6, <1>7, <1>8, <1>9, <1>10, <1>11
    DEF Next, Writing, Fault, Reading

\* The state the replay proofs rest on holds throughout.
THEOREM ReplayInvHolds == Spec => []ReplayInv
  <1>1. Init => ReplayInv
    BY DEF Init, NoReader, ReplayInv, ReaderInv, LogInv, FileOK, InOrder, Delivered,
           StandingIn, Increasing
  <1> QED BY <1>1, NextReplayInv, PTL DEF Spec

\* ReadRecords and replay: whatever befell the file, and however many runs
\* wrote to it, what is handed to the engine is what stands alone on its line
\* up to where the reader is, each once and in the order it was written.
THEOREM ReplayDeliversWhatStands == Spec => []ReplayFaithful
  <1>1. ReplayInv => ReplayFaithful
    <2> SUFFICES ASSUME ReplayInv PROVE ReplayFaithful
      OBVIOUS
    <2>1. file \in Seq(Piece) /\ reader.pos \in 0..Len(file)
      BY DEF ReplayInv, ReaderInv, LogInv, FileOK
    <2>2. Delivered = Standing(SubSeq(file, 1, reader.pos))
      BY <2>1, StandingOfPrefix DEF ReplayInv, ReaderInv
    <2> QED
      BY <2>2 DEF ReplayInv, ReaderInv, Increasing, ReplayFaithful
  <1> QED
    BY <1>1, ReplayInvHolds, PTL

-----------------------------------------------------------------------------
(* The capture of one run. *)

\* What an append to f leaves: nothing new, the text of record n or a piece of
\* it, or the text and its newline.
Grown(f, g, n) ==
    /\ g \in Seq(Piece) /\ \A i \in 1..Len(f) : g[i] = f[i]
    /\ \/ Len(g) = Len(f) /\ g = f
       \/ Len(g) = Len(f) + 1 /\ g[Len(f) + 1] # Newline
       \/ /\ Len(g) = Len(f) + 2 /\ g[Len(f) + 1] = Whole(n) /\ g[Len(f) + 2] = Newline
          /\ Whole(n) # Newline /\ Whole(n).whole

LEMMA Appended ==
    ASSUME NEW f \in Seq(Piece), NEW n \in Nat, n # 0, NEW g,
           NEW piece \in Pieces(n) \cup {<<Whole(n), Newline>>}, g = f \o piece
    PROVE  /\ Grown(f, g, n)
           /\ piece = <<Whole(n), Newline>> => Len(g) = Len(f) + 2
  <1>1. Part(n) # Newline /\ Whole(n) # Newline /\ Whole(n).whole
    BY DEF Part, Whole, Newline
  <1>2. Newline \in Piece /\ Whole(n) \in Piece /\ Part(n) \in Piece
    BY PiecesTyped
  <1>3. CASE piece = <<>>
    <2>1. g = f
      BY <1>3
    <2>2. piece # <<Whole(n), Newline>>
      BY <1>3
    <2> QED BY <2>1, <2>2 DEF Grown
  <1>4. ASSUME NEW x \in Piece, x # Newline, piece = <<x>>
        PROVE  /\ g \in Seq(Piece) /\ \A i \in 1..Len(f) : g[i] = f[i]
               /\ Len(g) = Len(f) + 1 /\ g[Len(f) + 1] # Newline
               /\ piece # <<Whole(n), Newline>>
    BY <1>4
  <1>5. CASE piece = <<Whole(n), Newline>>
    <2>1. /\ g \in Seq(Piece) /\ \A i \in 1..Len(f) : g[i] = f[i]
          /\ Len(g) = Len(f) + 2 /\ g[Len(f) + 1] = Whole(n) /\ g[Len(f) + 2] = Newline
      BY <1>2, <1>5
    <2> QED BY <1>1, <2>1 DEF Grown
  <1>6. \/ piece = <<>> \/ piece = <<Part(n)>> \/ piece = <<Whole(n)>>
        \/ piece = <<Whole(n), Newline>>
    BY DEF Pieces
  <1> QED
    BY <1>1, <1>2, <1>3, <1>4, <1>5, <1>6 DEF Grown

\* Every line but the last is one whole record.
SoundLines(f) ==
    \A i \in 1..Len(f) :
        /\ f[i] # Newline => i = 1 \/ f[i - 1] = Newline
        /\ f[i] = Newline => i # 1 /\ f[i - 1] # Newline /\ f[i - 1].whole

\* In its first run the file is sound; only an Encoder that has failed, or a
\* run that has ended, leaves its last line torn; and so a replay does not
\* meet a line after a malformed one.
OneRunInv ==
    /\ runs \in Nat
    /\ runs = 0 => file = <<>> /\ agent = "down"
    /\ runs <= 1 => SoundLines(file)
    /\ runs <= 1 /\ agent = "up" /\ ~encErr => ~Torn(file)
    /\ runs <= 1 /\ reader.pendingErr => reader.at # "reading"
    /\ runs <= 1 /\ reader.result = "error" => Complete(file) \cap Unknown # {}

LEMMA SoundAppended ==
    ASSUME NEW f \in Seq(Piece), NEW n \in Nat, n # 0, NEW g,
           NEW piece \in Pieces(n) \cup {<<Whole(n), Newline>>}, g = f \o piece,
           SoundLines(f), ~Torn(f)
    PROVE  SoundLines(g) /\ (piece = <<Whole(n), Newline>> => ~Torn(g))
  <1>1. /\ g \in Seq(Piece) /\ \A i \in 1..Len(f) : g[i] = f[i]
        /\ \/ Len(g) = Len(f) /\ g = f
           \/ Len(g) = Len(f) + 1 /\ g[Len(f) + 1] # Newline
           \/ /\ Len(g) = Len(f) + 2 /\ g[Len(f) + 1] = Whole(n) /\ g[Len(f) + 2] = Newline
              /\ Whole(n) # Newline /\ Whole(n).whole
        /\ piece = <<Whole(n), Newline>> => Len(g) = Len(f) + 2
    <2>1. Grown(f, g, n) /\ (piece = <<Whole(n), Newline>> => Len(g) = Len(f) + 2)
      BY Appended
    <2> QED BY <2>1 DEF Grown
  <1>2. Len(f) \in Nat /\ (Len(f) = 0 \/ f[Len(f)] = Newline)
    BY DEF Torn
  <1>3. ASSUME NEW i \in 1..Len(f)
        PROVE  /\ g[i] # Newline => i = 1 \/ g[i - 1] = Newline
               /\ g[i] = Newline => i # 1 /\ g[i - 1] # Newline /\ g[i - 1].whole
    <2>1. i = 1 \/ i - 1 \in 1..Len(f)
      BY <1>2
    <2> QED BY <1>1, <2>1 DEF SoundLines
  <1>4. Len(g) # Len(f) => g[Len(f) + 1] # Newline /\ (Len(f) + 1 = 1 \/ g[(Len(f) + 1) - 1] = Newline)
    <2>1. (Len(f) + 1) - 1 = Len(f) /\ (Len(f) = 0 \/ Len(f) \in 1..Len(f))
      BY <1>2
    <2>2. Len(g) # Len(f) => g[Len(f) + 1] # Newline
      BY <1>1
    <2>3. Len(f) \in 1..Len(f) => g[Len(f)] = f[Len(f)]
      BY <1>1
    <2>4. Len(f) + 1 = 1 \/ g[Len(f)] = Newline
      <3>1. CASE Len(f) = 0
        BY <3>1
      <3>2. CASE Len(f) # 0
        BY <1>2, <2>1, <2>3, <3>2
      <3> QED BY <3>1, <3>2
    <2> QED BY <2>1, <2>2, <2>4
  <1>5. Len(g) = Len(f) + 2 =>
            /\ g[Len(f) + 2] = Newline /\ Len(f) + 2 # 1
            /\ g[(Len(f) + 2) - 1] # Newline /\ g[(Len(f) + 2) - 1].whole
    <2>1. (Len(f) + 2) - 1 = Len(f) + 1 /\ Len(f) + 2 # 1 /\ Len(f) + 2 # Len(f) /\ Len(f) + 2 # Len(f) + 1
      BY <1>2
    <2> QED BY <1>1, <2>1
  <1>6. \A i \in 1..Len(g) :
            \/ i \in 1..Len(f) \/ (i = Len(f) + 1 /\ Len(g) # Len(f))
            \/ (i = Len(f) + 2 /\ Len(g) = Len(f) + 2)
    BY <1>1, <1>2
  <1>7. SoundLines(g)
    BY <1>3, <1>4, <1>5, <1>6 DEF SoundLines
  <1>8. piece = <<Whole(n), Newline>> => ~Torn(g)
    BY <1>1, <1>5 DEF Torn
  <1> QED BY <1>7, <1>8

\* What is complete in the file stays so when more is appended.
LEMMA CompleteStays ==
    ASSUME NEW f \in Seq(Piece), NEW g \in Seq(Piece), Len(f) <= Len(g),
           \A i \in 1..Len(f) : g[i] = f[i]
    PROVE  Complete(f) \subseteq Complete(g)
  <1>1. \A i \in 1..Len(f) : i \in 1..Len(g)
    OBVIOUS
  <1> QED BY <1>1 DEF Complete

\* The writes of the run.
LEMMA AppendKeepsOneRun ==
    ASSUME LogInv, OneRunInv, agent = "up", ~encErr, runs' = runs, reader' = reader,
           NEW piece \in Pieces(records + 1) \cup {<<Whole(records + 1), Newline>>},
           file' = file \o piece,
           agent' = "up" /\ ~encErr' => piece = <<Whole(records + 1), Newline>>
    PROVE  OneRunInv'
  <1> DEFINE n == records + 1
             g == file'
  <1>1. n \in Nat /\ n # 0 /\ file \in Seq(Piece) /\ g = file \o piece
    BY DEF LogInv, FileOK
  <1> HIDE DEF g
  <1>2. runs # 0
    BY DEF OneRunInv
  <1>3. runs <= 1 => SoundLines(g) /\ (piece = <<Whole(n), Newline>> => ~Torn(g))
    <2>1. runs <= 1 => SoundLines(file) /\ ~Torn(file)
      BY DEF OneRunInv
    <2> HIDE DEF n
    <2>2. piece \in Pieces(n) \cup {<<Whole(n), Newline>>}
      BY DEF n
    <2> QED BY <1>1, <2>1, <2>2, SoundAppended
  <1>4. Complete(file) \subseteq Complete(g)
    <2> HIDE DEF n
    <2>1. piece \in Pieces(n) \cup {<<Whole(n), Newline>>}
      BY DEF n
    <2>2. /\ g \in Seq(Piece) /\ \A i \in 1..Len(file) : g[i] = file[i]
          /\ \/ Len(g) = Len(file) \/ Len(g) = Len(file) + 1 \/ Len(g) = Len(file) + 2
      <3>1. Grown(file, g, n)
        BY <1>1, <2>1, Appended
      <3> QED BY <3>1 DEF Grown
    <2>3. Len(file) <= Len(g)
      BY <1>1, <2>2
    <2> QED BY <1>1, <2>2, <2>3, CompleteStays
  <1> QED BY <1>2, <1>3, <1>4 DEF OneRunInv, g

\* A loss of power cuts the file at a line's end or leaves its last line torn.
LEMMA RemainsSound ==
    ASSUME FileOK, NEW f \in Remains, SoundLines(file)
    PROVE  SoundLines(f)
  <1>1. PICK k \in durable..Len(file) :
            LET kept == SubSeq(file, 1, k) IN
            f = kept \/ (k < Len(file) /\ file[k + 1] # Newline
                            /\ f = Append(kept, Part(file[k + 1].rec)))
    BY DEF Remains
  <1> DEFINE kept == SubSeq(file, 1, k)
  <1>2. /\ k \in Nat /\ k <= Len(file) /\ kept \in Seq(Piece) /\ Len(kept) = k
        /\ \A i \in 1..k : kept[i] = file[i]
    BY DEF FileOK
  <1>3. \A i \in 1..k : i \in 1..Len(file) /\ (i = 1 \/ i - 1 \in 1..k)
    BY <1>2 DEF FileOK
  <1> HIDE DEF kept
  <1>4. SoundLines(kept)
    BY <1>2, <1>3 DEF SoundLines
  <1>5. CASE /\ k < Len(file) /\ file[k + 1] # Newline
             /\ f = Append(kept, Part(file[k + 1].rec))
    <2> DEFINE x == Part(file[k + 1].rec)
    <2>1. x # Newline /\ x \in Piece
      <3>1. k + 1 \in 1..Len(file) /\ file[k + 1] \in Piece
        BY <1>2, <1>5 DEF FileOK
      <3> QED BY <3>1 DEF Part, Newline, Piece
    <2> HIDE DEF x
    <2>2. /\ Len(f) = k + 1 /\ f[k + 1] = x /\ \A i \in 1..k : f[i] = kept[i]
      BY <1>2, <1>5, <2>1 DEF x
    <2>3. k + 1 = 1 \/ f[(k + 1) - 1] = Newline
      <3>1. k + 1 \in 1..Len(file) /\ (k + 1) - 1 = k
        BY <1>2, <1>5 DEF FileOK
      <3>2. k + 1 = 1 \/ file[k] = Newline
        BY <1>5, <3>1 DEF SoundLines
      <3>3. CASE k = 0
        BY <3>3
      <3>4. CASE k # 0
        <4>1. k \in 1..k
          BY <1>2, <3>4
        <4> QED BY <1>2, <2>2, <3>1, <3>2, <3>4, <4>1
      <3> QED BY <3>3, <3>4
    <2>4. \A i \in 1..Len(f) : i \in 1..k \/ i = k + 1
      BY <1>2, <2>2
    <2>5. ASSUME NEW i \in 1..k
          PROVE  /\ f[i] # Newline => i = 1 \/ f[i - 1] = Newline
                 /\ f[i] = Newline => i # 1 /\ f[i - 1] # Newline /\ f[i - 1].whole
      BY <1>2, <1>3, <1>4, <2>2 DEF SoundLines
    <2> QED BY <2>1, <2>2, <2>3, <2>4, <2>5 DEF SoundLines
  <1> QED BY <1>1, <1>4, <1>5 DEF kept

\* In a sound file a line is one piece, and one that does not parse is the
\* last.
LEMMA SoundLine ==
    ASSUME NEW f \in Seq(Piece), SoundLines(f), NEW p \in 0..Len(f), p < Len(f),
           p = 0 \/ f[p] = Newline, NEW e \in p..Len(f), EndsLine(f, p, e)
    PROVE  e = p + 1 /\ e \in 1..Len(f) /\ f[e] # Newline /\ (e < Len(f) => f[e].whole)
  <1>1. p \in Nat /\ Len(f) \in Nat /\ e \in Nat /\ p + 1 \in 1..Len(f) /\ (p + 1) - 1 = p
    OBVIOUS
  <1>2. f[p + 1] # Newline
    BY <1>1 DEF SoundLines
  <1>3. e # p
    BY <1>1, <1>2 DEF EndsLine
  <1>4. ~(p + 2 <= e)
    <2> SUFFICES ASSUME p + 2 <= e PROVE FALSE
      OBVIOUS
    <2>1. p + 2 \in (p + 1)..e /\ p + 2 \in 1..Len(f) /\ (p + 2) - 1 = p + 1 /\ p + 2 # 1
      BY <1>1
    <2>2. f[p + 2] # Newline
      BY <2>1 DEF EndsLine
    <2> QED BY <1>2, <2>1, <2>2 DEF SoundLines
  <1>5. e = p + 1
    BY <1>1, <1>3, <1>4
  <1>6. e < Len(f) => f[e].whole
    <2> SUFFICES ASSUME e < Len(f) PROVE f[e].whole
      OBVIOUS
    <2>1. e + 1 \in 1..Len(f) /\ (e + 1) - 1 = e /\ e # Len(f)
      BY <1>1
    <2>2. f[e + 1] = Newline
      BY <2>1 DEF EndsLine
    <2> QED BY <2>1, <2>2 DEF SoundLines
  <1> QED BY <1>1, <1>2, <1>5, <1>6

\* One line read of the capture of one run.
LEMMA ReadLineOneRun == ReplayInv /\ OneRunInv /\ ReadLine => OneRunInv'
  <1> SUFFICES ASSUME ReplayInv, OneRunInv, ReadLine PROVE OneRunInv'
    OBVIOUS
  <1> DEFINE p == reader.pos
             e == LineEnd(p)
             line == SubSeq(file, p + 1, e)
  <1>1. /\ reader.at = "reading" /\ p \in Nat /\ p < Len(file)
        /\ p = 0 \/ file[p] = Newline
        /\ file \in Seq(Piece) /\ FileOK /\ p \in 0..Len(file)
    BY DEF ReadLine, ReplayInv, ReaderInv, LogInv, FileOK
  <1>2. EndsLine(file, p, e) /\ e \in p..Len(file)
    BY <1>1, LineEndIsEnd DEF EndsLine
  <1>3. UNCHANGED <<runs, file, agent, encErr>>
    BY DEF ReadLine, logVars
  <1>4. reader \in ReaderState
    BY DEF ReplayInv, ReaderInv
  <1>5. CASE runs > 1
    BY <1>3, <1>5 DEF OneRunInv
  <1>6. CASE runs <= 1
    <2>1. SoundLines(file) /\ ~reader.pendingErr
      BY <1>1, <1>6 DEF OneRunInv
    <2>2. e = p + 1 /\ e \in 1..Len(file) /\ file[e] # Newline /\ (e < Len(file) => file[e].whole)
      BY <1>1, <1>2, <2>1, SoundLine
    <2>3. Len(line) = e - p /\ line[1] = file[e]
      BY <1>1, <1>2, <2>2, LineOf
    <2>4. \/ ReadMalformed(line, e) \/ ReadUnknown(line) \/ ReadEvent(line, e)
      BY <2>1 DEF ReadLine, ReadCorrupt
    <2> HIDE DEF e, line
    <2>5. Len(line) = 1
      BY <1>1, <2>2, <2>3
    <2>6. CASE ReadMalformed(line, e)
      <3>1. ~(e < Len(file))
        BY <2>2, <2>3, <2>5, <2>6 DEF ReadMalformed, Parses
      <3>2. reader' = [[reader EXCEPT !.pos = e, !.at = "ending"] EXCEPT !.pendingErr = TRUE]
        BY <2>6, <3>1 DEF ReadMalformed, Past
      <3>3. reader'.at = "ending" /\ reader'.result = reader.result
        BY <1>4, <3>2
      <3> QED BY <1>3, <3>3 DEF OneRunInv
    <2>7. CASE ReadUnknown(line)
      <3>1. reader'.at = "done"
        BY <1>4, <2>7 DEF ReadUnknown, Ends
      <3>2. file[e].whole /\ file[e].rec \in Unknown
        BY <2>3, <2>7 DEF ReadUnknown, Parses
      <3>3. file[e].rec # 0
        BY <2>2 DEF ReplayInv, LogInv, InOrder
      <3>4. file[e].rec \in Complete(file)
        BY <2>2, <3>2, <3>3 DEF Complete
      <3> QED BY <1>3, <3>1, <3>2, <3>4 DEF OneRunInv
    <2>8. CASE ReadEvent(line, e)
      <3>1. reader' = Past(e) \/ reader' = Ends("interrupted")
        BY <2>8 DEF ReadEvent
      <3>2. ~reader'.pendingErr /\ (reader'.result = reader.result \/ reader'.result = "interrupted")
        BY <1>4, <2>1, <3>1 DEF Past, Ends
      <3> QED BY <1>3, <3>2 DEF OneRunInv
    <2> QED BY <2>4, <2>6, <2>7, <2>8
  <1> QED BY <1>5, <1>6 DEF OneRunInv

LEMMA NextOneRun == ReplayInv /\ OneRunInv /\ [Next]_vars => OneRunInv'
  <1> SUFFICES ASSUME ReplayInv, OneRunInv, [Next]_vars PROVE OneRunInv'
    OBVIOUS
  <1>1. LogInv /\ FileOK
    BY DEF ReplayInv, LogInv
  <1>2. CASE Open
    <2>1. runs' = runs + 1 /\ file' = file /\ reader' = reader /\ agent = "down"
      BY <1>2 DEF Open, Opened, readVars
    <2>2. CASE runs = 0
      <3>1. file = <<>>
        BY <2>2 DEF OneRunInv
      <3>2. ~Torn(file) /\ SoundLines(file) /\ runs <= 1 /\ runs' = 1
        BY <2>1, <2>2, <3>1 DEF Torn, SoundLines
      <3> QED BY <2>1, <3>2 DEF OneRunInv, Torn
    <2>3. CASE runs # 0
      <3>1. runs' \in Nat /\ runs' # 0 /\ ~(runs' <= 1)
        BY <2>1, <2>3 DEF OneRunInv
      <3> QED BY <3>1 DEF OneRunInv
    <2> QED BY <2>2, <2>3
  <1>3. CASE Write
    <2>1. <<Whole(records + 1), Newline>> \in Pieces(records + 1) \cup {<<Whole(records + 1), Newline>>}
      OBVIOUS
    <2> QED BY <1>1, <1>3, <2>1, AppendKeepsOneRun DEF Write, readVars
  <1>4. CASE WriteFails
    <2>1. PICK piece \in Pieces(records + 1) : file' = file \o piece
      BY <1>4 DEF WriteFails
    <2>2. /\ agent = "up" /\ ~encErr /\ encErr' = TRUE /\ UNCHANGED <<runs, reader>>
      BY <1>4 DEF WriteFails, EncErrAfter, readVars
    <2> QED BY <1>1, <2>1, <2>2, AppendKeepsOneRun
  <1>5. CASE WriteRefused \/ Close
    <2>1. UNCHANGED <<runs, file, encErr, reader>> /\ agent' \in {agent, "down"}
      BY <1>5 DEF WriteRefused, Close, readVars
    <2> QED BY <2>1 DEF OneRunInv, Torn
  <1>6. CASE Killed
    <2>1. agent = "up" /\ agent' = "down" /\ UNCHANGED <<runs, reader, encErr>>
      BY <1>6 DEF Killed, readVars
    <2>2. CASE UNCHANGED <<file, records>>
      BY <2>1, <2>2 DEF OneRunInv
    <2>3. CASE /\ ~encErr /\ records' = records + 1
               /\ \E piece \in Pieces(records + 1) \cup {<<Whole(records + 1), Newline>>} :
                     file' = file \o piece
      BY <1>1, <2>1, <2>3, AppendKeepsOneRun
    <2> QED BY <1>6, <2>2, <2>3 DEF Killed
  <1>7. CASE PowerLoss
    <2>1. PICK f \in Remains : file' = f
      BY <1>7 DEF PowerLoss
    <2>2. agent' = "down" /\ reader' = NoReader /\ runs' = runs
      BY <1>7 DEF PowerLoss
    <2>3. runs <= 1 => SoundLines(file')
      BY <1>1, <2>1, RemainsSound DEF OneRunInv
    <2>4. runs = 0 => file' = <<>>
      <3> SUFFICES ASSUME runs = 0 PROVE file' = <<>>
        OBVIOUS
      <3>1. file = <<>> /\ Len(file) = 0 /\ durable = 0
        BY <1>1 DEF OneRunInv, FileOK
      <3>2. PICK k \in durable..Len(file) :
                f = SubSeq(file, 1, k) \/ k < Len(file)
        BY <2>1 DEF Remains
      <3>3. k = 0 /\ f = SubSeq(<<>>, 1, 0)
        BY <3>1, <3>2
      <3> QED BY <2>1, <3>3
    <2>5. ~reader'.pendingErr /\ reader'.result # "error"
      BY <2>2 DEF NoReader
    <2> QED BY <2>2, <2>3, <2>4, <2>5 DEF OneRunInv
  <1>8. CASE StartReplay
    <2>1. /\ reader' = [NoReader EXCEPT !.at = "reading"] /\ UNCHANGED <<runs, file, agent, encErr>>
      BY <1>8 DEF StartReplay, logVars
    <2>2. ~reader'.pendingErr /\ reader'.result # "error"
      BY <2>1 DEF NoReader
    <2> QED BY <2>1, <2>2 DEF OneRunInv
  <1>9. CASE ReadLine
    BY <1>9, ReadLineOneRun
  <1>10. CASE EndOfFile
    <2>1. reader' = Ends("ok") /\ UNCHANGED <<runs, file, agent, encErr>> /\ reader \in ReaderState
      BY <1>10 DEF EndOfFile, logVars, ReplayInv, ReaderInv
    <2>2. reader'.at = "done" /\ reader'.result = "ok"
      BY <2>1 DEF Ends
    <2> QED BY <2>1, <2>2 DEF OneRunInv
  <1>11. CASE UNCHANGED vars
    BY <1>11 DEF vars, logVars, readVars, OneRunInv, Torn
  <1> QED
    BY <1>2, <1>3, <1>4, <1>5, <1>6, <1>7, <1>8, <1>9, <1>10, <1>11
    DEF Next, Writing, Fault, Reading

\* ReadRecords of the capture of a single run, however it ended: the only
\* error it can meet is a syscall this build does not know, because nothing
\* is ever written after a torn line (json.Encoder keeps its first error).
THEOREM SingleRunReadsBack == Spec => []OneRunReadsBack
  <1>1. Init => OneRunInv
    BY DEF Init, NoReader, OneRunInv, SoundLines, Torn
  <1>2. OneRunInv => OneRunReadsBack
    BY DEF OneRunInv, OneRunReadsBack
  <1> QED BY <1>1, <1>2, ReplayInvHolds, NextOneRun, PTL DEF Spec

-----------------------------------------------------------------------------
(* What a tear costs. *)

\* The positions where a line begins in the middle of another.
Glued(f) == {i \in 1..Len(f) : i # 1 /\ f[i] # Newline /\ f[i - 1] # Newline}

\* Record n is in f with its newline.
EndedIn(f, n) == \E i \in 1..Len(f) : i + 1 \in 1..Len(f) /\ f[i] = Whole(n) /\ f[i + 1] = Newline

\* Each line glued to another has a tear of its own, and so has a torn end:
\* the first of them was torn, and the tear is not at the end any more.
TearInv ==
    /\ tears \in Nat
    /\ acked \subseteq Nat \ {0}
    /\ \A n \in acked : EndedIn(file, n)
    /\ Cardinality(Glued(file)) + (IF Torn(file) THEN 1 ELSE 0) <= tears

LEMMA GluedFinite ==
    ASSUME NEW f \in Seq(Piece)
    PROVE  IsFiniteSet(Glued(f)) /\ Cardinality(Glued(f)) \in Nat
  <1>1. Len(f) \in Nat /\ Glued(f) \subseteq 1..Len(f)
    BY DEF Glued
  <1>2. IsFiniteSet(1..Len(f))
    BY <1>1, FS_Interval
  <1> QED BY <1>1, <1>2, FS_Subset, FS_CardinalityType

\* A record that is in the file with its newline, and does not stand alone on
\* its line, is glued to what was there before it.
LEMMA LostIsGlued ==
    ASSUME NEW f \in Seq(Piece), NEW n \in Nat, n # 0, EndedIn(f, n), n \notin Standing(f)
    PROVE  \E i \in Glued(f) : f[i].rec = n
  <1>1. PICK i \in 1..Len(f) : i + 1 \in 1..Len(f) /\ f[i] = Whole(n) /\ f[i + 1] = Newline
    BY DEF EndedIn
  <1>2. f[i] # Newline /\ f[i].whole /\ f[i].rec = n
    BY <1>1 DEF Whole, Newline
  <1>3. ~Alone(f, i)
    BY <1>2 DEF Standing
  <1>4. i # 1 /\ f[i - 1] # Newline
    BY <1>1, <1>2, <1>3 DEF Alone
  <1> QED BY <1>2, <1>4 DEF Glued

\* So no more are lost than lines are glued.
LEMMA LostCount ==
    ASSUME NEW f \in Seq(Piece), NEW A \in SUBSET (Nat \ {0}), \A n \in A : EndedIn(f, n)
    PROVE  /\ IsFiniteSet(A \ Standing(f))
           /\ Cardinality(A \ Standing(f)) <= Cardinality(Glued(f))
           /\ Cardinality(A \ Standing(f)) \in Nat
  <1> DEFINE G == Glued(f)
             number == [i \in G |-> f[i].rec]
             R == {f[i].rec : i \in G}
             L == A \ Standing(f)
  <1>1. L \subseteq R
    BY LostIsGlued
  <1>2. IsFiniteSet(G) /\ Cardinality(G) \in Nat
    BY GluedFinite
  <1>3. number \in Surjection(G, R)
    <2> HIDE DEF G
    <2> QED BY DEF Surjection
  <1> HIDE DEF G, number, R, L
  <1>4. IsFiniteSet(R) /\ Cardinality(R) <= Cardinality(G)
    BY <1>2, <1>3, FS_Surjection
  <1>5. IsFiniteSet(L) /\ Cardinality(L) <= Cardinality(R)
    BY <1>1, <1>4, FS_Subset
  <1>6. Cardinality(L) \in Nat /\ Cardinality(R) \in Nat
    BY <1>4, <1>5, FS_CardinalityType
  <1>7. Cardinality(L) <= Cardinality(G)
    BY <1>2, <1>4, <1>5, <1>6
  <1> QED BY <1>5, <1>6, <1>7 DEF L, G

\* An append glues at most the line it begins, and only to a torn end.
LEMMA GluedAppended ==
    ASSUME NEW f \in Seq(Piece), NEW g, NEW n, Grown(f, g, n)
    PROVE  /\ IF Torn(f) THEN Cardinality(Glued(g)) <= Cardinality(Glued(f)) + 1
                         ELSE Cardinality(Glued(g)) <= Cardinality(Glued(f))
           /\ Cardinality(Glued(f)) \in Nat /\ Cardinality(Glued(g)) \in Nat
           /\ g = f => Cardinality(Glued(g)) <= Cardinality(Glued(f))
           /\ Len(g) = Len(f) + 2 => ~Torn(g)
  <1> DEFINE m == Len(f)
  <1>1. /\ m \in Nat /\ g \in Seq(Piece) /\ \A i \in 1..m : g[i] = f[i]
        /\ \/ Len(g) = m
           \/ Len(g) = m + 1
           \/ Len(g) = m + 2 /\ g[m + 2] = Newline
    BY DEF Grown
  <1>2. \A i \in Glued(g) : i \in Glued(f) \/ (i = m + 1 /\ Torn(f))
    <2> SUFFICES ASSUME NEW i \in Glued(g) PROVE i \in Glued(f) \/ (i = m + 1 /\ Torn(f))
      OBVIOUS
    <2>1. i \in 1..Len(g) /\ i # 1 /\ g[i] # Newline /\ g[i - 1] # Newline
      BY DEF Glued
    <2>2. CASE i \in 1..m
      <3>1. i - 1 \in 1..m
        BY <1>1, <2>1, <2>2
      <3> QED BY <1>1, <2>1, <2>2, <3>1 DEF Glued
    <2>3. CASE i = m + 1
      <3>1. i - 1 = m /\ m \in 1..m /\ m # 0
        BY <1>1, <2>1, <2>3
      <3>2. f[m] # Newline
        BY <1>1, <2>1, <3>1
      <3> QED BY <2>3, <3>1, <3>2 DEF Torn
    <2>4. i \in 1..m \/ i = m + 1
      BY <1>1, <2>1
    <2> QED BY <2>2, <2>3, <2>4
  <1>3. /\ IsFiniteSet(Glued(f)) /\ Cardinality(Glued(f)) \in Nat
        /\ IsFiniteSet(Glued(g)) /\ Cardinality(Glued(g)) \in Nat
    BY <1>1, GluedFinite
  <1>4. ASSUME Torn(f) PROVE Cardinality(Glued(g)) <= Cardinality(Glued(f)) + 1
    <2> DEFINE H == Glued(f) \cup {m + 1}
    <2>1. Glued(g) \subseteq H
      BY <1>2
    <2>2. IsFiniteSet(H) /\ Cardinality(H) <= Cardinality(Glued(f)) + 1 /\ Cardinality(H) \in Nat
      <3>1. /\ IsFiniteSet(H)
            /\ Cardinality(H) = IF m + 1 \in Glued(f) THEN Cardinality(Glued(f)) ELSE Cardinality(Glued(f)) + 1
        BY <1>3, FS_AddElement
      <3> HIDE DEF H
      <3> QED BY <1>3, <3>1
    <2> HIDE DEF H
    <2>3. Cardinality(Glued(g)) <= Cardinality(H)
      BY <2>1, <2>2, FS_Subset
    <2> QED BY <1>3, <2>2, <2>3
  <1>5. ASSUME ~Torn(f) PROVE Cardinality(Glued(g)) <= Cardinality(Glued(f))
    <2>1. Glued(g) \subseteq Glued(f)
      BY <1>2, <1>5
    <2> QED BY <1>3, <2>1, FS_Subset
  <1>6. Len(g) = m + 2 => ~Torn(g)
    <2>1. m + 2 # m /\ m + 2 # m + 1
      BY <1>1
    <2> QED BY <1>1, <2>1 DEF Torn
  <1>7. g = f => Cardinality(Glued(g)) <= Cardinality(Glued(f))
    BY <1>3
  <1> QED BY <1>3, <1>4, <1>5, <1>6, <1>7

\* A write, whole or cut short.
LEMMA AppendKeepsTears ==
    ASSUME LogInv, TearInv,
           NEW piece \in Pieces(records + 1) \cup {<<Whole(records + 1), Newline>>},
           file' = file \o piece,
           \/ tears' = TearsOf(file') /\ acked' = acked
           \/ /\ piece = <<Whole(records + 1), Newline>>
              /\ tears' = tears /\ acked' = acked \cup {records + 1}
    PROVE  TearInv'
  <1> DEFINE n == records + 1
             g == file'
             G == Cardinality(Glued(file))
             H == Cardinality(Glued(g))
  <1>1. n \in Nat /\ n # 0 /\ file \in Seq(Piece) /\ g = file \o piece
        /\ piece \in Pieces(n) \cup {<<Whole(n), Newline>>}
    BY DEF LogInv, FileOK
  <1> HIDE DEF n, g
  <1>2. Grown(file, g, n) /\ (piece = <<Whole(n), Newline>> => Len(g) = Len(file) + 2)
    BY <1>1, Appended
  <1>3. /\ IF Torn(file) THEN H <= G + 1 ELSE H <= G
        /\ G \in Nat /\ H \in Nat
        /\ Len(g) = Len(file) + 2 => ~Torn(g)
    BY <1>1, <1>2, GluedAppended
  <1>4. tears \in Nat /\ G + (IF Torn(file) THEN 1 ELSE 0) <= tears
    BY DEF TearInv
  <1> HIDE DEF G, H
  <1>5. H <= tears
    BY <1>3, <1>4
  <1>6. \/ tears' = IF Torn(g) THEN tears + 1 ELSE tears
        \/ tears' = tears /\ ~Torn(g)
    BY <1>2, <1>3 DEF TearsOf, g, n
  <1>7. tears' \in Nat /\ H + (IF Torn(g) THEN 1 ELSE 0) <= tears'
    BY <1>3, <1>4, <1>5, <1>6
  <1>8. \A x \in acked : EndedIn(g, x)
    <2> SUFFICES ASSUME NEW x \in acked PROVE EndedIn(g, x)
      OBVIOUS
    <2>1. PICK i \in 1..Len(file) :
              i + 1 \in 1..Len(file) /\ file[i] = Whole(x) /\ file[i + 1] = Newline
      BY DEF TearInv, EndedIn
    <2>2. \A j \in 1..Len(file) : j \in 1..Len(g) /\ g[j] = file[j]
      <3>1. \A j \in 1..Len(file) : g[j] = file[j]
        BY <1>2 DEF Grown
      <3>2. Len(file) \in Nat /\ Len(g) \in {Len(file), Len(file) + 1, Len(file) + 2}
        BY <1>1, <1>2 DEF Grown
      <3> QED BY <3>1, <3>2
    <2> QED BY <2>1, <2>2 DEF EndedIn
  <1>9. piece = <<Whole(n), Newline>> => EndedIn(g, n)
    <2> SUFFICES ASSUME piece = <<Whole(n), Newline>> PROVE EndedIn(g, n)
      OBVIOUS
    <2> DEFINE k == Len(file) + 1
    <2>1. Len(file) \in Nat /\ Len(g) = Len(file) + 2
      BY <1>1, <1>2
    <2>2. g[Len(file) + 1] = Whole(n) /\ g[Len(file) + 2] = Newline
      BY <1>2, <2>1 DEF Grown
    <2>3. k \in 1..Len(g) /\ k + 1 \in 1..Len(g) /\ k + 1 = Len(file) + 2
      BY <2>1
    <2> QED BY <2>2, <2>3 DEF EndedIn
  <1>10. acked' \subseteq Nat \ {0} /\ \A x \in acked' : EndedIn(g, x)
    BY <1>1, <1>8, <1>9 DEF TearInv, n
  <1> QED BY <1>7, <1>10 DEF TearInv, H, g

\* A loss of power glues nothing.
LEMMA RemainsGlued ==
    ASSUME FileOK, NEW f \in Remains
    PROVE  Glued(f) \subseteq Glued(file)
  <1>1. PICK k \in durable..Len(file) :
            LET kept == SubSeq(file, 1, k) IN
            f = kept \/ (k < Len(file) /\ file[k + 1] # Newline
                            /\ f = Append(kept, Part(file[k + 1].rec)))
    BY DEF Remains
  <1> DEFINE kept == SubSeq(file, 1, k)
  <1>2. /\ k \in Nat /\ k <= Len(file) /\ kept \in Seq(Piece) /\ Len(kept) = k
        /\ \A i \in 1..k : kept[i] = file[i]
    BY DEF FileOK
  <1> HIDE DEF kept
  <1>3. /\ \A i \in 1..k : f[i] = file[i]
        /\ Len(f) = k \/ (Len(f) = k + 1 /\ k < Len(file) /\ file[k + 1] # Newline)
    <2>1. CASE f = kept
      BY <1>2, <2>1
    <2>2. CASE /\ k < Len(file) /\ file[k + 1] # Newline
               /\ f = Append(kept, Part(file[k + 1].rec))
      <3> DEFINE x == Part(file[k + 1].rec)
      <3>1. x \in Piece
        <4>1. k + 1 \in 1..Len(file) /\ file[k + 1] \in Piece
          BY <1>2, <2>2 DEF FileOK
        <4> QED BY <4>1 DEF Part, Piece
      <3> HIDE DEF x
      <3>2. Len(f) = k + 1 /\ \A i \in 1..k : f[i] = kept[i]
        BY <1>2, <2>2, <3>1 DEF x
      <3> QED BY <1>2, <2>2, <3>2
    <2> QED BY <1>1, <2>1, <2>2 DEF kept
  <1> SUFFICES ASSUME NEW i \in Glued(f) PROVE i \in Glued(file)
    OBVIOUS
  <1>4. i \in 1..Len(f) /\ i # 1 /\ f[i] # Newline /\ f[i - 1] # Newline
    BY DEF Glued
  <1>5. i - 1 \in 1..k /\ (i \in 1..k \/ i = k + 1) /\ i \in 1..Len(file)
    BY <1>2, <1>3, <1>4 DEF FileOK
  <1>6. file[i - 1] # Newline
    BY <1>3, <1>4, <1>5
  <1>7. file[i] # Newline
    <2>1. CASE i \in 1..k
      BY <1>3, <1>4, <2>1
    <2>2. CASE i = k + 1
      <3>1. Len(f) # k
        BY <1>2, <1>4, <2>2
      <3> QED BY <1>3, <2>2, <3>1
    <2> QED BY <1>5, <2>1, <2>2
  <1> QED BY <1>4, <1>5, <1>6, <1>7 DEF Glued

LEMMA EndedIs ==
    ASSUME NEW f \in Seq(Piece), NEW n \in Ended(f)
    PROVE  EndedIn(f, n)
  <1>1. PICK i \in 1..(Len(f) - 1) : f[i].whole /\ f[i + 1] = Newline /\ f[i].rec = n
    BY DEF Ended
  <1>2. i \in 1..Len(f) /\ i + 1 \in 1..Len(f)
    OBVIOUS
  <1>3. f[i] \in Piece
    BY <1>2
  <1>4. f[i] = Whole(n)
    BY <1>1, <1>3 DEF Piece, Whole
  <1> QED BY <1>1, <1>2, <1>4 DEF EndedIn

LEMMA NextTearInv == LogInv /\ TearInv /\ [Next]_vars => TearInv'
  <1> SUFFICES ASSUME LogInv, TearInv, [Next]_vars PROVE TearInv'
    OBVIOUS
  <1>1. CASE UNCHANGED <<file, acked, tears>>
    BY <1>1 DEF TearInv
  <1>2. CASE Open \/ WriteRefused \/ Close
    BY <1>1, <1>2 DEF Open, Opened, WriteRefused, Close
  <1>3. CASE Write
    <2>1. <<Whole(records + 1), Newline>> \in Pieces(records + 1) \cup {<<Whole(records + 1), Newline>>}
      OBVIOUS
    <2> QED BY <1>3, <2>1, AppendKeepsTears DEF Write
  <1>4. CASE WriteFails
    <2>1. PICK piece \in Pieces(records + 1) : file' = file \o piece
      BY <1>4 DEF WriteFails
    <2>2. tears' = TearsOf(file') /\ acked' = acked
      BY <1>4 DEF WriteFails
    <2> QED BY <2>1, <2>2, AppendKeepsTears
  <1>5. CASE Killed
    <2>1. tears' = TearsOf(file') /\ acked' = acked
      BY <1>5 DEF Killed
    <2>2. CASE file' = file
      <3>1. <<>> \in Pieces(records + 1) \cup {<<Whole(records + 1), Newline>>}
        BY DEF Pieces
      <3>2. file' = file \o <<>>
        BY <2>2 DEF LogInv, FileOK
      <3> QED BY <2>1, <3>1, <3>2, AppendKeepsTears
    <2>3. CASE \E piece \in Pieces(records + 1) \cup {<<Whole(records + 1), Newline>>} :
                   file' = file \o piece
      BY <2>1, <2>3, AppendKeepsTears
    <2> QED BY <1>5, <2>2, <2>3 DEF Killed
  <1>6. CASE PowerLoss
    <2>1. PICK f \in Remains : /\ file' = f /\ acked' = acked \cap Ended(f)
                               /\ tears' = TearsOf(f)
      BY <1>6 DEF PowerLoss
    <2> DEFINE G == Cardinality(Glued(file))
               H == Cardinality(Glued(f))
    <2>2. FileOK /\ f \in Seq(Piece) /\ file \in Seq(Piece)
      BY <2>1, RemainsKeepDisk DEF LogInv, FileOK
    <2>3. H <= G /\ H \in Nat /\ G \in Nat
      <3>1. Glued(f) \subseteq Glued(file)
        BY <2>2, RemainsGlued
      <3>2. IsFiniteSet(Glued(file)) /\ G \in Nat /\ H \in Nat
        BY <2>2, GluedFinite
      <3> QED BY <3>1, <3>2, FS_Subset
    <2>4. tears \in Nat /\ G + (IF Torn(file) THEN 1 ELSE 0) <= tears
      BY DEF TearInv
    <2> HIDE DEF G, H
    <2>5. tears' = IF Torn(f) THEN tears + 1 ELSE tears
      BY <2>1 DEF TearsOf
    <2>6. G <= tears
      BY <2>3, <2>4
    <2>7. tears' \in Nat /\ H + (IF Torn(f) THEN 1 ELSE 0) <= tears'
      BY <2>3, <2>4, <2>5, <2>6
    <2>8. acked' \subseteq Nat \ {0} /\ \A n \in acked' : EndedIn(f, n)
      BY <2>1, <2>2, EndedIs DEF TearInv
    <2> QED BY <2>1, <2>7, <2>8 DEF TearInv, H
  <1>7. CASE Reading \/ UNCHANGED vars
    BY <1>1, <1>7 DEF Reading, StartReplay, ReadLine, EndOfFile, vars, logVars
  <1> QED
    BY <1>2, <1>3, <1>4, <1>5, <1>6, <1>7 DEF Next, Writing, Fault

\* Open appends to whatever is there, so the first record of a run can be
\* written into a torn line: however often runs are killed, disks fill and
\* power is lost, the records acknowledged and not readable any more are no
\* more than the tears.
THEOREM TearsAreTheOnlyCost == Spec => []TearCostsOne
  <1>1. Init => TearInv
    <2> SUFFICES ASSUME Init PROVE TearInv
      OBVIOUS
    <2>1. file = <<>> /\ acked = {} /\ tears = 0
      BY DEF Init
    <2>2. Glued(file) = {} /\ ~Torn(file)
      BY <2>1 DEF Glued, Torn
    <2>3. Cardinality(Glued(file)) = 0
      BY <2>2, FS_EmptySet
    <2> QED BY <2>1, <2>2, <2>3 DEF TearInv
  <1>2. LogInv /\ TearInv => TearCostsOne
    <2> SUFFICES ASSUME LogInv, TearInv PROVE Cardinality(acked \ Standing(file)) <= tears
      BY DEF TearCostsOne
    <2> DEFINE L == Cardinality(acked \ Standing(file))
               G == Cardinality(Glued(file))
    <2>1. L <= G /\ L \in Nat
      BY LostCount DEF TearInv, LogInv, FileOK
    <2>2. G \in Nat
      BY GluedFinite DEF LogInv, FileOK
    <2>3. tears \in Nat /\ G + (IF Torn(file) THEN 1 ELSE 0) <= tears
      BY DEF TearInv
    <2> HIDE DEF L, G
    <2>4. L <= tears
      BY <2>1, <2>2, <2>3
    <2> QED BY <2>4 DEF L
  <1>3. ReplayInv => LogInv
    BY DEF ReplayInv
  <1> QED BY <1>1, <1>2, <1>3, ReplayInvHolds, NextTearInv, PTL DEF Spec
=============================================================================

------------------------------ MODULE DiskProofs ------------------------------
(***************************************************************************)
(* Disk files are well-formed whatever happens to them, and a disk is a    *)
(* store of blocks, for any files, sizes, row counts and data.             *)
(***************************************************************************)
EXTENDS Disk, FiniteSetTheorems, SequenceTheorems, WellFoundedInduction, TLAPS

\* A set of naturals that is not empty has a least element.
LEMMA LeastNat ==
  ASSUME NEW T \in SUBSET Nat, T # {}
  PROVE  \E m \in T : \A k \in T : m <= k
<1>1. IsWellFoundedOn({ss \in Nat \X Nat : ss[1] < ss[2]}, Nat)
  BY NatLessThanWellFounded DEF OpToRel
<1>2. PICK m \in T : \A k \in T : <<k, m>> \notin {ss \in Nat \X Nat : ss[1] < ss[2]}
  BY <1>1, WFMin
<1>3. \A k \in T : ~ (k < m)
  BY <1>2
<1> QED BY <1>3

-----------------------------------------------------------------------------
(* What the readers of a file make of its lines.                           *)

\* FlattenSeq drops the empty ones of singletons.
LEMMA FlattenSkipping ==
  ASSUME NEW S, NEW t \in Seq(S), NEW d \in Nat, NEW ss,
         ss = [i \in DOMAIN t |-> IF i <= d THEN <<>> ELSE <<t[i]>>]
  PROVE  FlattenSeq(ss) = SubSeq(t, d + 1, Len(t))
<1>0. Len(t) \in Nat /\ DOMAIN t = 1 .. Len(t) /\ \A i \in 1 .. Len(t) : t[i] \in S
  BY LenProperties, ElementOfSeq
<1>1. Len(ss) = Len(t) /\ \A i \in 1 .. Len(t) : ss[i] = IF i <= d THEN <<>> ELSE <<t[i]>>
  BY <1>0
<1>2. CASE Len(t) = 0
  <2>1. ss = <<>>
    BY <1>0, <1>2
  <2>2. FlattenSeq(ss) = <<>>
    BY <1>1, <1>2, <2>1 DEF FlattenSeq
  <2>3. SubSeq(t, d + 1, Len(t)) = <<>>
    <3>1. d + 1 \in Int /\ Len(t) \in Int /\ Len(t) < d + 1
      BY <1>2
    <3> QED BY <3>1, SubSeqEmpty
  <2> QED BY <2>2, <2>3
<1>3. CASE Len(t) # 0
  <2> DEFINE s(i) == SubSeq(t, d + 1, i)
  <2>1. \A i \in 0 .. Len(t) : i <= d => s(i) = <<>>
    BY <1>0, SubSeqEmpty
  <2>2. ss[1] = s(1)
    <3>1. CASE d = 0
      <4>1. /\ s(1) \in Seq(S) /\ Len(s(1)) = 1 /\ s(1)[1] = t[1]
        BY <1>0, <1>3, <3>1, SubSeqProperties
      <4>2. <<t[1]>> \in Seq(S) /\ Len(<<t[1]>>) = 1 /\ <<t[1]>>[1] = t[1]
        BY <1>0, <1>3
      <4>3. s(1) = <<t[1]>>
        <5> DEFINE one == <<t[1]>>
        <5>1. one \in Seq(S) /\ Len(one) = 1 /\ one[1] = t[1]
          BY <4>2
        <5> HIDE DEF s, one
        <5>2. \A i \in 1 .. Len(s(1)) : s(1)[i] = one[i]
          BY <4>1, <5>1
        <5>3. s(1) = one
          BY <4>1, <5>1, <5>2, SeqEqual
        <5> QED BY <5>3 DEF one
      <4> QED BY <1>1, <1>3, <3>1, <4>3
    <3>2. CASE d # 0
      BY <1>0, <1>1, <1>3, <2>1, <3>2
    <3> QED BY <3>1, <3>2
  <2>3. \A i \in 2 .. Len(t) : s(i) = s(i - 1) \o ss[i]
    <3> SUFFICES ASSUME NEW i \in 2 .. Len(t) PROVE s(i) = s(i - 1) \o ss[i]
      OBVIOUS
    <3>0. i \in 1 .. Len(t) /\ i - 1 \in 0 .. Len(t) /\ i \in Nat
      BY <1>0
    <3>1. CASE i <= d
      <4>1. s(i) = <<>> /\ s(i - 1) = <<>> /\ ss[i] = <<>>
        BY <1>1, <2>1, <3>0, <3>1
      <4>2. <<>> \o <<>> = <<>>
        BY EmptySeq, ConcatEmptySeq
      <4> QED BY <4>1, <4>2
    <3>2. CASE ~ (i <= d)
      <4>1. d + 1 \in 1 .. Len(t) /\ i \in d + 1 .. Len(t)
        BY <1>0, <3>0, <3>2
      <4>2. s(i) = s(i - 1) \o <<t[i]>>
        BY <4>1, SubSeqRecursiveSecond
      <4> QED BY <1>1, <3>0, <3>2, <4>2
    <3> QED BY <3>1, <3>2
  <2> DEFINE next(g, i) == IF i = 1 THEN ss[i] ELSE g[i - 1] \o ss[i]
             good(g) == g = [i \in 1 .. Len(ss) |-> next(g, i)]
  <2> HIDE DEF s
  <2>4. good([i \in 1 .. Len(ss) |-> s(i)])
    <3> DEFINE v == [i \in 1 .. Len(ss) |-> s(i)]
    <3>1. \A i \in 1 .. Len(ss) : next(v, i) = s(i)
      <4> SUFFICES ASSUME NEW i \in 1 .. Len(ss) PROVE next(v, i) = s(i)
        OBVIOUS
      <4>1. CASE i = 1
        BY <2>2, <4>1
      <4>2. CASE i # 1
        <5>1. i \in 2 .. Len(t) /\ i - 1 \in 1 .. Len(ss)
          BY <1>0, <1>1, <4>2
        <5> QED BY <2>3, <4>2, <5>1
      <4> QED BY <4>1, <4>2
    <3> HIDE DEF next
    <3> QED BY <3>1
  <2>5. PICK g : g = CHOOSE h : good(h)
    OBVIOUS
  <2>6. good(g)
    <3> HIDE DEF good
    <3> QED BY <2>4, <2>5
  <2>7. FlattenSeq(ss) = g[Len(ss)]
    BY <1>1, <1>3, <2>5 DEF FlattenSeq
  <2> DEFINE T == {i \in 1 .. Len(t) : g[i] # s(i)}
  <2>8. T = {}
    <3> SUFFICES ASSUME T # {} PROVE FALSE
      OBVIOUS
    <3>1. PICK m \in T : \A k \in T : m <= k
      <4>1. T \in SUBSET Nat
        OBVIOUS
      <4> HIDE DEF T
      <4> QED BY <4>1, LeastNat
    <3>2. g[m] = next(g, m)
      BY <1>1, <2>6
    <3>3. m # 1
      BY <2>2, <3>2
    <3>4. m - 1 \in 1 .. Len(t) /\ m - 1 \notin T
      BY <1>0, <3>1, <3>3
    <3>5. g[m] = s(m - 1) \o ss[m]
      BY <3>2, <3>3, <3>4
    <3>6. m \in 2 .. Len(t) /\ g[m] # s(m)
      BY <1>0, <3>1, <3>3
    <3> QED BY <2>3, <3>5, <3>6
  <2>9. Len(t) \in 1 .. Len(t) /\ Len(t) \notin T
    BY <1>0, <1>3, <2>8
  <2> QED BY <1>1, <2>7, <2>9 DEF s
<1> QED BY <1>0, <1>2, <1>3

\* A line and its cells.  Where the process may die, a line may lack its label, or the
\* second half of a cell.
Cells == 0 .. BYTE - 1
Crashes == "crash" \in Commands
Stored == Cells \union (IF Crashes THEN {HALF} ELSE {})
Lost == IF Crashes THEN {CUTLABEL} ELSE {}
Lines == [label : Int, data : Seq(Stored)]

LEMMA CellsAreStored ==
  ASSUME NEW data \in Seq(Cells)
  PROVE  data \in Seq(Stored)
<1>1. data \in [1 .. Len(data) -> Cells] /\ Len(data) \in Nat
  BY LenProperties
<1>2. data \in [1 .. Len(data) -> Stored]
  BY <1>1 DEF Stored
<1> QED BY <1>1, <1>2, SeqDef

\* A function on 1 .. n is a sequence.
LEMMA IsSequence ==
  ASSUME NEW S, NEW n \in Nat, NEW f, DOMAIN f = 1 .. n, \A i \in 1 .. n : f[i] \in S,
         f = [i \in 1 .. n |-> f[i]]
  PROVE  f \in Seq(S) /\ Len(f) = n
  OBVIOUS

\* Every line fits into the buffer of fgets with its newline.
Short(lines) == \A i \in DOMAIN lines : Len(lines[i].data) < LINE_CELLS

\* The lines of a file: a header and rows in order; and rows without a header.
FileOK(lines) ==
  /\ lines \in Seq(Lines) /\ Short(lines)
  /\ \A i \in DOMAIN lines : lines[i].label \in {IF i = 1 THEN HEADER ELSE i - 2} \union Lost
RowsOK(rs) ==
  /\ rs \in Seq(Lines) /\ Short(rs)
  /\ \A i \in DOMAIN rs : rs[i].label \in {i - 1} \union Lost

\* The cells of a short line that have both digits are not more; without crashes it is all.
LEMMA WholeIs ==
  ASSUME NEW data \in Seq(Stored)
  PROVE  /\ Len(Whole(data)) \in Nat /\ Len(Whole(data)) <= Len(data)
         /\ ~ Crashes => ~ Odd(data) /\ Whole(data) = data
<1>0. Len(data) \in Nat
  BY LenProperties
<1>1. CASE Odd(data)
  <2>1. Len(data) \in 1 .. Len(data) /\ data[Len(data)] = HALF
    BY <1>0, <1>1, EmptySeq DEF Odd, Last
  <2>2. data[Len(data)] \in Stored
    BY <2>1, ElementOfSeq
  <2>3. Crashes
    BY <2>1, <2>2, DiskAssumption DEF Stored, HALF, Cells
  <2>4. Len(SubSeq(data, 1, Len(data) - 1)) = Len(data) - 1
    <3>1. PICK m \in Nat : m = Len(data) - 1
      BY <2>1
    <3>2. m \in Int /\ \A i \in 1 .. m : data[i] \in Stored
      BY <1>0, <3>1, ElementOfSeq
    <3>3. Len(SubSeq(data, 1, m)) = m
      BY <3>2, SubSeqProperties
    <3> QED BY <3>1, <3>3
  <2> QED BY <1>0, <1>1, <2>3, <2>4 DEF Whole, Front
<1>2. CASE ~ Odd(data)
  BY <1>0, <1>2 DEF Whole
<1> QED BY <1>1, <1>2

LEMMA AfterHeaderIs ==
  ASSUME NEW lines \in Seq(Lines)
  PROVE  /\ AfterHeader(lines) \in Seq(Lines)
         /\ AfterHeader(lines) = SubSeq(lines, 2, Len(lines))
         /\ Len(AfterHeader(lines)) = IF Len(lines) = 0 THEN 0 ELSE Len(lines) - 1
         /\ \A i \in 1 .. Len(lines) - 1 : AfterHeader(lines)[i] = lines[i + 1]
<1>0. Len(lines) \in Nat /\ DOMAIN lines = 1 .. Len(lines)
  BY LenProperties
<1>1. CASE lines = <<>>
  <2>1. AfterHeader(lines) = <<>> /\ Len(lines) = 0
    BY <1>1, EmptySeq DEF AfterHeader
  <2>2. SubSeq(lines, 2, Len(lines)) = <<>>
    BY <2>1, SubSeqEmpty
  <2> QED BY <2>1, <2>2, EmptySeq
<1>2. CASE lines # <<>>
  <2>1. Len(lines) # 0
    BY <1>2, EmptySeq
  <2> QED BY <1>0, <1>2, <2>1, HeadTailProperties, TailIsSubSeq DEF AfterHeader
<1> QED BY <1>1, <1>2

\* update_cluster_line sees the lines as they were written, and so do the readers where
\* the process does not die.
LEMMA ReadersSee ==
  ASSUME NEW lines, FileOK(lines)
  PROVE  ReadLines(lines) = lines /\ (~ Crashes => ReadRows(lines) = AfterHeader(lines))
<1>0. /\ lines \in Seq(Lines) /\ Len(lines) \in Nat /\ DOMAIN lines = 1 .. Len(lines)
      /\ \A i \in DOMAIN lines : lines[i].label \in Int /\ lines[i].data \in Seq(Stored)
  <2>1. lines \in Seq(Lines)
    BY DEF FileOK
  <2>2. Len(lines) \in Nat /\ DOMAIN lines = 1 .. Len(lines) /\ \A i \in DOMAIN lines : lines[i] \in Lines
    BY <2>1, LenProperties, ElementOfSeq
  <2> QED BY <2>1, <2>2 DEF Lines
<1>1. ReadLines(lines) = lines
  <2>1. \A i \in DOMAIN lines : Fgets(lines[i]) = IF i <= 0 THEN <<>> ELSE <<lines[i]>>
    <3> SUFFICES ASSUME NEW i \in DOMAIN lines PROVE Fgets(lines[i]) = <<lines[i]>>
      BY <1>0
    <3> DEFINE data == lines[i].data
    <3>1. data \in Seq(Stored) /\ Len(data) \in Nat /\ Len(data) < LINE_CELLS
      BY <1>0, LenProperties DEF FileOK, Short
    <3>2. Len(Whole(data)) \in Nat /\ Len(Whole(data)) <= Len(data)
      BY <3>1, WholeIs
    <3>3. Len(Whole(data)) < LINE_CELLS
      BY <3>1, <3>2, DiskAssumption
    <3> QED BY <3>3 DEF Fgets
  <2> DEFINE ss == [i \in DOMAIN lines |-> Fgets(lines[i])]
  <2>2. ss = [i \in DOMAIN lines |-> IF i <= 0 THEN <<>> ELSE <<lines[i]>>]
    BY <2>1
  <2>3. FlattenSeq(ss) = SubSeq(lines, 0 + 1, Len(lines))
    <3> HIDE DEF ss
    <3> QED BY <1>0, <2>2, FlattenSkipping
  <2> QED BY <1>0, <2>3, SubSeqFull DEF ReadLines
<1>2. ASSUME ~ Crashes PROVE ReadRows(lines) = AfterHeader(lines)
  <2>1. \A i \in DOMAIN lines : IsRow(lines[i]) <=> ~ (i <= 1)
    BY <1>0, <1>2 DEF FileOK, IsRow, HEADER, NOLABEL, Lost
  <2> DEFINE ss == [i \in DOMAIN lines |-> IF IsRow(lines[i]) THEN <<lines[i]>> ELSE <<>>]
  <2>2. ss = [i \in DOMAIN lines |-> IF i <= 1 THEN <<>> ELSE <<lines[i]>>]
    BY <2>1
  <2>3. FlattenSeq(ss) = SubSeq(lines, 1 + 1, Len(lines))
    <3> HIDE DEF ss
    <3> QED BY <1>0, <2>2, FlattenSkipping
  <2>4. 1 + 1 = 2
    OBVIOUS
  <2> QED BY <1>0, <2>3, <2>4, AfterHeaderIs DEF ReadRows
<1> QED BY <1>1, <1>2

LEMMA HeaderIs ==
  ASSUME NEW n \in Nat
  PROVE  Header(n) \in Lines /\ Header(n).label = HEADER /\ Len(Header(n).data) = n
<1>1. Zeros(n) \in Seq(Cells) /\ Len(Zeros(n)) = n
  BY DiskAssumption DEF Zeros, Cells
<1> QED BY <1>1, CellsAreStored DEF Header, Lines, HEADER

\* A header and rows make a file.
LEMMA HeaderAndRows ==
  ASSUME NEW n \in Nat, NEW rs \in Seq(Lines)
  PROVE  LET lines == <<Header(n)>> \o rs IN
         /\ lines \in Seq(Lines) /\ Len(lines) = Len(rs) + 1
         /\ lines[1] = Header(n) /\ \A i \in 1 .. Len(rs) : lines[i + 1] = rs[i]
         /\ AfterHeader(lines) = rs
         /\ n < LINE_CELLS /\ RowsOK(rs) => FileOK(lines)
<1> DEFINE h == <<Header(n)>>
           lines == h \o rs
<1>0. Len(rs) \in Nat /\ DOMAIN rs = 1 .. Len(rs)
  BY LenProperties
<1>1. h \in Seq(Lines) /\ Len(h) = 1 /\ h[1] = Header(n)
  BY HeaderIs
<1> HIDE DEF h
<1>2. /\ lines \in Seq(Lines) /\ Len(lines) = Len(rs) + 1
      /\ \A i \in 1 .. Len(rs) + 1 : lines[i] = IF i = 1 THEN Header(n) ELSE rs[i - 1]
  BY <1>0, <1>1, ConcatProperties, SMTT(30)
<1> HIDE DEF lines
<1>3. DOMAIN lines = 1 .. Len(rs) + 1
  BY <1>2, LenProperties
<1>4. AfterHeader(lines) = rs
  <2>1. /\ AfterHeader(lines) \in Seq(Lines) /\ Len(AfterHeader(lines)) = Len(rs)
        /\ \A i \in 1 .. Len(rs) : AfterHeader(lines)[i] = rs[i]
    <3>1. Len(lines) # 0 /\ Len(lines) - 1 = Len(rs)
      BY <1>0, <1>2
    <3>2. \A i \in 1 .. Len(rs) : i + 1 \in 1 .. Len(rs) + 1 /\ i + 1 # 1 /\ (i + 1) - 1 = i
      BY <1>0
    <3>3. \A i \in 1 .. Len(rs) : lines[i + 1] = rs[i]
      BY <1>2, <3>2
    <3> QED BY <1>2, <3>1, <3>3, AfterHeaderIs
  <2> QED BY <2>1, SeqEqual
<1>5. ASSUME n < LINE_CELLS, RowsOK(rs) PROVE FileOK(lines)
  <2>1. \A i \in 1 .. Len(rs) + 1 : /\ Len(lines[i].data) < LINE_CELLS
                                    /\ lines[i].label \in {IF i = 1 THEN HEADER ELSE i - 2} \union Lost
    <3> SUFFICES ASSUME NEW i \in 1 .. Len(rs) + 1
                 PROVE  /\ Len(lines[i].data) < LINE_CELLS
                        /\ lines[i].label \in {IF i = 1 THEN HEADER ELSE i - 2} \union Lost
      OBVIOUS
    <3>1. CASE i = 1
      BY <1>2, <1>5, <3>1, HeaderIs
    <3>2. CASE i # 1
      <4>1. i - 1 \in DOMAIN rs /\ (i - 1) - 1 = i - 2 /\ lines[i] = rs[i - 1]
        BY <1>0, <1>2, <3>2
      <4> QED BY <1>5, <3>2, <4>1 DEF RowsOK, Short
    <3> QED BY <3>1, <3>2
  <2> QED BY <1>2, <1>3, <2>1 DEF FileOK, Short
<1> QED BY <1>0, <1>2, <1>4, <1>5 DEF lines, h

\* A line that may follow another k - 1.
LineOK(line, k) ==
  /\ line \in Lines /\ Len(line.data) < LINE_CELLS
  /\ line.label \in {IF k = 1 THEN HEADER ELSE k - 2} \union Lost

\* What is left of such a line is one.
LEMMA PiecesOK ==
  ASSUME Crashes, NEW k \in Nat, NEW line, LineOK(line, k), NEW piece \in Pieces(line)
  PROVE  LineOK(piece, k)
<1> DEFINE data == line.data
<1>0. /\ data \in Seq(Stored) /\ Len(data) \in Nat /\ Len(data) < LINE_CELLS /\ line.label \in Int
      /\ LINE_CELLS \in Nat
  BY LenProperties, DiskAssumption DEF LineOK, Lines
<1>1. ASSUME NEW d \in Seq(Stored), Len(d) < LINE_CELLS
      PROVE  LineOK([line EXCEPT !.data = d], k)
  <2>1. [line EXCEPT !.data = d] = [label |-> line.label, data |-> d]
    BY DEF LineOK, Lines
  <2> QED BY <1>1, <2>1 DEF LineOK, Lines
<1>2. ASSUME NEW m \in 0 .. Len(data)
      PROVE  SubSeq(data, 1, m) \in Seq(Stored) /\ Len(SubSeq(data, 1, m)) = m
  <2>1. m \in Int /\ \A i \in 1 .. m : data[i] \in Stored
    BY <1>0, ElementOfSeq
  <2> QED BY <1>0, <2>1, SubSeqProperties
<1> HIDE DEF data
<1>3. ASSUME piece = [label |-> CUTLABEL, data |-> <<>>] PROVE LineOK(piece, k)
  <2>1. <<>> \in Seq(Stored) /\ Len(<<>>) = 0
    BY EmptySeq
  <2>2. 0 < LINE_CELLS /\ CUTLABEL \in Lost /\ CUTLABEL \in Int
    BY <1>0 DEF Lost, CUTLABEL
  <2> QED BY <1>3, <2>1, <2>2 DEF LineOK, Lines
<1>4. ASSUME NEW m \in 0 .. Len(data), piece = [line EXCEPT !.data = SubSeq(data, 1, m)]
      PROVE  LineOK(piece, k)
  <2>1. SubSeq(data, 1, m) \in Seq(Stored) /\ Len(SubSeq(data, 1, m)) < LINE_CELLS
    BY <1>0, <1>2
  <2> QED BY <1>1, <1>4, <2>1
<1>5. ASSUME NEW m \in 1 .. Len(data),
             piece = [line EXCEPT !.data = Append(SubSeq(data, 1, m - 1), HALF)]
      PROVE  LineOK(piece, k)
  <2>1. PICK d : d = SubSeq(data, 1, m - 1)
    OBVIOUS
  <2>2. d \in Seq(Stored) /\ Len(d) = m - 1
    <3>1. m - 1 \in 0 .. Len(data)
      BY <1>0
    <3> QED BY <1>2, <2>1, <3>1
  <2>3. HALF \in Stored
    BY DEF Stored
  <2>4. Append(d, HALF) \in Seq(Stored) /\ Len(Append(d, HALF)) = m
    <3>1. Append(d, HALF) \in Seq(Stored) /\ Len(Append(d, HALF)) = Len(d) + 1
      BY <2>2, <2>3, AppendProperties
    <3> QED BY <2>2, <3>1
  <2>5. PICK e : e = Append(d, HALF)
    OBVIOUS
  <2>6. e \in Seq(Stored) /\ Len(e) < LINE_CELLS
    BY <1>0, <2>4, <2>5
  <2> QED BY <1>1, <1>5, <2>1, <2>5, <2>6
<1> QED BY <1>3, <1>4, <1>5 DEF Pieces, data

\* What a crash leaves of a file: lines of it, and perhaps a piece of one more.
LEMMA PrefixOK ==
  ASSUME Crashes, NEW lines, FileOK(lines), NEW k \in 1 .. Len(lines)
  PROVE  /\ FileOK(SubSeq(lines, 1, k - 1))
         /\ \A piece \in Pieces(lines[k]) : FileOK(Append(SubSeq(lines, 1, k - 1), piece))
<1> DEFINE kept == SubSeq(lines, 1, k - 1)
<1>0. /\ lines \in Seq(Lines) /\ Len(lines) \in Nat /\ DOMAIN lines = 1 .. Len(lines)
      /\ \A i \in 1 .. Len(lines) : lines[i] \in Lines
  BY LenProperties, ElementOfSeq DEF FileOK
<1>1. /\ kept \in Seq(Lines) /\ Len(kept) = k - 1 /\ \A i \in 1 .. k - 1 : kept[i] = lines[i]
  <2>1. k - 1 \in Int /\ \A i \in 1 .. k - 1 : lines[i] \in Lines
    BY <1>0
  <2>2. /\ kept \in Seq(Lines) /\ Len(kept) = (IF 1 <= k - 1 THEN (k - 1) - 1 + 1 ELSE 0)
        /\ \A i \in 1 .. (k - 1) - 1 + 1 : kept[i] = lines[1 + i - 1]
    BY <2>1, SubSeqProperties
  <2> QED BY <1>0, <2>2
<1>2. DOMAIN kept = 1 .. k - 1
  BY <1>1, LenProperties
<1>3. ASSUME NEW i \in 1 .. Len(lines) PROVE LineOK(lines[i], i)
  BY <1>0 DEF LineOK, FileOK, Short
<1> HIDE DEF kept
<1>4. FileOK(kept)
  <2>1. ASSUME NEW i \in DOMAIN kept
        PROVE  /\ Len(kept[i].data) < LINE_CELLS
               /\ kept[i].label \in {IF i = 1 THEN HEADER ELSE i - 2} \union Lost
    <3>1. i \in 1 .. Len(lines) /\ kept[i] = lines[i]
      BY <1>0, <1>1, <1>2
    <3> QED BY <3>1, <1>3 DEF LineOK
  <2> QED BY <1>1, <2>1 DEF FileOK, Short
<1>5. ASSUME NEW piece \in Pieces(lines[k]) PROVE FileOK(Append(kept, piece))
  <2> DEFINE left == Append(kept, piece)
  <2>1. LineOK(piece, k)
    <3>1. k \in Nat /\ LineOK(lines[k], k)
      BY <1>0, <1>3
    <3> QED BY <3>1, PiecesOK
  <2>2. piece \in Lines
    BY <2>1 DEF LineOK
  <2>3. /\ left \in Seq(Lines) /\ Len(left) = k /\ left[k] = piece
        /\ \A i \in 1 .. k - 1 : left[i] = kept[i]
    <3>1. Len(kept) + 1 = k
      BY <1>0, <1>1
    <3> QED BY <1>1, <2>2, <3>1, AppendProperties
  <2>4. DOMAIN left = 1 .. k
    BY <2>3, LenProperties
  <2> HIDE DEF left
  <2>5. ASSUME NEW i \in 1 .. k PROVE LineOK(left[i], i)
    <3>1. CASE i = k
      BY <2>1, <2>3, <3>1
    <3>2. CASE i # k
      <4>1. i \in 1 .. k - 1 /\ i \in 1 .. Len(lines)
        BY <1>0, <3>2
      <4> QED BY <1>1, <1>3, <2>3, <4>1
    <3> QED BY <3>1, <3>2
  <2>6. FileOK(left)
    BY <2>3, <2>4, <2>5 DEF FileOK, Short, LineOK
  <2> QED BY <2>6 DEF left
<1> QED BY <1>4, <1>5 DEF kept

\* Cells are filled up to the length of a cluster.
LEMMA Padded ==
  ASSUME NEW n \in Nat, NEW data \in Seq(Cells)
  PROVE  /\ Pad(data, n) \in Seq(Cells) /\ Len(Pad(data, n)) = n
         /\ Len(data) = n => Pad(data, n) = data
         /\ Zeros(n) \in Seq(Cells) /\ Len(Zeros(n)) = n
<1>1. 0 \in Cells
  BY DiskAssumption DEF Cells
<1>2. Len(data) \in Nat /\ \A i \in 1 .. Len(data) : data[i] \in Cells
  BY LenProperties, ElementOfSeq
<1>3. Pad(data, n) \in Seq(Cells) /\ Len(Pad(data, n)) = n
      /\ \A i \in 1 .. n : Pad(data, n)[i] = IF i <= Len(data) THEN data[i] ELSE 0
  BY <1>1, <1>2 DEF Pad
<1>4. Zeros(n) \in Seq(Cells) /\ Len(Zeros(n)) = n
  BY <1>1 DEF Zeros
<1>5. ASSUME Len(data) = n PROVE Pad(data, n) = data
  <2>1. \A i \in 1 .. n : Pad(data, n)[i] = data[i]
    BY <1>3, <1>5
  <2> QED BY <1>3, <1>5, <2>1, SeqEqual
<1> QED BY <1>3, <1>4, <1>5

\* n rows of one size; rows that are chained.
AreRows(rs, n, size) ==
  /\ rs \in Seq(Lines) /\ Len(rs) = n
  /\ \A i \in 1 .. n : rs[i].label = i - 1 /\ Len(rs[i].data) = size

Chained(rs, n) == \A i \in 1 .. n : rs[i].data[1] = Chain(i - 1, n)

LEMMA AreRowsOK ==
  ASSUME NEW rs, NEW n \in Nat, NEW size \in Nat, size < LINE_CELLS, AreRows(rs, n, size)
  PROVE  RowsOK(rs)
<1>1. DOMAIN rs = 1 .. n
  BY LenProperties DEF AreRows
<1> QED BY <1>1 DEF AreRows, RowsOK, Short

\* The rows of a new disk.
LEMMA FormatRowsAre ==
  ASSUME NEW n \in Nat, NEW size \in Nat, NEW fill \in Cells
  PROVE  /\ AreRows(FormatRows(n, size, fill), n, size)
         /\ size > 0 => Chained(FormatRows(n, size, fill), n)
<1>1. \A i \in 0 .. n : Chain(i, n) \in Cells
  BY DiskAssumption DEF Chain, Cells
<1> DEFINE row(i) == [label |-> i - 1,
                      data |-> [j \in 1 .. size |-> IF j = 1 THEN Chain(i - 1, n) ELSE fill]]
<1>2. ASSUME NEW i \in 1 .. n
      PROVE  /\ row(i) \in Lines /\ row(i).label = i - 1 /\ Len(row(i).data) = size
             /\ size > 0 => row(i).data[1] = Chain(i - 1, n)
  <2> DEFINE data == [j \in 1 .. size |-> IF j = 1 THEN Chain(i - 1, n) ELSE fill]
  <2>1. Chain(i - 1, n) \in Cells
    BY <1>1
  <2>2. data \in Seq(Cells) /\ Len(data) = size /\ (size > 0 => data[1] = Chain(i - 1, n))
    BY <2>1
  <2>3. row(i) = [label |-> i - 1, data |-> data]
    OBVIOUS
  <2> HIDE DEF row, data
  <2> QED BY <2>2, <2>3, CellsAreStored DEF Lines
<1>3. FormatRows(n, size, fill) = [i \in 1 .. n |-> row(i)]
  BY DEF FormatRows
<1> HIDE DEF row
<1>4. PICK rs : rs = FormatRows(n, size, fill)
  OBVIOUS
<1>5. rs \in Seq(Lines) /\ Len(rs) = n /\ \A i \in 1 .. n : rs[i] = row(i)
  BY <1>2, <1>3, <1>4
<1>6. AreRows(rs, n, size) /\ (size > 0 => Chained(rs, n))
  BY <1>2, <1>5 DEF AreRows, Chained
<1> QED BY <1>4, <1>6

-----------------------------------------------------------------------------
(* Files whatever happens.                                                 *)

\* No cluster fills the buffer of fgets: 126 bytes leave a newline behind, which
\* update_cluster_line takes for a row.
ShortLines == LINE_CELLS \notin Sizes \union {INIT_SIZE}

FilesInv ==
  /\ file \in [Files -> Seq(Lines)] /\ \A f \in Files : FileOK(file[f])
  /\ current_disk_file \in Files
  /\ g_total_clusters \in Nat /\ g_cluster_size \in Nat /\ g_cluster_size < LINE_CELLS
  /\ pc \in {"idle", "open", "write", "format"} /\ RowsOK(rows)
  /\ pc = "format" => arg[1] \in Volumes /\ arg[2] \in Nat /\ arg[3] \in Nat /\ arg[3] < LINE_CELLS

\* A size that is asked for is a length of short lines.
LEMMA SizesAreShort ==
  ASSUME ShortLines, NEW size \in Sizes \union {INIT_SIZE}
  PROVE  size \in Nat \ {0} /\ size < LINE_CELLS
  BY DiskAssumption DEF ShortLines

\* update_cluster_line has the rows of the file, and zeros where there are none.
LEMMA Loaded ==
  ASSUME FileOK(file[current_disk_file]), g_total_clusters \in Nat,
         g_cluster_size \in Nat, g_cluster_size < LINE_CELLS
  PROVE  LET old == AfterHeader(file[current_disk_file]) IN
         /\ RowsOK(LoadedRows) /\ Len(LoadedRows) = g_total_clusters
         /\ \A i \in 1 .. g_total_clusters :
              LoadedRows[i] = IF i <= Len(old) THEN old[i]
                              ELSE [label |-> i - 1, data |-> Zeros(g_cluster_size)]
<1> DEFINE F == file[current_disk_file]
           old == AfterHeader(F)
           blank(i) == [label |-> i - 1, data |-> Zeros(g_cluster_size)]
           row(i) == IF i <= Len(old) THEN old[i] ELSE blank(i)
<1>0. F \in Seq(Lines) /\ Len(F) \in Nat /\ DOMAIN F = 1 .. Len(F)
      /\ \A i \in DOMAIN F : /\ F[i] \in Lines /\ Len(F[i].data) < LINE_CELLS
                           /\ F[i].label \in {IF i = 1 THEN HEADER ELSE i - 2} \union Lost
  <2>1. F \in Seq(Lines)
    BY DEF FileOK
  <2>2. Len(F) \in Nat /\ DOMAIN F = 1 .. Len(F) /\ \A i \in DOMAIN F : F[i] \in Lines
    BY <2>1, LenProperties, ElementOfSeq
  <2> QED BY <2>1, <2>2 DEF FileOK, Short
<1>1. LoadedRows = [i \in 1 .. g_total_clusters |-> row(i)]
  BY ReadersSee DEF LoadedRows
<1>2. \A i \in 1 .. g_total_clusters : /\ row(i) \in Lines /\ row(i).label \in {i - 1} \union Lost
                                     /\ Len(row(i).data) < LINE_CELLS
  <2> HIDE DEF F
  <2> SUFFICES ASSUME NEW i \in 1 .. g_total_clusters
               PROVE  /\ row(i) \in Lines /\ row(i).label \in {i - 1} \union Lost
                      /\ Len(row(i).data) < LINE_CELLS
    OBVIOUS
  <2>1. CASE i <= Len(old)
    <3>1. i \in 1 .. Len(F) - 1
      BY <1>0, <2>1, AfterHeaderIs
    <3>2. old[i] = F[i + 1]
      BY <1>0, <3>1, AfterHeaderIs
    <3>3. i + 1 \in DOMAIN F /\ i + 1 # 1 /\ (i + 1) - 2 = i - 1
      BY <1>0, <3>1
    <3> QED BY <1>0, <2>1, <3>2, <3>3
  <2>2. CASE ~ (i <= Len(old))
    <3>1. Zeros(g_cluster_size) \in Seq(Cells) /\ Len(Zeros(g_cluster_size)) = g_cluster_size
      BY EmptySeq, Padded
    <3>2. row(i) = blank(i)
      BY <2>2
    <3> QED BY <3>1, <3>2, CellsAreStored DEF Lines
  <2> QED BY <2>1, <2>2
<1> HIDE DEF row
<1>3. LoadedRows \in Seq(Lines) /\ Len(LoadedRows) = g_total_clusters
      /\ DOMAIN LoadedRows = 1 .. g_total_clusters
  BY <1>1, <1>2
<1>4. RowsOK(LoadedRows)
  BY <1>1, <1>2, <1>3 DEF RowsOK, Short
<1> QED BY <1>1, <1>3, <1>4 DEF row

\* The rows new are the rows rs but for the one of the cluster.
Replaced(new, rs, clu, data) ==
  /\ RowsOK(new) /\ Len(new) = Len(rs)
  /\ new[clu + 1] = [label |-> clu, data |-> data]
  /\ \A i \in 1 .. Len(rs) : i # clu + 1 => new[i] = rs[i]

\* So it is with the rows of a write and those loaded.
LEMMA Updated ==
  ASSUME NEW rs, RowsOK(rs), NEW clu \in Int, 0 <= clu, clu < Len(rs),
         NEW data \in Seq(Cells), Len(data) < LINE_CELLS,
         NEW new, new = [rs EXCEPT ![Slot(clu)] = [label |-> clu, data |-> data]]
  PROVE  Replaced(new, rs, clu, data)
<1> DEFINE e == [label |-> clu, data |-> data]
<1>0. rs \in Seq(Lines) /\ Len(rs) \in Nat /\ DOMAIN rs = 1 .. Len(rs)
  BY LenProperties DEF RowsOK
<1>1. clu + 1 \in 1 .. Len(rs) /\ e \in Lines /\ e.label = clu /\ e.data = data
  BY <1>0, CellsAreStored DEF Lines
<1>2. new = [rs EXCEPT ![clu + 1] = e]
  BY DEF Slot
<1> HIDE DEF e
<1>3. /\ new \in Seq(Lines) /\ Len(new) = Len(rs)
      /\ new[clu + 1] = e /\ \A i \in 1 .. Len(rs) : i # clu + 1 => new[i] = rs[i]
  <2>1. [rs EXCEPT ![clu + 1] = e] \in Seq(Lines) /\ Len([rs EXCEPT ![clu + 1] = e]) = Len(rs)
    BY <1>0, <1>1, ExceptSeq
  <2> QED BY <1>0, <1>1, <1>2, <2>1
<1>4. RowsOK(new)
  <2>1. DOMAIN new = 1 .. Len(rs)
    BY <1>3, LenProperties
  <2>2. \A i \in 1 .. Len(rs) : Len(new[i].data) < LINE_CELLS /\ new[i].label \in {i - 1} \union Lost
    <3> SUFFICES ASSUME NEW i \in 1 .. Len(rs)
                 PROVE  Len(new[i].data) < LINE_CELLS /\ new[i].label \in {i - 1} \union Lost
      OBVIOUS
    <3>1. CASE i = clu + 1
      BY <1>1, <1>3, <3>1, SMTT(30)
    <3>2. CASE i # clu + 1
      BY <1>0, <1>3, <3>2 DEF RowsOK, Short
    <3> QED BY <3>1, <3>2
  <2> QED BY <1>3, <2>1, <2>2 DEF RowsOK, Short
<1> QED BY <1>3, <1>4 DEF Replaced, e

\* The greatest of some of the numbers up to n.
LEMMA MaxIs ==
  ASSUME NEW n \in Nat, NEW T \in SUBSET (1 .. n), T # {}
  PROVE  Max(T) \in T /\ \A i \in T : Max(T) >= i
<1> DEFINE U == {n - i : i \in T}
<1>1. U \in SUBSET Nat /\ U # {}
  <2>1. \A i \in T : n - i \in Nat
    OBVIOUS
  <2> QED BY <2>1
<1> HIDE DEF U
<1>2. PICK m \in U : \A k \in U : m <= k
  BY <1>1, LeastNat
<1>3. PICK i \in T : m = n - i
  BY <1>2 DEF U
<1>4. \A j \in T : i >= j
  <2> SUFFICES ASSUME NEW j \in T PROVE i >= j
    OBVIOUS
  <2>1. n - j \in U
    BY DEF U
  <2>2. n - i <= n - j /\ i \in 1 .. n /\ j \in 1 .. n
    BY <1>2, <1>3, <2>1
  <2> QED BY <2>2
<1> QED BY <1>4 DEF Max

\* The geometry that update_cluster_line and -l read, where the process does not die.
LEMMA HeaderRead ==
  ASSUME ~ Crashes, NEW lines, FileOK(lines), ReadHeader(lines)
  PROVE  IF Len(lines) <= 1 THEN UNCHANGED geometry
         ELSE /\ g_total_clusters' = Len(lines) - 1
              /\ g_cluster_size' = Len(lines[Len(lines)].data)
<1> DEFINE counted == {i \in DOMAIN lines : IsCounted(lines[i])}
           n == Len(lines)
<1>0. lines \in Seq(Lines) /\ n \in Nat /\ DOMAIN lines = 1 .. n
  BY LenProperties DEF FileOK
<1>1. counted = 2 .. n
  <2>1. ASSUME NEW i \in 1 .. n PROVE IsCounted(lines[i]) <=> i # 1
    <3>1. lines[i] \in Lines
      BY <1>0, ElementOfSeq
    <3>2. ~ Odd(lines[i].data)
      BY <3>1, WholeIs DEF Lines
    <3>3. lines[i].label = IF i = 1 THEN HEADER ELSE i - 2
      BY <1>0 DEF FileOK, Lost
    <3> QED BY <3>2, <3>3 DEF IsCounted, HEADER
  <2> QED BY <1>0, <2>1
<1> HIDE DEF counted
<1>2. IF counted = {} THEN UNCHANGED geometry
      ELSE g_total_clusters' = Cardinality(counted) /\ g_cluster_size' = Len(lines[Max(counted)].data)
  BY DEF ReadHeader, counted
<1>3. CASE n <= 1
  BY <1>0, <1>1, <1>2, <1>3
<1>4. CASE ~ (n <= 1)
  <2>1. counted \in SUBSET (1 .. n) /\ n \in counted
    BY <1>0, <1>1, <1>4
  <2>2. Cardinality(counted) = n - 1
    BY <1>0, <1>1, <1>4, FS_Interval
  <2>3. Max(counted) \in counted /\ Max(counted) >= n
    BY <1>0, <2>1, MaxIs
  <2>4. Max(counted) = n
    <3>1. PICK k : k = Max(counted)
      OBVIOUS
    <3>2. k \in 2 .. n /\ k >= n
      BY <1>1, <2>3, <3>1
    <3> QED BY <1>0, <3>1, <3>2
  <2> QED BY <1>2, <1>4, <2>1, <2>2, <2>4
<1> QED BY <1>3, <1>4

\* No rows at all are rows in order, no lines a file.
LEMMA NothingOK == FileOK(<<>>) /\ RowsOK(<<>>)
<1>1. <<>> \in Seq(Lines) /\ \A i \in DOMAIN <<>> : FALSE
  BY EmptySeq, LenProperties
<1> QED BY <1>1 DEF FileOK, RowsOK, Short

LEMMA FilesInit == ASSUME ShortLines PROVE Init => FilesInv
  BY NothingOK, SizesAreShort, DiskAssumption DEF Init, FilesInv, FileOK

\* What process_write_cluster and delete_cluster keep.
LEMMA UpdateKeepsFiles ==
  ASSUME FilesInv, NEW clu \in Int, NEW data \in Seq(Cells), Len(data) = g_cluster_size,
         Update(clu, data)
  PROVE  FilesInv'
<1>1. RowsOK(rows')
  <2>1. CASE InRange(clu)
    <3>1. FileOK(file[current_disk_file])
      BY DEF FilesInv
    <3>2. PICK rs : rs = LoadedRows
      OBVIOUS
    <3>3. RowsOK(rs) /\ Len(rs) = g_total_clusters
      BY <3>1, <3>2, Loaded DEF FilesInv
    <3>4. rows' = [rs EXCEPT ![Slot(clu)] = [label |-> clu, data |-> data]]
      BY <2>1, <3>2 DEF Update
    <3>5. Len(data) < LINE_CELLS /\ 0 <= clu /\ clu < Len(rs)
      BY <2>1, <3>3 DEF FilesInv, InRange
    <3>6. Replaced(rows', rs, clu, data)
      BY <3>3, <3>4, <3>5, Updated
    <3> QED BY <3>6 DEF Replaced
  <2>2. CASE ~ InRange(clu)
    BY <2>2 DEF Update, FilesInv
  <2> QED BY <2>1, <2>2
<1>2. pc' \in {"idle", "open"}
  BY DEF Update
<1> QED BY <1>1, <1>2 DEF Update, FilesInv, geometry

\* A size that was read from a file is that of a line.
LEMMA ReadKeepsSizes ==
  ASSUME FilesInv, NEW lines, FileOK(lines), ReadHeader(lines)
  PROVE  g_total_clusters' \in Nat /\ g_cluster_size' \in Nat /\ g_cluster_size' < LINE_CELLS
<1> DEFINE counted == {i \in DOMAIN lines : IsCounted(lines[i])}
<1>0. lines \in Seq(Lines) /\ Len(lines) \in Nat /\ DOMAIN lines = 1 .. Len(lines)
  BY LenProperties DEF FileOK
<1>1. counted \in SUBSET (1 .. Len(lines))
  BY <1>0
<1> HIDE DEF counted
<1>2. IF counted = {} THEN UNCHANGED geometry
      ELSE g_total_clusters' = Cardinality(counted) /\ g_cluster_size' = Len(lines[Max(counted)].data)
  BY DEF ReadHeader, counted
<1>3. CASE counted = {}
  BY <1>2, <1>3 DEF FilesInv, geometry
<1>4. CASE counted # {}
  <2>1. Cardinality(counted) \in Nat
    <3>1. IsFiniteSet(1 .. Len(lines))
      BY <1>0, FS_Interval
    <3> QED BY <1>1, <3>1, FS_Subset, FS_CardinalityType
  <2>2. PICK k : k = Max(counted)
    OBVIOUS
  <2>3. k \in DOMAIN lines
    BY <1>0, <1>1, <1>4, <2>2, MaxIs
  <2>4. lines[k] \in Lines
    BY <1>0, <2>3, ElementOfSeq
  <2>5. Len(lines[k].data) \in Nat /\ Len(lines[k].data) < LINE_CELLS
    BY <2>3, <2>4, LenProperties DEF FileOK, Short, Lines
  <2> QED BY <1>2, <1>4, <2>1, <2>2, <2>5
<1> QED BY <1>3, <1>4

\* A file that is written.
LEMMA FileWritten ==
  ASSUME FilesInv, NEW f \in Files, NEW lines, FileOK(lines), file' = [file EXCEPT ![f] = lines]
  PROVE  file' \in [Files -> Seq(Lines)] /\ (\A g \in Files : FileOK(file'[g])) /\ file'[f] = lines
  BY DEF FilesInv, FileOK

LEMMA FilesStep == ASSUME ShortLines PROVE FilesInv /\ [Next]_vars => FilesInv'
<1> SUFFICES ASSUME FilesInv, [Next]_vars PROVE FilesInv'
  OBVIOUS
<1>1. ASSUME NEW v \in Volumes, NEW n \in RowCounts, NEW size \in Sizes, Mkdisk(v, n, size)
      PROVE  FilesInv'
  <2>1. FileOf(v) \in Files /\ n \in Nat /\ size \in Nat /\ size < LINE_CELLS
    BY DiskAssumption, SizesAreShort
  <2>2. PICK fill \in FILLS : rows' = FormatRows(n, size, fill)
    BY <1>1 DEF Mkdisk
  <2>3. fill \in Cells
    BY DiskAssumption DEF Cells
  <2>4. RowsOK(rows')
    <3>1. n \in Nat /\ size \in Nat /\ size < LINE_CELLS /\ AreRows(rows', n, size)
      BY <2>1, <2>2, <2>3, FormatRowsAre
    <3> QED BY <3>1, AreRowsOK
  <2>5. file' \in [Files -> Seq(Lines)] /\ \A g \in Files : FileOK(file'[g])
    BY <1>1, <2>1, NothingOK, FileWritten DEF Mkdisk
  <2> QED BY <1>1, <2>1, <2>4, <2>5 DEF Mkdisk, FilesInv, geometry
<1>2. ASSUME NEW n \in RowCounts, NEW size \in Sizes, SoftInit(n, size) PROVE FilesInv'
  <2>1. n \in Nat /\ size \in Nat /\ size < LINE_CELLS
    BY DiskAssumption, SizesAreShort
  <2> QED BY <1>2, <2>1 DEF SoftInit, FilesInv
<1>3. ASSUME NEW clu \in Indexes, DeleteCluster(clu) PROVE FilesInv'
  <2>1. clu \in Int /\ Zeros(g_cluster_size) \in Seq(Cells)
        /\ Len(Zeros(g_cluster_size)) = g_cluster_size
    BY EmptySeq, Padded, DiskAssumption DEF FilesInv
  <2> QED BY <1>3, <2>1, UpdateKeepsFiles DEF DeleteCluster
<1>4. ASSUME NEW clu \in Indexes, NEW data \in Data, WriteCluster(clu, data) PROVE FilesInv'
  <2>1. clu \in Int /\ Pad(data, g_cluster_size) \in Seq(Cells)
        /\ Len(Pad(data, g_cluster_size)) = g_cluster_size
    BY Padded, DiskAssumption DEF FilesInv, Cells
  <2> QED BY <1>4, <2>1, UpdateKeepsFiles DEF WriteCluster
<1>5. CASE MkdiskClose
  <2>1. FileOf(arg[1]) \in Files /\ CurrentOf(arg[1]) \in Files
    BY <1>5, DiskAssumption DEF MkdiskClose, FilesInv
  <2>2. FileOK(<<Header(arg[3])>> \o rows)
    BY <1>5, HeaderAndRows DEF MkdiskClose, FilesInv, RowsOK
  <2>3. file' \in [Files -> Seq(Lines)] /\ \A g \in Files : FileOK(file'[g])
    BY <1>5, <2>1, <2>2, FileWritten DEF MkdiskClose
  <2> QED BY <1>5, <2>1, <2>3, NothingOK DEF MkdiskClose, SizeMade, FilesInv
<1>6. CASE UpdateOpen
  <2>1. file' \in [Files -> Seq(Lines)] /\ \A g \in Files : FileOK(file'[g])
    <3>1. CASE file' = [file EXCEPT ![current_disk_file] = <<>>]
      BY <3>1, NothingOK, FileWritten DEF FilesInv
    <3>2. CASE UNCHANGED file
      BY <3>2 DEF FilesInv
    <3> QED BY <1>6, <3>1, <3>2 DEF UpdateOpen
  <2>2. RowsOK(rows') /\ pc' \in {"idle", "write"}
    BY <1>6, NothingOK DEF UpdateOpen, FilesInv
  <2> QED BY <1>6, <2>1, <2>2 DEF UpdateOpen, FilesInv, geometry
<1>7. CASE UpdateClose
  <2> DEFINE lines == <<Header(g_cluster_size)>> \o rows
  <2>1. FileOK(lines)
    BY HeaderAndRows DEF FilesInv, RowsOK
  <2>2. /\ file' \in [Files -> Seq(Lines)] /\ (\A g \in Files : FileOK(file'[g]))
        /\ file'[current_disk_file] = lines
    BY <1>7, <2>1, FileWritten DEF UpdateClose, FilesInv
  <2>3. ReadHeader(file'[current_disk_file])
    BY <1>7 DEF UpdateClose
  <2> HIDE DEF lines
  <2>4. g_total_clusters' \in Nat /\ g_cluster_size' \in Nat /\ g_cluster_size' < LINE_CELLS
    BY <2>1, <2>2, <2>3, ReadKeepsSizes
  <2> QED BY <1>7, <2>2, <2>4, NothingOK DEF UpdateClose, FilesInv
<1>8. CASE ListClusters
  <2>1. FileOK(file[current_disk_file]) /\ ReadHeader(file[current_disk_file])
    BY <1>8 DEF ListClusters, FilesInv
  <2>2. g_total_clusters' \in Nat /\ g_cluster_size' \in Nat /\ g_cluster_size' < LINE_CELLS
    BY <2>1, ReadKeepsSizes
  <2> QED BY <1>8, <2>2 DEF ListClusters, FilesInv
<1>9. CASE Crash
  <2>1. file' \in [Files -> Seq(Lines)] /\ \A g \in Files : FileOK(file'[g])
    <3>1. CASE pc \in {"write", "format"}
      <4>1. Writing \in Files
        BY <3>1, DiskAssumption DEF Writing, FilesInv
      <4>2. PICK c : c = Contents
        OBVIOUS
      <4>3. FileOK(c)
        BY <4>2, HeaderAndRows DEF Contents, FilesInv, RowsOK
      <4>4. PICK k \in 1 .. Len(c) :
              \/ file' = [file EXCEPT ![Writing] = SubSeq(c, 1, k - 1)]
              \/ \E piece \in Pieces(c[k]) :
                   file' = [file EXCEPT ![Writing] = Append(SubSeq(c, 1, k - 1), piece)]
        BY <1>9, <3>1, <4>2 DEF Crash
      <4>5. PICK left : FileOK(left) /\ file' = [file EXCEPT ![Writing] = left]
        <5>1. Crashes
          BY <1>9 DEF Crash, Crashes
        <5>2. /\ FileOK(SubSeq(c, 1, k - 1))
              /\ \A piece \in Pieces(c[k]) : FileOK(Append(SubSeq(c, 1, k - 1), piece))
          BY <4>3, <5>1, PrefixOK
        <5> QED BY <4>4, <5>2
      <4> QED BY <4>1, <4>5, FileWritten
    <3>2. CASE pc \notin {"write", "format"}
      BY <1>9, <3>2 DEF Crash, FilesInv
    <3> QED BY <3>1, <3>2
  <2> QED BY <1>9, <2>1, NothingOK, SizesAreShort, DiskAssumption DEF Crash, FilesInv
<1>10. CASE UNCHANGED vars
  BY <1>10 DEF vars, geometry, FilesInv
<1> QED BY <1>1, <1>2, <1>3, <1>4, <1>5, <1>6, <1>7, <1>8, <1>9, <1>10 DEF Next

LEMMA FilesInvariant == ASSUME ShortLines PROVE Spec => []FilesInv
  BY FilesInit, FilesStep, PTL DEF Spec

\* Every line of a file is in its place or lacks a label since the process died in it,
\* after any writes, -init, deaths of the process, in the middle of a cell or a label too,
\* and failing opens, for any files, names that are cut, sizes and data, as long as the
\* lines fit into the buffer of fgets.
THEOREM RowsLabelledInOrderHolds == ASSUME ShortLines PROVE Spec => []RowsLabelledInOrder
<1>1. FilesInv => RowsLabelledInOrder
  BY DEF FilesInv, FileOK, Lost, RowsLabelledInOrder
<1> QED BY <1>1, FilesInvariant, PTL

-----------------------------------------------------------------------------
(* The chain of a new disk.                                                *)

\* What -mkdisk is about to write.
FormatInv ==
  pc = "format" =>
    \E n \in RowCounts, size \in Sizes, fill \in FILLS :
      rows = FormatRows(n, size, fill) /\ arg[2] = n /\ arg[3] = size

LEMMA FormatInvariant == Spec => []FormatInv
<1>1. Init => FormatInv
  BY DEF Init, FormatInv
<1>2. FormatInv /\ [Next]_vars => FormatInv'
  <2> SUFFICES ASSUME FormatInv, [Next]_vars PROVE FormatInv'
    OBVIOUS
  <2>1. ASSUME NEW v \in Volumes, NEW n \in RowCounts, NEW size \in Sizes, Mkdisk(v, n, size)
        PROVE  FormatInv'
    <3>1. arg'[2] = n /\ arg'[3] = size
      BY <2>1 DEF Mkdisk
    <3> QED BY <2>1, <3>1 DEF Mkdisk, FormatInv
  <2>2. CASE UNCHANGED <<pc, rows, arg>>
    BY <2>2 DEF FormatInv
  <2>3. CASE pc' # "format"
    BY <2>3 DEF FormatInv
  <2> QED BY <2>1, <2>2, <2>3
    DEF Next, vars, SoftInit, DeleteCluster, WriteCluster, Update, Says, MkdiskClose, UpdateOpen,
        UpdateClose, ListClusters, Crash
<1> QED BY <1>1, <1>2, PTL DEF Spec

\* Rows chained by their first bytes, as long as their numbers fit into a byte.
LEMMA ChainOnce ==
  ASSUME NEW rs, Len(rs) \in Nat \ {0}, Len(rs) <= BYTE, Chained(rs, Len(rs))
  PROVE  LET n == Len(rs)
             reached[k \in 0 .. n] == IF k = 0 THEN 0 ELSE rs[(reached[k - 1] % n) + 1].data[1]
         IN  {reached[k] : k \in 0 .. n - 1} = 0 .. n - 1 /\ reached[n] = 0
<1> DEFINE n == Len(rs)
<1>0. n \in Nat \ {0} /\ n <= BYTE /\ \A i \in 1 .. n : rs[i].data[1] = Chain(i - 1, n)
  BY DEF Chained
<1> DEFINE next(g, k) == IF k = 0 THEN 0 ELSE rs[(g[k - 1] % n) + 1].data[1]
           good(g) == g = [k \in 0 .. n |-> next(g, k)]
           at(k) == IF k = n THEN 0 ELSE k
<1> HIDE DEF n
<1>1. ASSUME NEW k \in 1 .. n, NEW p, p = k - 1 PROVE rs[(p % n) + 1].data[1] = at(k)
  <2>1. p % n = p
    <3>1. \A q \in Nat, b \in Nat \ {0} : q < b => q % b = q
      OBVIOUS
    <3>2. p \in Nat /\ p < n
      BY <1>0, <1>1
    <3> QED BY <1>0, <3>1, <3>2
  <2>2. rs[(p % n) + 1].data[1] = Chain(k - 1, n)
    BY <1>0, <1>1, <2>1
  <2>3. k < n => k % BYTE = k
    <3>1. \A q \in Nat, b \in Nat \ {0} : q < b => q % b = q
      OBVIOUS
    <3>2. BYTE \in Nat \ {0} /\ k \in Nat /\ (k < n => k < BYTE)
      BY <1>0, DiskAssumption
    <3> QED BY <3>1, <3>2
  <2> QED BY <1>0, <1>1, <2>2, <2>3 DEF Chain
<1> DEFINE s == [k \in 0 .. n |-> at(k)]
<1>2. good(s)
  <2>1. ASSUME NEW k \in 0 .. n PROVE next(s, k) = at(k)
    <3>1. CASE k = 0
      BY <1>0, <3>1
    <3>2. CASE k # 0
      <4>1. k \in 1 .. n /\ s[k - 1] = k - 1
        BY <1>0, <3>2
      <4> HIDE DEF s, at
      <4> QED BY <1>0, <1>1, <3>2, <4>1
    <3> QED BY <3>1, <3>2
  <2> HIDE DEF next, at
  <2> QED BY <2>1
<1>3. PICK g : g = CHOOSE h : good(h)
  OBVIOUS
<1>4. good(g)
  <2> HIDE DEF good
  <2> QED BY <1>2, <1>3
<1>5. \A k \in 0 .. n : g[k] = at(k)
  <2> DEFINE T == {k \in 0 .. n : g[k] # at(k)}
  <2> SUFFICES ASSUME T # {} PROVE FALSE
    OBVIOUS
  <2>1. PICK m \in T : \A k \in T : m <= k
    <3>1. T \in SUBSET Nat
      BY <1>0
    <3> HIDE DEF T
    <3> QED BY <3>1, LeastNat
  <2>2. g[m] = next(g, m)
    BY <1>0, <1>4
  <2>3. m # 0
    BY <2>2
  <2>4. m \in 1 .. n /\ m - 1 \in 0 .. n /\ m - 1 \notin T /\ at(m - 1) = m - 1
    BY <1>0, <2>1, <2>3
  <2>5. g[m - 1] = m - 1
    BY <2>4
  <2>6. g[m] = at(m)
    <3> HIDE DEF at
    <3> QED BY <1>1, <2>2, <2>3, <2>4, <2>5
  <2> QED BY <2>6
<1>6. {g[k] : k \in 0 .. n - 1} = 0 .. n - 1 /\ g[n] = 0
  <2>1. \A k \in 0 .. n - 1 : g[k] = k
    BY <1>0, <1>5
  <2> QED BY <1>0, <1>5, <2>1
<1> HIDE DEF at, s
<1> QED BY <1>3, <1>6 DEF n

\* The chain of a new disk goes once through all its rows, for any number of rows that
\* fits into a byte, any size and whatever rand() returns.
THEOREM FormatChainsHolds == Spec => []FormatChains
<1>1. FormatInv => FormatChains
  <2> SUFFICES ASSUME FormatInv, pc = "format", Len(rows) <= BYTE PROVE FormatChains
    BY DEF FormatChains
  <2>1. PICK n \in RowCounts, size \in Sizes, fill \in FILLS : rows = FormatRows(n, size, fill)
    BY DEF FormatInv
  <2>2. n \in Nat \ {0} /\ size \in Nat /\ size > 0 /\ fill \in Cells
    BY DiskAssumption DEF Cells
  <2>3. AreRows(rows, n, size) /\ Chained(rows, n)
    BY <2>1, <2>2, FormatRowsAre
  <2>4. Len(rows) = n
    BY <2>3 DEF AreRows
  <2> QED BY <2>2, <2>3, <2>4, ChainOnce DEF FormatChains
<1> QED BY <1>1, FormatInvariant, PTL

-----------------------------------------------------------------------------
(* The geometry of a disk.                                                 *)

\* Commands that keep the geometry: names are not cut, -init is not used and the process
\* is not started again, which both set a geometry that is not the disk's.
Documented ==
  /\ ShortLines /\ Commands \subseteq {"mkdisk", "write", "delete", "list"}
  /\ \A v \in Volumes : CurrentOf(v) = FileOf(v)

LEMMA NoCrashes == Documented => ~ Crashes
  BY DEF Documented, Crashes

\* A file of n rows of one size.
IsDisk(lines, n, size) == lines[1] = Header(size) /\ AreRows(AfterHeader(lines), n, size)

\* The rows of the write under way.
NewRows == [LoadedRows EXCEPT ![Slot(arg[1])] = [label |-> arg[1], data |-> arg[2]]]

DiskInv ==
  /\ g_total_clusters \in RowCounts \union {INIT_CLUSTERS}
  /\ g_cluster_size \in Sizes \union {INIT_SIZE}
  /\ pc \in {"idle", "open"} /\ file[current_disk_file] # <<>> =>
       IsDisk(file[current_disk_file], g_total_clusters, g_cluster_size)
  /\ pc \in {"open", "write"} =>
       /\ AreRows(rows, g_total_clusters, g_cluster_size)
       /\ arg[1] \in Int /\ 0 <= arg[1] /\ arg[1] < g_total_clusters
       /\ arg[2] \in Seq(Cells) /\ Len(arg[2]) = g_cluster_size
  /\ pc = "open" => rows = NewRows


\* What is known of the geometry as numbers.
LEMMA GeometryTyped ==
  ASSUME Documented, DiskInv
  PROVE  /\ g_total_clusters \in Nat \ {0}
         /\ g_cluster_size \in Nat \ {0} /\ g_cluster_size < LINE_CELLS
<1>1. g_total_clusters \in Nat \ {0}
  BY DiskAssumption DEF DiskInv
<1>2. g_cluster_size \in Nat \ {0} /\ g_cluster_size < LINE_CELLS
  BY SizesAreShort DEF DiskInv, Documented
<1> QED BY <1>1, <1>2

\* A header and rows of one size are a disk.
LEMMA DiskMade ==
  ASSUME NEW n \in Nat, NEW size \in Nat, NEW rs, AreRows(rs, n, size),
         NEW lines, lines = <<Header(size)>> \o rs
  PROVE  IsDisk(lines, n, size) /\ Len(lines) = n + 1 /\ AfterHeader(lines) = rs
<1>1. rs \in Seq(Lines) /\ Len(rs) = n
  BY DEF AreRows
<1>2. lines[1] = Header(size) /\ AfterHeader(lines) = rs /\ Len(lines) = n + 1
  BY <1>1, HeaderAndRows
<1> QED BY <1>2 DEF IsDisk

\* A disk has one line more than rows, the last of which is its last line.
LEMMA DiskLines ==
  ASSUME NEW n \in Nat \ {0}, NEW size \in Nat, NEW lines \in Seq(Lines), IsDisk(lines, n, size)
  PROVE  Len(lines) = n + 1 /\ Len(lines[Len(lines)].data) = size
<1>1. /\ AreRows(AfterHeader(lines), n, size) /\ Len(AfterHeader(lines)) = n
      /\ Len(AfterHeader(lines)[n].data) = size
  BY DEF IsDisk, AreRows
<1>2. Len(lines) \in Nat
  BY LenProperties
<1>3. Len(AfterHeader(lines)) = IF Len(lines) = 0 THEN 0 ELSE Len(lines) - 1
  BY AfterHeaderIs
<1>4. Len(lines) = n + 1
  BY <1>1, <1>2, <1>3
<1>5. n \in 1 .. Len(lines) - 1
  BY <1>4
<1>6. AfterHeader(lines)[n] = lines[n + 1]
  BY <1>5, AfterHeaderIs
<1> QED BY <1>1, <1>4, <1>6

\* Reading a disk gives its geometry.
LEMMA ReadOfDisk ==
  ASSUME ~ Crashes, NEW n \in Nat \ {0}, NEW size \in Nat, NEW lines, FileOK(lines),
         IsDisk(lines, n, size), ReadHeader(lines)
  PROVE  g_total_clusters' = n /\ g_cluster_size' = size
<1>1. lines \in Seq(Lines)
  BY DEF FileOK
<1>2. Len(lines) = n + 1 /\ Len(lines[Len(lines)].data) = size
  BY <1>1, DiskLines
<1>3. ~ (Len(lines) <= 1) /\ Len(lines) - 1 = n
  BY <1>2
<1> QED BY <1>2, <1>3, HeaderRead

\* What update_cluster_line loads.
LEMMA LoadedAre ==
  ASSUME Documented, FilesInv, DiskInv, pc \in {"idle", "open"}
  PROVE  /\ AreRows(LoadedRows, g_total_clusters, g_cluster_size)
         /\ file[current_disk_file] # <<>> => LoadedRows = AfterHeader(file[current_disk_file])
         /\ file[current_disk_file] = <<>> =>
              \A i \in 1 .. g_total_clusters : LoadedRows[i].data = Zeros(g_cluster_size)
<1> DEFINE F == file[current_disk_file]
           old == AfterHeader(F)
<1>1. FileOK(F) /\ F \in Seq(Lines)
  BY DEF FilesInv, FileOK
<1>2. /\ g_total_clusters \in Nat /\ g_cluster_size \in Nat /\ g_cluster_size < LINE_CELLS
  BY GeometryTyped
<1>3. /\ RowsOK(LoadedRows) /\ Len(LoadedRows) = g_total_clusters
      /\ \A i \in 1 .. g_total_clusters :
           LoadedRows[i] = IF i <= Len(old) THEN old[i]
                           ELSE [label |-> i - 1, data |-> Zeros(g_cluster_size)]
  BY <1>1, <1>2, Loaded
<1>4. LoadedRows \in Seq(Lines) /\ DOMAIN LoadedRows = 1 .. g_total_clusters
      /\ \A i \in 1 .. g_total_clusters : LoadedRows[i].label = i - 1
  BY <1>3, LenProperties, NoCrashes DEF RowsOK, Lost
<1>5. CASE F = <<>>
  <2>1. Len(old) = 0
    BY <1>1, <1>5, AfterHeaderIs, EmptySeq
  <2>2. \A i \in 1 .. g_total_clusters : LoadedRows[i].data = Zeros(g_cluster_size)
    BY <1>3, <2>1
  <2>3. Len(Zeros(g_cluster_size)) = g_cluster_size
    BY <1>2, EmptySeq, Padded
  <2> QED BY <1>3, <1>4, <1>5, <2>2, <2>3 DEF AreRows
<1>6. CASE F # <<>>
  <2>1. AreRows(old, g_total_clusters, g_cluster_size)
    BY <1>6 DEF DiskInv, IsDisk
  <2>2. \A i \in 1 .. g_total_clusters : LoadedRows[i] = old[i]
    BY <1>3, <2>1 DEF AreRows
  <2>3. LoadedRows = old
    BY <1>3, <1>4, <2>1, <2>2, SeqEqual DEF AreRows
  <2> QED BY <1>6, <2>1, <2>3
<1> QED BY <1>5, <1>6

LEMMA DiskInit == ASSUME Documented PROVE Init => DiskInv
  BY DiskAssumption DEF Init, DiskInv

\* The rows of a write have the size of the others, also when the file is a new one.
LEMMA UpdateKeepsDisk ==
  ASSUME Documented, FilesInv, DiskInv, NEW clu \in Int, NEW data \in Seq(Cells),
         Len(data) = g_cluster_size, Update(clu, data)
  PROVE  DiskInv'
<1>0. /\ g_total_clusters \in Nat /\ g_cluster_size \in Nat /\ g_cluster_size < LINE_CELLS
      /\ pc = "idle" /\ UNCHANGED <<file, current_disk_file, g_total_clusters, g_cluster_size>>
  BY GeometryTyped DEF Update, geometry
<1>1. CASE InRange(clu)
  <2>1. PICK rs : rs = LoadedRows
    OBVIOUS
  <2>2. AreRows(rs, g_total_clusters, g_cluster_size)
    BY <1>0, <2>1, LoadedAre
  <2>3. RowsOK(rs) /\ Len(rs) = g_total_clusters
    BY <1>0, <2>2, AreRowsOK DEF AreRows
  <2>4. PICK new : new = [rs EXCEPT ![Slot(clu)] = [label |-> clu, data |-> data]]
    OBVIOUS
  <2>5. /\ RowsOK(new) /\ Len(new) = Len(rs)
        /\ new[clu + 1] = [label |-> clu, data |-> data]
        /\ \A i \in 1 .. Len(rs) : i # clu + 1 => new[i] = rs[i]
    <3>1. 0 <= clu /\ clu < Len(rs) /\ Len(data) < LINE_CELLS
      BY <1>0, <1>1, <2>3 DEF InRange
    <3>2. RowsOK(rs)
      BY <2>3
    <3>3. Replaced(new, rs, clu, data)
      BY <2>4, <3>1, <3>2, Updated
    <3> QED BY <3>3 DEF Replaced
  <2>6. AreRows(new, g_total_clusters, g_cluster_size)
    <3>1. new \in Seq(Lines)
      BY <2>5 DEF RowsOK
    <3>2. \A i \in 1 .. g_total_clusters : new[i].label = i - 1 /\ Len(new[i].data) = g_cluster_size
      BY <2>2, <2>3, <2>5 DEF AreRows
    <3> QED BY <2>3, <2>5, <3>1, <3>2 DEF AreRows
  <2>7. rows' = new /\ pc' = "open" /\ arg' = <<clu, data>>
    BY <1>1, <2>1, <2>4 DEF Update
  <2>8. LoadedRows' = rs
    BY <1>0, <2>1 DEF LoadedRows
  <2>9. NewRows' = new
    BY <2>4, <2>7, <2>8 DEF NewRows, Slot
  <2>10. arg'[1] = clu /\ arg'[2] = data /\ 0 <= clu /\ clu < g_total_clusters
    BY <1>1, <2>7 DEF InRange
  <2> QED BY <1>0, <2>6, <2>7, <2>9, <2>10 DEF DiskInv
<1>2. CASE ~ InRange(clu)
  BY <1>0, <1>2 DEF Update, DiskInv
<1> QED BY <1>1, <1>2

\* The file that -mkdisk closes is a disk of the geometry asked for.
LEMMA MkdiskMakes ==
  ASSUME Documented, FilesInv, FormatInv, MkdiskClose
  PROVE  /\ IsDisk(file'[current_disk_file'], arg[2], arg[3])
         /\ AfterHeader(file'[current_disk_file']) = rows
         /\ arg[2] \in RowCounts /\ arg[3] \in Sizes /\ AreRows(rows, arg[2], arg[3])
<1>1. PICK n \in RowCounts, size \in Sizes, fill \in FILLS :
        rows = FormatRows(n, size, fill) /\ arg[2] = n /\ arg[3] = size
  BY DEF MkdiskClose, FormatInv
<1>2. n \in Nat /\ size \in Nat /\ fill \in Cells /\ file \in [Files -> Seq(Lines)]
  BY SizesAreShort, DiskAssumption DEF Cells, FilesInv, Documented
<1>3. AreRows(rows, n, size)
  BY <1>1, <1>2, FormatRowsAre
<1>4. PICK lines : lines = <<Header(size)>> \o rows
  OBVIOUS
<1>5. IsDisk(lines, n, size) /\ AfterHeader(lines) = rows
  <2>1. n \in Nat /\ size \in Nat
    BY <1>2
  <2>2. IsDisk(lines, n, size)
    BY <1>3, <1>4, <2>1, DiskMade
  <2>3. AfterHeader(lines) = rows
    BY <1>3, <1>4, <2>1, HeaderAndRows DEF AreRows
  <2> QED BY <2>2, <2>3
<1>6. FileOf(arg[1]) \in Files /\ CurrentOf(arg[1]) = FileOf(arg[1])
  BY DiskAssumption DEF MkdiskClose, FilesInv, Documented
<1>7. file'[current_disk_file'] = lines
  BY <1>1, <1>2, <1>4, <1>6 DEF MkdiskClose
<1> QED BY <1>1, <1>3, <1>5, <1>7

\* The file that a write closes is a disk of the geometry it had.
LEMMA WriteMakes ==
  ASSUME Documented, FilesInv, DiskInv, UpdateClose
  PROVE  /\ IsDisk(file'[current_disk_file], g_total_clusters, g_cluster_size)
         /\ AfterHeader(file'[current_disk_file]) = rows
         /\ UNCHANGED <<g_total_clusters, g_cluster_size>>
<1>1. /\ g_total_clusters \in Nat \ {0} /\ g_cluster_size \in Nat \ {0}
      /\ file \in [Files -> Seq(Lines)] /\ current_disk_file \in Files
  BY GeometryTyped DEF FilesInv
<1>2. AreRows(rows, g_total_clusters, g_cluster_size)
  BY DEF UpdateClose, DiskInv
<1>3. PICK lines : lines = <<Header(g_cluster_size)>> \o rows
  OBVIOUS
<1>4. IsDisk(lines, g_total_clusters, g_cluster_size) /\ AfterHeader(lines) = rows
  <2>1. PICK n \in Nat : n = g_total_clusters
    BY <1>1
  <2>2. PICK size \in Nat : size = g_cluster_size
    BY <1>1
  <2>3. PICK rs : rs = rows
    OBVIOUS
  <2>4. AreRows(rs, n, size) /\ lines = <<Header(size)>> \o rs
    BY <1>2, <1>3, <2>1, <2>2, <2>3
  <2>5. IsDisk(lines, n, size) /\ AfterHeader(lines) = rs
    <3>1. rs \in Seq(Lines) /\ Len(rs) = n
      BY <2>4 DEF AreRows
    <3>2. lines[1] = Header(size) /\ AfterHeader(lines) = rs
      BY <2>4, <3>1, HeaderAndRows
    <3> QED BY <2>4, <3>2 DEF IsDisk
  <2> QED BY <2>1, <2>2, <2>3, <2>5
<1>5. FileOK(lines)
  BY <1>3, HeaderAndRows DEF FilesInv, RowsOK
<1>6. file'[current_disk_file] = lines
  BY <1>1, <1>3 DEF UpdateClose
<1>7. ReadHeader(lines)
  BY <1>6 DEF UpdateClose
<1>8. UNCHANGED <<g_total_clusters, g_cluster_size>>
  BY <1>1, <1>4, <1>5, <1>7, NoCrashes, ReadOfDisk
<1> QED BY <1>4, <1>6, <1>8

\* Listing a disk finds the geometry that is in memory.
LEMMA ListKeeps ==
  ASSUME Documented, FilesInv, DiskInv, ListClusters
  PROVE  UNCHANGED <<g_total_clusters, g_cluster_size>>
<1>1. PICK lines : lines = file[current_disk_file]
  OBVIOUS
<1>2. FileOK(lines) /\ ReadHeader(lines) /\ pc = "idle"
  BY <1>1 DEF ListClusters, Says, FilesInv
<1>3. CASE lines = <<>>
  BY <1>2, <1>3, EmptySeq, NoCrashes, HeaderRead DEF geometry
<1>4. CASE lines # <<>>
  <2>1. IsDisk(lines, g_total_clusters, g_cluster_size)
    BY <1>1, <1>2, <1>4 DEF DiskInv
  <2>2. g_total_clusters \in Nat \ {0} /\ g_cluster_size \in Nat
    BY GeometryTyped
  <2> QED BY <1>2, <2>1, <2>2, NoCrashes, ReadOfDisk
<1> QED BY <1>3, <1>4

LEMMA DiskStep == ASSUME Documented PROVE FilesInv /\ FormatInv /\ DiskInv /\ [Next]_vars => DiskInv'
<1> SUFFICES ASSUME FilesInv, FormatInv, DiskInv, [Next]_vars PROVE DiskInv'
  OBVIOUS
<1>1. ASSUME NEW v \in Volumes, NEW n \in RowCounts, NEW size \in Sizes, Mkdisk(v, n, size)
      PROVE  DiskInv'
  BY <1>1 DEF Mkdisk, geometry, DiskInv
<1>2. ASSUME NEW n \in RowCounts, NEW size \in Sizes, SoftInit(n, size) PROVE DiskInv'
  BY <1>2 DEF SoftInit, Says, Documented
<1>3. ASSUME NEW clu \in Indexes, DeleteCluster(clu) PROVE DiskInv'
  <2>1. clu \in Int /\ Zeros(g_cluster_size) \in Seq(Cells)
        /\ Len(Zeros(g_cluster_size)) = g_cluster_size
    BY EmptySeq, Padded, DiskAssumption DEF FilesInv
  <2> QED BY <1>3, <2>1, UpdateKeepsDisk DEF DeleteCluster
<1>4. ASSUME NEW clu \in Indexes, NEW data \in Data, WriteCluster(clu, data) PROVE DiskInv'
  <2>1. clu \in Int /\ Pad(data, g_cluster_size) \in Seq(Cells)
        /\ Len(Pad(data, g_cluster_size)) = g_cluster_size
    BY Padded, DiskAssumption DEF FilesInv, Cells
  <2> QED BY <1>4, <2>1, UpdateKeepsDisk DEF WriteCluster
<1>5. CASE MkdiskClose
  BY <1>5, MkdiskMakes DEF MkdiskClose, SizeMade, DiskInv
<1>6. CASE UpdateOpen
  BY <1>6 DEF UpdateOpen, geometry, DiskInv
<1>7. CASE UpdateClose
  BY <1>7, WriteMakes DEF UpdateClose, DiskInv
<1>8. CASE ListClusters
  BY <1>8, ListKeeps DEF ListClusters, Says, DiskInv
<1>9. CASE Crash
  BY <1>9 DEF Crash, Documented
<1>10. CASE UNCHANGED vars
  <2>1. NewRows' = NewRows
    BY <1>10 DEF vars, geometry, NewRows, LoadedRows
  <2> QED BY <1>10, <2>1 DEF vars, geometry, DiskInv
<1> QED BY <1>1, <1>2, <1>3, <1>4, <1>5, <1>6, <1>7, <1>8, <1>9, <1>10 DEF Next

LEMMA DiskInvariant == ASSUME Documented PROVE Spec => [](FilesInv /\ DiskInv)
<1>1. ShortLines
  BY DEF Documented
<1> QED BY <1>1, DiskInit, DiskStep, FilesInvariant, FormatInvariant, PTL DEF Spec

\* The rows the readers find are those behind the header.
LEMMA CurrentIs == Documented /\ FilesInv => Current = AfterHeader(file[current_disk_file])
  BY ReadersSee, NoCrashes DEF Current, FilesInv

\* Between two commands the geometry in memory is that of the current disk, and what is
\* printed is what the file holds, after any disks made, written, deleted from and listed,
\* for any files, row counts, sizes and data.
THEOREM GeometryIsOfTheDiskHolds == ASSUME Documented PROVE Spec => []GeometryIsOfTheDisk
<1>1. FilesInv /\ DiskInv => GeometryIsOfTheDisk
  <2> SUFFICES ASSUME FilesInv, DiskInv, pc = "idle", Current # <<>> PROVE GeometryIsOfTheDisk
    BY DEF GeometryIsOfTheDisk
  <2>1. PICK lines : lines = file[current_disk_file]
    OBVIOUS
  <2>2. /\ FileOK(lines) /\ lines \in Seq(Lines) /\ Current = AfterHeader(lines)
        /\ ReadRows(lines) = AfterHeader(lines)
    BY <2>1, CurrentIs, ReadersSee, NoCrashes DEF FilesInv, FileOK
  <2>3. lines # <<>>
    BY <2>2 DEF AfterHeader
  <2>4. lines[1] = Header(g_cluster_size) /\ AreRows(Current, g_total_clusters, g_cluster_size)
    BY <2>1, <2>2, <2>3 DEF DiskInv, IsDisk
  <2>5. g_total_clusters = Len(Current) /\ \A i \in DOMAIN Current : Len(Current[i].data) = g_cluster_size
    BY <2>4, LenProperties DEF AreRows
  <2>6. Printed(lines) = lines
    <3>1. Printed(lines) = <<Header(g_cluster_size)>> \o Current
      BY <2>2 DEF Printed
    <3>2. PICK made : made = <<Header(g_cluster_size)>> \o Current
      OBVIOUS
    <3>3. g_cluster_size \in Nat /\ g_total_clusters \in Nat \ {0} /\ Current \in Seq(Lines)
      BY <2>4, GeometryTyped DEF AreRows
    <3>4. /\ made \in Seq(Lines) /\ Len(made) = Len(Current) + 1 /\ made[1] = Header(g_cluster_size)
          /\ \A i \in 1 .. Len(Current) : made[i + 1] = Current[i]
      BY <3>2, <3>3, HeaderAndRows
    <3>5. Len(lines) = Len(Current) + 1
      BY <2>2, <2>4, <2>5, <3>3, DiskLines DEF IsDisk
    <3>6. \A i \in 1 .. Len(Current) : lines[i + 1] = Current[i]
      BY <2>2, <2>5, <3>3, <3>5, AfterHeaderIs
    <3>7. \A i \in 1 .. Len(made) : made[i] = lines[i]
      <4> SUFFICES ASSUME NEW i \in 1 .. Len(made) PROVE made[i] = lines[i]
        OBVIOUS
      <4>1. CASE i = 1
        BY <2>4, <3>4, <4>1
      <4>2. CASE i # 1
        <5>1. i - 1 \in 1 .. Len(Current) /\ (i - 1) + 1 = i
          BY <2>5, <3>3, <3>4, <4>2
        <5> QED BY <3>4, <3>6, <5>1
      <4> QED BY <4>1, <4>2
    <3> QED BY <2>2, <3>1, <3>2, <3>4, <3>5, <3>7, SeqEqual
  <2> QED BY <2>1, <2>5, <2>6 DEF GeometryIsOfTheDisk
<1> QED BY <1>1, DiskInvariant, PTL

-----------------------------------------------------------------------------
(* Counting.                                                               *)

\* Total adds up its argument from the first element on.
LEMMA TotalSums ==
  ASSUME NEW f, Len(f) \in Nat
  PROVE  \E sum : /\ sum[0] = 0 /\ Total(f) = sum[Len(f)]
                  /\ \A k \in 1 .. Len(f) : sum[k] = sum[k - 1] + f[k]
<1> DEFINE n == Len(f)
           next(s, k) == IF k = 0 THEN 0 ELSE s[k - 1] + f[k]
           good(s, m) == s = [k \in 0 .. m |-> next(s, k)]
<1>0. n \in Nat
  OBVIOUS
<1> HIDE DEF n
<1>1. \A s, m : good(s, m) => \A k \in 0 .. m : s[k] = next(s, k)
  OBVIOUS
<1>2. ASSUME NEW m \in Nat, m <= n PROVE \E s : good(s, m)
  <2> DEFINE T == {k \in Nat : ~ \E s : good(s, k)}
  <2> SUFFICES ASSUME T # {} PROVE FALSE
    <3> HIDE DEF good
    <3> QED OBVIOUS
  <2>1. PICK l \in T : \A k \in T : l <= k
    <3>1. T \in SUBSET Nat
      OBVIOUS
    <3> HIDE DEF T
    <3> QED BY <3>1, LeastNat
  <2>2. l # 0
    <3> DEFINE z == [k \in 0 .. 0 |-> 0]
    <3>1. good(z, 0)
      OBVIOUS
    <3> HIDE DEF good, z
    <3> QED BY <2>1, <3>1
  <2>3. l \in Nat /\ l - 1 \in Nat /\ l - 1 \notin T
    BY <2>1, <2>2, SMTT(30)
  <2>4. PICK s : good(s, l - 1)
    <3> HIDE DEF good
    <3> QED BY <2>3
  <2> DEFINE g == [k \in 0 .. l |-> IF k < l THEN s[k] ELSE next(s, l)]
  <2>5. \A k \in 0 .. l - 1 : s[k] = next(s, k)
    BY <1>1, <2>4
  <2>6. ASSUME NEW k \in 0 .. l PROVE g[k] = next(g, k)
    <3>1. CASE k = 0
      BY <2>2, <2>3, <2>5, <3>1
    <3>2. CASE k # 0
      <4>1. k - 1 \in 0 .. l /\ k - 1 < l
        BY <2>3, <3>2
      <4>2. g[k - 1] = s[k - 1]
        BY <4>1
      <4>3. g[k] = next(s, k)
        <5>1. CASE k < l
          <6>1. k \in 0 .. l - 1
            BY <2>3, <5>1
          <6> QED BY <2>5, <5>1, <6>1
        <5>2. CASE k = l
          BY <5>2
        <5> QED BY <2>3, <5>1, <5>2
      <4> HIDE DEF g
      <4> QED BY <3>2, <4>2, <4>3
    <3> QED BY <3>1, <3>2
  <2>7. good(g, l)
    <3>1. g = [k \in 0 .. l |-> g[k]]
      OBVIOUS
    <3> HIDE DEF g, next
    <3> QED BY <2>6, <3>1
  <2> HIDE DEF good, g
  <2> QED BY <2>1, <2>7
<1>3. PICK sum : sum = CHOOSE s : good(s, n)
  OBVIOUS
<1>4. good(sum, n)
  <2> HIDE DEF good
  <2>1. n \in Nat /\ n <= n
    BY <1>0
  <2>2. \E s : good(s, n)
    BY <1>2, <2>1
  <2> QED BY <1>3, <2>2
<1>5. Total(f) = sum[n]
  BY <1>3 DEF Total, n
<1>6. \A k \in 0 .. n : sum[k] = next(sum, k)
  BY <1>1, <1>4
<1>7. sum[0] = 0 /\ \A k \in 1 .. n : sum[k] = sum[k - 1] + f[k]
  BY <1>0, <1>6
<1> QED BY <1>5, <1>7 DEF n

\* How many numbers up to k are in P.
UpTo(P, k) == Cardinality({i \in 1 .. k : i \in P})

LEMMA UpToCounts ==
  ASSUME NEW P, NEW k \in Nat
  PROVE  /\ UpTo(P, 0) = 0 /\ UpTo(P, k) \in Nat
         /\ UpTo(P, k + 1) = UpTo(P, k) + (IF k + 1 \in P THEN 1 ELSE 0)
<1> DEFINE A == {i \in 1 .. k : i \in P}
<1>1. UpTo(P, 0) = 0
  <2>1. {i \in 1 .. 0 : i \in P} = {}
    OBVIOUS
  <2> QED BY <2>1, FS_EmptySet DEF UpTo
<1>2. IsFiniteSet(A) /\ k + 1 \notin A
  <2>1. IsFiniteSet(1 .. k) /\ A \subseteq 1 .. k
    BY FS_Interval
  <2> QED BY <2>1, FS_Subset
<1>3. Cardinality(A) \in Nat /\ Cardinality(A \union {k + 1}) = Cardinality(A) + 1
  <2> HIDE DEF A
  <2> QED BY <1>2, FS_CardinalityType, FS_AddElement
<1>4. CASE k + 1 \in P
  <2>1. {i \in 1 .. k + 1 : i \in P} = A \union {k + 1}
    BY <1>4
  <2> QED BY <1>1, <1>3, <1>4, <2>1 DEF UpTo
<1>5. CASE k + 1 \notin P
  <2>1. {i \in 1 .. k + 1 : i \in P} = A
    BY <1>5
  <2> QED BY <1>1, <1>3, <1>5, <2>1 DEF UpTo
<1> QED BY <1>4, <1>5

\* The bit of a byte that a mask selects.
BitOf(byte, mask) == IF (byte \div mask) % 2 = 1 THEN 1 ELSE 0

LEMMA ByteIsBits ==
  ASSUME NEW byte \in 0 .. 255
  PROVE  byte = 128 * BitOf(byte, 128) + 64 * BitOf(byte, 64) + 32 * BitOf(byte, 32)
                + 16 * BitOf(byte, 16) + 8 * BitOf(byte, 8) + 4 * BitOf(byte, 4)
                + 2 * BitOf(byte, 2) + BitOf(byte, 1)
BY DEF BitOf

\* Counting the elements that are in P one by one.
LEMMA CountedOneByOne ==
  ASSUME NEW n \in Nat, NEW P, NEW sum, sum[0] = 0,
         \A k \in 1 .. n : sum[k] = sum[k - 1] + (IF k \in P THEN 1 ELSE 0)
  PROVE  UpTo(P, n) = sum[n]
<1> DEFINE T == {k \in 0 .. n : UpTo(P, k) # sum[k]}
<1> SUFFICES ASSUME T # {} PROVE FALSE
  OBVIOUS
<1>1. PICK l \in T : \A k \in T : l <= k
  <2>1. T \in SUBSET Nat
    OBVIOUS
  <2> HIDE DEF T
  <2> QED BY <2>1, LeastNat
<1>2. l # 0
  BY UpToCounts
<1>3. l \in 1 .. n /\ l - 1 \in Nat /\ l - 1 \in 0 .. n /\ l - 1 \notin T /\ (l - 1) + 1 = l
  BY <1>1, <1>2
<1>4. UpTo(P, l) = UpTo(P, l - 1) + (IF l \in P THEN 1 ELSE 0)
  BY <1>3, UpToCounts
<1> QED BY <1>1, <1>3, <1>4

BitsCounted(ones, data, n) ==
  \A bit \in 1 .. 8 : ones[bit] = Cardinality({i \in 1 .. n : (data[i] \div Mask[bit]) % 2 = 1})

Weighted(ones) == Total([bit \in 1 .. 8 |-> ones[bit] * Mask[bit]])

\* How many of the first k bytes have a bit.
Having(data, n, mask, k) == UpTo({i \in 1 .. n : (data[i] \div mask) % 2 = 1}, k)

LEMMA HavingIsNat ==
  ASSUME NEW data, NEW n, NEW mask, NEW k \in Nat
  PROVE  Having(data, n, mask, k) \in Nat /\ Having(data, n, mask, 0) = 0
BY UpToCounts DEF Having

LEMMA HavingCounts ==
  ASSUME NEW n \in Nat, NEW data \in [1 .. n -> 0 .. 255], NEW k \in 1 .. n, NEW mask
  PROVE  Having(data, n, mask, k) = Having(data, n, mask, k - 1) + BitOf(data[k], mask)
<1> DEFINE P == {i \in 1 .. n : (data[i] \div mask) % 2 = 1}
<1>1. PICK j \in Nat : j = k - 1 /\ k = j + 1
  OBVIOUS
<1>2. (IF k \in P THEN 1 ELSE 0) = BitOf(data[k], mask)
  BY DEF BitOf
<1>3. Having(data, n, mask, k) = UpTo(P, k) /\ Having(data, n, mask, k - 1) = UpTo(P, j)
  BY <1>1 DEF Having
<1> HIDE DEF P
<1>4. UpTo(P, j + 1) = UpTo(P, j) + (IF j + 1 \in P THEN 1 ELSE 0)
  BY UpToCounts
<1> QED BY <1>1, <1>2, <1>3, <1>4

LEMMA AddBits ==
  ASSUME NEW a1 \in Int, NEW a2 \in Int, NEW a3 \in Int, NEW a4 \in Int,
         NEW a5 \in Int, NEW a6 \in Int, NEW a7 \in Int, NEW a8 \in Int,
         NEW b1 \in Int, NEW b2 \in Int, NEW b3 \in Int, NEW b4 \in Int,
         NEW b5 \in Int, NEW b6 \in Int, NEW b7 \in Int, NEW b8 \in Int
  PROVE  128 * (a1 + b1) + 64 * (a2 + b2) + 32 * (a3 + b3) + 16 * (a4 + b4)
           + 8 * (a5 + b5) + 4 * (a6 + b6) + 2 * (a7 + b7) + (a8 + b8)
         = (128 * a1 + 64 * a2 + 32 * a3 + 16 * a4 + 8 * a5 + 4 * a6 + 2 * a7 + a8)
           + (128 * b1 + 64 * b2 + 32 * b3 + 16 * b4 + 8 * b5 + 4 * b6 + 2 * b7 + b8)
OBVIOUS

\* The bits of some bytes add up to the bytes.
LEMMA BitsAddUp ==
  ASSUME NEW n \in Nat, NEW data \in [1 .. n -> 0 .. 255], NEW sum, sum[0] = 0,
         \A k \in 1 .. n : sum[k] = sum[k - 1] + data[k],
         NEW ones, BitsCounted(ones, data, n)
  PROVE  Weighted(ones) = sum[n]
<1> DEFINE c(mask, k) == Having(data, n, mask, k)
           all(k) == 128 * c(128, k) + 64 * c(64, k) + 32 * c(32, k) + 16 * c(16, k)
                     + 8 * c(8, k) + 4 * c(4, k) + 2 * c(2, k) + c(1, k)
<1>2. ASSUME NEW k \in 1 .. n PROVE all(k) = all(k - 1) + data[k]
  <2>1. PICK byte : byte = data[k] /\ byte \in 0 .. 255
    OBVIOUS
  <2>2. /\ c(128, k) = c(128, k - 1) + BitOf(byte, 128) /\ c(64, k) = c(64, k - 1) + BitOf(byte, 64)
        /\ c(32, k) = c(32, k - 1) + BitOf(byte, 32) /\ c(16, k) = c(16, k - 1) + BitOf(byte, 16)
        /\ c(8, k) = c(8, k - 1) + BitOf(byte, 8) /\ c(4, k) = c(4, k - 1) + BitOf(byte, 4)
        /\ c(2, k) = c(2, k - 1) + BitOf(byte, 2) /\ c(1, k) = c(1, k - 1) + BitOf(byte, 1)
    <3>1. ASSUME NEW mask PROVE c(mask, k) = c(mask, k - 1) + BitOf(byte, mask)
      BY <2>1, HavingCounts
    <3> HIDE DEF c
    <3> QED BY <3>1
  <2>3. /\ c(128, k - 1) \in Nat /\ c(64, k - 1) \in Nat /\ c(32, k - 1) \in Nat
        /\ c(16, k - 1) \in Nat /\ c(8, k - 1) \in Nat /\ c(4, k - 1) \in Nat
        /\ c(2, k - 1) \in Nat /\ c(1, k - 1) \in Nat
    <3>1. k - 1 \in Nat
      OBVIOUS
    <3> QED BY <3>1, HavingIsNat
  <2>4. byte = 128 * BitOf(byte, 128) + 64 * BitOf(byte, 64) + 32 * BitOf(byte, 32)
               + 16 * BitOf(byte, 16) + 8 * BitOf(byte, 8) + 4 * BitOf(byte, 4)
               + 2 * BitOf(byte, 2) + BitOf(byte, 1)
    <3>1. byte \in 0 .. 255
      BY <2>1
    <3> QED BY <3>1, ByteIsBits
  <2>5. \A mask : BitOf(byte, mask) \in Int
    BY DEF BitOf
  <2> DEFINE a1 == c(128, k - 1)  b1 == BitOf(byte, 128)
             a2 == c(64, k - 1)  b2 == BitOf(byte, 64)
             a3 == c(32, k - 1)  b3 == BitOf(byte, 32)
             a4 == c(16, k - 1)  b4 == BitOf(byte, 16)
             a5 == c(8, k - 1)  b5 == BitOf(byte, 8)
             a6 == c(4, k - 1)  b6 == BitOf(byte, 4)
             a7 == c(2, k - 1)  b7 == BitOf(byte, 2)
             a8 == c(1, k - 1)  b8 == BitOf(byte, 1)
  <2>6. all(k) = 128 * (a1 + b1) + 64 * (a2 + b2) + 32 * (a3 + b3) + 16 * (a4 + b4)
                   + 8 * (a5 + b5) + 4 * (a6 + b6) + 2 * (a7 + b7) + (a8 + b8)
    BY <2>2
  <2>7. /\ all(k - 1) = 128 * a1 + 64 * a2 + 32 * a3 + 16 * a4 + 8 * a5 + 4 * a6 + 2 * a7 + a8
        /\ byte = 128 * b1 + 64 * b2 + 32 * b3 + 16 * b4 + 8 * b5 + 4 * b6 + 2 * b7 + b8
    BY <2>4
  <2>8. /\ a1 \in Int /\ a2 \in Int /\ a3 \in Int /\ a4 \in Int
        /\ a5 \in Int /\ a6 \in Int /\ a7 \in Int /\ a8 \in Int
        /\ b1 \in Int /\ b2 \in Int /\ b3 \in Int /\ b4 \in Int
        /\ b5 \in Int /\ b6 \in Int /\ b7 \in Int /\ b8 \in Int
    <3>1. /\ a1 \in Int /\ a2 \in Int /\ a3 \in Int /\ a4 \in Int
          /\ a5 \in Int /\ a6 \in Int /\ a7 \in Int /\ a8 \in Int
      BY <2>3
    <3>2. /\ b1 \in Int /\ b2 \in Int /\ b3 \in Int /\ b4 \in Int
          /\ b5 \in Int /\ b6 \in Int /\ b7 \in Int /\ b8 \in Int
      BY <2>5
    <3> QED BY <3>1, <3>2
  <2> HIDE DEF a1, a2, a3, a4, a5, a6, a7, a8, b1, b2, b3, b4, b5, b6, b7, b8, all
  <2> QED BY <2>1, <2>6, <2>7, <2>8, AddBits
<1>3. all(0) = 0
  <2>1. /\ c(128, 0) = 0 /\ c(64, 0) = 0 /\ c(32, 0) = 0 /\ c(16, 0) = 0
        /\ c(8, 0) = 0 /\ c(4, 0) = 0 /\ c(2, 0) = 0 /\ c(1, 0) = 0
    BY HavingIsNat
  <2> QED BY <2>1
<1>4. all(n) = sum[n]
  <2> HIDE DEF all, c
  <2> DEFINE T == {k \in 0 .. n : all(k) # sum[k]}
  <2> SUFFICES ASSUME T # {} PROVE FALSE
    OBVIOUS
  <2>1. PICK l \in T : \A k \in T : l <= k
    <3>1. T \in SUBSET Nat
      OBVIOUS
    <3> HIDE DEF T
    <3> QED BY <3>1, LeastNat
  <2>2. l # 0
    BY <1>3
  <2>3. l \in 1 .. n /\ l - 1 \in 0 .. n /\ l - 1 \notin T
    BY <2>1, <2>2
  <2>4. all(l) = all(l - 1) + data[l] /\ all(l - 1) = sum[l - 1]
    BY <1>2, <2>3
  <2> QED BY <2>1, <2>3, <2>4
<1> DEFINE f == [bit \in 1 .. 8 |-> ones[bit] * Mask[bit]]
<1>5. ASSUME NEW bit \in 1 .. 8 PROVE ones[bit] = c(Mask[bit], n)
  <2>1. {i \in 1 .. n : (data[i] \div Mask[bit]) % 2 = 1}
        = {i \in 1 .. n : i \in {i2 \in 1 .. n : (data[i2] \div Mask[bit]) % 2 = 1}}
    OBVIOUS
  <2> QED BY <2>1 DEF Having, UpTo, BitsCounted
<1>6. /\ f[1] = c(128, n) * 128 /\ f[2] = c(64, n) * 64 /\ f[3] = c(32, n) * 32 /\ f[4] = c(16, n) * 16
      /\ f[5] = c(8, n) * 8 /\ f[6] = c(4, n) * 4 /\ f[7] = c(2, n) * 2 /\ f[8] = c(1, n) * 1
  <2> HIDE DEF c
  <2>1. \A bit \in 1 .. 8 : f[bit] = c(Mask[bit], n) * Mask[bit]
    BY <1>5
  <2> HIDE DEF f
  <2> QED BY <2>1 DEF Mask
<1>7. /\ c(128, n) \in Nat /\ c(64, n) \in Nat /\ c(32, n) \in Nat /\ c(16, n) \in Nat
      /\ c(8, n) \in Nat /\ c(4, n) \in Nat /\ c(2, n) \in Nat /\ c(1, n) \in Nat
  BY HavingIsNat
<1>8. Len(f) = 8
  BY IsSequence
<1> HIDE DEF f, c
<1>9. PICK s : s[0] = 0 /\ Total(f) = s[8] /\ \A k \in 1 .. 8 : s[k] = s[k - 1] + f[k]
  <2>1. PICK s : /\ s[0] = 0 /\ Total(f) = s[Len(f)]
                 /\ \A k \in 1 .. Len(f) : s[k] = s[k - 1] + f[k]
    <3>1. Len(f) \in Nat
      BY <1>8
    <3> QED BY <3>1, TotalSums
  <2> QED BY <1>8, <2>1
<1>10. /\ s[1] = s[0] + f[1] /\ s[2] = s[1] + f[2] /\ s[3] = s[2] + f[3] /\ s[4] = s[3] + f[4]
       /\ s[5] = s[4] + f[5] /\ s[6] = s[5] + f[6] /\ s[7] = s[6] + f[7] /\ s[8] = s[7] + f[8]
  <2>1. \A k \in 1 .. 8 : s[k] = s[k - 1] + f[k]
    BY <1>9
  <2> QED BY <2>1
<1>11. s[8] = all(n)
  BY <1>6, <1>7, <1>9, <1>10, SMTT(30)
<1> HIDE DEF all
<1> QED BY <1>4, <1>9, <1>11 DEF f, Weighted

\* What the readers count of a row is what the data has.
LEMMA RowCounted ==
  ASSUME NEW data \in Seq(Cells), NEW row, Bytes(row) = data
  PROVE  CountsAddUp(row, data)
<1> DEFINE n == Len(data)
           isUsed == [i \in DOMAIN data |-> IF data[i] = 0 THEN 0 ELSE 1]
           used == {i \in 1 .. n : data[i] # 0}
<1>1. n \in Nat /\ DOMAIN data = 1 .. n /\ data \in [1 .. n -> 0 .. 255]
  <2>1. data \in [1 .. n -> Cells] /\ n \in Nat /\ DOMAIN data = 1 .. n
    BY LenProperties
  <2>2. Cells \subseteq 0 .. 255
    BY DiskAssumption DEF Cells
  <2> QED BY <2>1, <2>2
<1>2. UsedBytes(data) = Total(isUsed)
  <2>1. Len(isUsed) = n
    BY <1>1, IsSequence
  <2>2. PICK sum : sum[0] = 0 /\ Total(isUsed) = sum[n]
                   /\ \A k \in 1 .. n : sum[k] = sum[k - 1] + isUsed[k]
    <3> HIDE DEF isUsed
    <3> QED BY <1>1, <2>1, TotalSums
  <2>3. \A k \in 1 .. n : sum[k] = sum[k - 1] + (IF k \in used THEN 1 ELSE 0)
    BY <1>1, <2>2
  <2>4. UpTo(used, n) = sum[n]
    <3> HIDE DEF used
    <3> QED BY <1>1, <2>2, <2>3, CountedOneByOne
  <2>5. {i \in DOMAIN data : data[i] # 0} = {i \in 1 .. n : i \in used}
    BY <1>1
  <2> QED BY <2>2, <2>4, <2>5 DEF UsedBytes, UpTo
<1>3. Total([bit \in DOMAIN Mask |-> OnesCount(data)[bit] * Mask[bit]]) = Total(data)
  <2>1. PICK sum : sum[0] = 0 /\ Total(data) = sum[n]
                   /\ \A k \in 1 .. n : sum[k] = sum[k - 1] + data[k]
    BY <1>1, TotalSums
  <2>2. PICK ones : ones = OnesCount(data)
    OBVIOUS
  <2>3. DOMAIN Mask = 1 .. 8
    BY DEF Mask
  <2>4. BitsCounted(ones, data, n)
    BY <1>1, <2>2, <2>3 DEF OnesCount, BitsCounted
  <2>5. Weighted(ones) = sum[n]
    <3> HIDE DEF n, isUsed, used
    <3> QED BY <1>1, <2>1, <2>4, BitsAddUp
  <2> QED BY <2>1, <2>2, <2>3, <2>5 DEF Weighted
<1> QED BY <1>2, <1>3 DEF CountsAddUp

-----------------------------------------------------------------------------
(* What was written.                                                       *)

\* Writes that are not given up: the index is that of a cluster, the file can be opened.
WritesSucceed ==
  /\ ~ OpenFails
  /\ \A n \in RowCounts \union {INIT_CLUSTERS} : Indexes \subseteq 0 .. n - 1

\* The data is in the row of the cluster.
Written(rs, what) ==
  /\ what[1] \in Int /\ 0 <= what[1] /\ what[1] < Len(rs)
  /\ what[2] \in Seq(Cells) /\ Len(what[2]) = g_cluster_size
  /\ rs[what[1] + 1] = [label |-> what[1], data |-> what[2]]

ReportInv ==
  /\ pc = "write" => Written(rows, arg)
  /\ report # <<>> => pc = "idle" /\ Written(AfterHeader(file[current_disk_file]), report)

\* The rows about to be written hold the data.
LEMMA OpenWrites ==
  ASSUME Documented, FilesInv, DiskInv, pc = "open"
  PROVE  Written(rows, arg)
<1>1. PICK rs : rs = LoadedRows
  OBVIOUS
<1>2. PICK clu, data : clu = arg[1] /\ data = arg[2]
  OBVIOUS
<1>3. /\ g_total_clusters \in Nat /\ g_cluster_size \in Nat /\ g_cluster_size < LINE_CELLS
  BY GeometryTyped
<1>4. AreRows(rs, g_total_clusters, g_cluster_size)
  BY <1>1, LoadedAre
<1>5. RowsOK(rs) /\ Len(rs) = g_total_clusters
  BY <1>3, <1>4, AreRowsOK DEF AreRows
<1>6. /\ clu \in Int /\ 0 <= clu /\ clu < Len(rs) /\ data \in Seq(Cells) /\ Len(data) = g_cluster_size
      /\ rows = [rs EXCEPT ![Slot(clu)] = [label |-> clu, data |-> data]]
  BY <1>1, <1>2, <1>5 DEF DiskInv, NewRows
<1>7. Replaced(rows, rs, clu, data)
  BY <1>3, <1>5, <1>6, Updated
<1> QED BY <1>2, <1>6, <1>7 DEF Replaced, Written

LEMMA ReportStep ==
  ASSUME Documented, WritesSucceed
  PROVE  FilesInv /\ DiskInv /\ ReportInv /\ [Next]_vars => ReportInv'
<1> SUFFICES ASSUME FilesInv, DiskInv, ReportInv, [Next]_vars PROVE ReportInv'
  OBVIOUS
<1>1. ASSUME NEW v \in Volumes, NEW n \in RowCounts, NEW size \in Sizes, Mkdisk(v, n, size)
      PROVE  ReportInv'
  BY <1>1 DEF Mkdisk, ReportInv
<1>2. ASSUME NEW n \in RowCounts, NEW size \in Sizes, SoftInit(n, size) PROVE ReportInv'
  BY <1>2 DEF SoftInit, Says, Documented
<1>3. ASSUME NEW clu \in Indexes, NEW data, Update(clu, data) PROVE ReportInv'
  <2>1. InRange(clu)
    <3>1. clu \in 0 .. g_total_clusters - 1 /\ g_total_clusters \in Nat
      BY GeometryTyped DEF DiskInv, WritesSucceed
    <3> QED BY <3>1 DEF InRange
  <2> QED BY <1>3, <2>1 DEF Update, ReportInv
<1>4. CASE MkdiskClose
  BY <1>4 DEF MkdiskClose, ReportInv
<1>5. CASE UpdateOpen
  <2>1. UNCHANGED <<rows, arg, report, g_cluster_size>> /\ pc = "open" /\ pc' = "write"
    BY <1>5 DEF UpdateOpen, WritesSucceed, geometry
  <2>2. Written(rows, arg)
    BY <2>1, OpenWrites
  <2> QED BY <2>1, <2>2 DEF ReportInv, Written
<1>6. CASE UpdateClose
  <2>1. AfterHeader(file'[current_disk_file]) = rows /\ UNCHANGED g_cluster_size
    BY <1>6, WriteMakes
  <2>2. pc = "write" /\ pc' = "idle" /\ report' = arg /\ UNCHANGED current_disk_file
    BY <1>6 DEF UpdateClose
  <2> QED BY <2>1, <2>2 DEF ReportInv, Written
<1>7. CASE ListClusters
  BY <1>7 DEF ListClusters, Says, ReportInv
<1>8. CASE Crash
  BY <1>8 DEF Crash, Documented
<1>9. CASE UNCHANGED vars
  BY <1>9 DEF vars, geometry, ReportInv, Written
<1> QED BY <1>1, <1>2, <1>3, <1>4, <1>5, <1>6, <1>7, <1>8, <1>9
  DEF Next, DeleteCluster, WriteCluster

\* What was reported as written is what the readers then find under that index, for any
\* disks, sizes and data, where the index is that of a cluster and the file can be opened.
THEOREM WroteMeansWrittenHolds ==
  ASSUME Documented, WritesSucceed
  PROVE  Spec => []WroteMeansWritten
<1>1. FilesInv /\ DiskInv /\ ReportInv => WroteMeansWritten
  <2> SUFFICES ASSUME FilesInv, DiskInv, ReportInv, report # <<>> PROVE WroteMeansWritten
    BY DEF WroteMeansWritten
  <2>1. PICK rs : rs = ReadRows(file[current_disk_file])
    OBVIOUS
  <2>2. Written(rs, report)
    BY <2>1, ReadersSee, NoCrashes DEF ReportInv, FilesInv
  <2>3. g_total_clusters \in Nat \ {0} /\ g_cluster_size \in Nat \ {0}
    BY GeometryTyped
  <2>4. rs \in Seq(Lines)
    <3>1. file[current_disk_file] \in Seq(Lines) /\ rs = AfterHeader(file[current_disk_file])
      BY <2>1, ReadersSee, NoCrashes DEF FilesInv, FileOK
    <3> QED BY <3>1, AfterHeaderIs
  <2>5. report[1] + 1 \in DOMAIN rs
    BY <2>2, <2>4, LenProperties DEF Written
  <2>6. Found = {rs[report[1] + 1]}
    <3>1. rs[report[1] + 1].label # CUTLABEL
      BY <2>2 DEF Written, CUTLABEL
    <3>2. {j \in DOMAIN rs : j = report[1] + 1 /\ rs[j].label # CUTLABEL} = {report[1] + 1}
      BY <2>5, <3>1
    <3> QED BY <2>1, <3>2 DEF Found, RowFound
  <2>7. Pad(report[2], g_cluster_size) = report[2]
    BY <2>2, <2>3, Padded DEF Written
  <2>8. rs[report[1] + 1] = [label |-> report[1], data |-> report[2]]
    BY <2>2 DEF Written
  <2>9. PICK row : row = rs[report[1] + 1]
    OBVIOUS
  <2>10. row.label = report[1] /\ Bytes(row) = report[2]
    <3>1. Whole(report[2]) = report[2]
      BY <2>2, CellsAreStored, WholeIs, NoCrashes DEF Written
    <3> QED BY <2>7, <2>8, <2>9, <3>1 DEF Bytes
  <2>11. CountsAddUp(row, report[2])
    BY <2>2, <2>10, RowCounted DEF Written
  <2> QED BY <2>6, <2>9, <2>10, <2>11 DEF WroteMeansWritten
<1>2. Init => ReportInv
  BY DEF Init, ReportInv
<1> QED BY <1>1, <1>2, DiskInvariant, ReportStep, PTL DEF Spec

-----------------------------------------------------------------------------
(* A disk is a store of blocks.                                            *)

\* What the refinement mapping of Disk makes of a state.
StoreOf == DataOf(IF pc \in {"write", "format"} THEN rows ELSE Current)
SizeOf == IF pc = "format" THEN arg[3] ELSE g_cluster_size
BlocksOf == UNION {[1 .. n -> 0 .. BYTE - 1] : n \in Sizes \cup {INIT_SIZE}}
CountsOf == RowCounts \cup {INIT_CLUSTERS}

StoreShape ==
  /\ pc \in {"idle", "open"} => /\ StoreOf = DataOf(AfterHeader(file[current_disk_file]))
                             /\ SizeOf = g_cluster_size /\ BlockOp = "idle"
  /\ pc = "write" => StoreOf = DataOf(rows) /\ SizeOf = g_cluster_size /\ BlockOp = "write"
  /\ pc = "format" => StoreOf = DataOf(rows) /\ SizeOf = arg[3] /\ BlockOp = "format"

LEMMA StoreIs == Documented /\ FilesInv => StoreShape
  BY CurrentIs DEF StoreShape, StoreOf, SizeOf, BlockOp

\* The data of rows of one size are blocks of that size.
LEMMA DataAre ==
  ASSUME ~ Crashes, NEW n \in Nat, NEW size \in Sizes \union {INIT_SIZE}, NEW rs,
         AreRows(rs, n, size)
  PROVE  /\ DataOf(rs) = [i \in 1 .. n |-> rs[i].data]
         /\ DataOf(rs) \in [1 .. n -> BlocksOf]
         /\ \A i \in 1 .. n : Len(rs[i].data) = size
<1>1. DOMAIN rs = 1 .. n
  BY LenProperties DEF AreRows
<1>2. \A i \in 1 .. n : rs[i].data \in BlocksOf
  <2> SUFFICES ASSUME NEW i \in 1 .. n PROVE rs[i].data \in BlocksOf
    OBVIOUS
  <2>1. rs[i] \in Lines /\ Len(rs[i].data) = size
    BY ElementOfSeq DEF AreRows
  <2>2. rs[i].data \in [1 .. size -> Cells]
    BY <2>1, LenProperties DEF Lines, Stored
  <2> QED BY <2>2 DEF BlocksOf, Cells
<1> QED BY <1>1, <1>2 DEF DataOf, AreRows

\* -mkdisk is Format: the new disk takes effect when its file is opened.
LEMMA MkdiskFormats ==
  ASSUME Documented, FilesInv, StoreShape, StoreShape', NEW v \in Volumes, NEW n \in RowCounts,
         NEW size \in Sizes, Mkdisk(v, n, size)
  PROVE  Store!Format
<1>1. PICK fill \in FILLS : rows' = FormatRows(n, size, fill)
  BY DEF Mkdisk
<1>2. n \in Nat /\ size \in Nat /\ fill \in Cells
  BY SizesAreShort, DiskAssumption DEF Cells, Documented
<1>3. PICK rs : rs = rows'
  OBVIOUS
<1>4. AreRows(rs, n, size)
  BY <1>1, <1>2, <1>3, FormatRowsAre
<1>5. /\ DataOf(rs) = [i \in 1 .. n |-> rs[i].data] /\ DataOf(rs) \in [1 .. n -> BlocksOf]
      /\ \A i \in 1 .. n : Len(rs[i].data) = size
  BY <1>2, <1>4, NoCrashes, DataAre
<1>6. /\ StoreOf' = DataOf(rs) /\ SizeOf' = size /\ BlockOp = "idle" /\ BlockOp' = "format"
  <2>1. pc = "idle" /\ pc' = "format" /\ arg' = <<v, n, size>>
    BY DEF Mkdisk, Says
  <2>2. (DataOf(rows))' = DataOf(rs)
    BY <1>3 DEF DataOf
  <2> QED BY <2>1, <2>2 DEF StoreShape
<1>7. /\ \E k \in CountsOf : StoreOf' \in [1 .. k -> BlocksOf]
      /\ SizeOf' \in Nat /\ \A i \in DOMAIN StoreOf' : Len(StoreOf'[i]) = SizeOf'
  BY <1>2, <1>5, <1>6 DEF CountsOf
<1> QED BY <1>6, <1>7 DEF Store!Format, StoreOf, SizeOf, BlocksOf, CountsOf

\* A write takes effect when it opens the file.
LEMMA OpenIsWrite ==
  ASSUME Documented, FilesInv, DiskInv, StoreShape, StoreShape', UpdateOpen, pc' = "write"
  PROVE  Store!Write
<1>1. PICK rs, clu, data : rs = LoadedRows /\ clu = arg[1] /\ data = arg[2]
  OBVIOUS
<1>2. PICK n, size : n = g_total_clusters /\ size = g_cluster_size
  OBVIOUS
<1>3. n \in Nat \ {0} /\ size \in Nat \ {0} /\ size < LINE_CELLS
  BY <1>2, GeometryTyped
<1>4. n \in CountsOf /\ size \in Sizes \union {INIT_SIZE}
  BY <1>2 DEF DiskInv, CountsOf
<1>5. pc = "open" /\ rows' = rows
  BY DEF UpdateOpen
<1>6. AreRows(rs, n, size) /\ AreRows(rows, n, size)
  BY <1>1, <1>2, <1>5, LoadedAre DEF DiskInv
<1>7. /\ clu \in Int /\ 0 <= clu /\ clu < n /\ data \in Seq(Cells) /\ Len(data) = size
      /\ rows = [rs EXCEPT ![Slot(clu)] = [label |-> clu, data |-> data]]
  BY <1>1, <1>2, <1>5 DEF DiskInv, NewRows
<1>8. Replaced(rows, rs, clu, data)
  <2>1. RowsOK(rs) /\ Len(rs) = n
    BY <1>3, <1>6, AreRowsOK DEF AreRows
  <2> QED BY <1>3, <1>7, <2>1, Updated
<1>9. /\ DataOf(rs) = [i \in 1 .. n |-> rs[i].data] /\ DataOf(rows) = [i \in 1 .. n |-> rows[i].data]
      /\ DataOf(rows) \in [1 .. n -> BlocksOf]
  BY <1>3, <1>4, <1>6, NoCrashes, DataAre
<1>10. clu + 1 \in 1 .. n /\ rows[clu + 1].data = data /\ \A i \in 1 .. n : i # clu + 1 => rows[i] = rs[i]
  BY <1>3, <1>6, <1>7, <1>8 DEF Replaced, AreRows
<1>11. /\ clu + 1 \in DOMAIN DataOf(rs) /\ data \in BlocksOf
       /\ DataOf(rows) = [DataOf(rs) EXCEPT ![clu + 1] = data]
  <2>1. PICK old, new : old = DataOf(rs) /\ new = DataOf(rows)
    OBVIOUS
  <2>2. DOMAIN old = 1 .. n /\ DOMAIN new = 1 .. n
    BY <1>9, <2>1
  <2>3. new[clu + 1] = data /\ new[clu + 1] \in BlocksOf
    BY <1>9, <1>10, <2>1
  <2>4. \A i \in 1 .. n : i # clu + 1 => new[i] = old[i]
    BY <1>9, <1>10, <2>1
  <2>5. new = [i \in 1 .. n |-> new[i]]
    BY <1>9, <2>1
  <2>6. [old EXCEPT ![clu + 1] = data] = [i \in 1 .. n |-> new[i]]
    BY <1>10, <2>2, <2>3, <2>4
  <2> QED BY <1>10, <2>1, <2>2, <2>3, <2>5, <2>6
<1>12. /\ StoreOf = DataOf(AfterHeader(file[current_disk_file])) /\ SizeOf = size /\ BlockOp = "idle"
       /\ StoreOf' = DataOf(rows) /\ SizeOf' = size /\ BlockOp' = "write"
  <2>1. (DataOf(rows))' = DataOf(rows)
    BY <1>5 DEF DataOf
  <2>2. g_cluster_size' = g_cluster_size
    BY DEF UpdateOpen, geometry
  <2> QED BY <1>2, <1>5, <2>1, <2>2 DEF StoreShape
<1>13. DataOf(rs) \in IF StoreOf = <<>>
                      THEN {[i \in 1 .. k |-> [j \in 1 .. SizeOf |-> 0]] : k \in CountsOf} ELSE {StoreOf}
  <2>1. CASE file[current_disk_file] = <<>>
    <3>1. \A i \in 1 .. n : rs[i].data = [j \in 1 .. size |-> 0]
      BY <1>1, <1>2, <1>5, <2>1, LoadedAre DEF Zeros
    <3>2. DataOf(rs) = [i \in 1 .. n |-> [j \in 1 .. size |-> 0]]
      BY <1>9, <3>1
    <3>3. StoreOf = <<>>
      BY <1>12, <2>1 DEF AfterHeader, DataOf
    <3> QED BY <1>4, <1>12, <3>2, <3>3
  <2>2. CASE file[current_disk_file] # <<>>
    <3>1. StoreOf = DataOf(rs)
      BY <1>1, <1>5, <1>12, <2>2, LoadedAre
    <3>2. StoreOf # <<>>
      <4>1. 1 \in DOMAIN StoreOf
        BY <1>3, <1>9, <3>1
      <4> QED BY <4>1
    <3> QED BY <3>1, <3>2
  <2> QED BY <2>1, <2>2
<1>14. \E old \in IF StoreOf = <<>>
                  THEN {[i \in 1 .. k |-> [j \in 1 .. SizeOf |-> 0]] : k \in CountsOf} ELSE {StoreOf} :
         \E i \in DOMAIN old, b \in BlocksOf : Len(b) = SizeOf /\ StoreOf' = [old EXCEPT ![i] = b]
  BY <1>7, <1>11, <1>12, <1>13
<1> QED BY <1>12, <1>14 DEF Store!Write, Store!Blank, StoreOf, SizeOf, BlocksOf, CountsOf

\* The end of a write is a return: readers find the rows that were being written.
LEMMA UpdateReturns ==
  ASSUME Documented, FilesInv, DiskInv, StoreShape, StoreShape', UpdateClose
  PROVE  Store!Return
<1>1. pc = "write" /\ pc' = "idle" /\ UNCHANGED current_disk_file
  BY DEF UpdateClose
<1>2. AfterHeader(file'[current_disk_file]) = rows /\ UNCHANGED g_cluster_size
  BY WriteMakes
<1>3. StoreOf = DataOf(rows) /\ SizeOf = g_cluster_size /\ BlockOp = "write"
  BY <1>1 DEF StoreShape
<1>4. StoreOf' = DataOf(rows) /\ SizeOf' = g_cluster_size /\ BlockOp' = "idle"
  BY <1>1, <1>2 DEF StoreShape, DataOf
<1> QED BY <1>3, <1>4 DEF Store!Return, StoreOf, SizeOf, BlocksOf, CountsOf

\* So is that of -mkdisk.
LEMMA MkdiskReturns ==
  ASSUME Documented, FilesInv, FormatInv, StoreShape, StoreShape', MkdiskClose
  PROVE  Store!Return
<1>1. pc = "format" /\ pc' = "idle" /\ g_cluster_size' = arg[3]
  BY DEF MkdiskClose, SizeMade
<1>2. AfterHeader(file'[current_disk_file']) = rows
  BY MkdiskMakes
<1>3. StoreOf = DataOf(rows) /\ SizeOf = arg[3] /\ BlockOp = "format"
  BY <1>1 DEF StoreShape
<1>4. StoreOf' = DataOf(rows) /\ SizeOf' = arg[3] /\ BlockOp' = "idle"
  BY <1>1, <1>2 DEF StoreShape, DataOf
<1> QED BY <1>3, <1>4 DEF Store!Return, StoreOf, SizeOf, BlocksOf, CountsOf

\* What leaves the disk and the size of its clusters as they are, outside a write, is a
\* stutter: the start of a write, one that is given up, and a listing.
LEMMA Stutters ==
  ASSUME StoreShape, StoreShape', pc \in {"idle", "open"}, pc' \in {"idle", "open"},
         UNCHANGED <<file, current_disk_file, g_cluster_size>>
  PROVE  UNCHANGED Store!bvars
<1>1. /\ StoreOf = DataOf(AfterHeader(file[current_disk_file])) /\ SizeOf = g_cluster_size
      /\ BlockOp = "idle"
  BY DEF StoreShape
<1>2. StoreOf' = StoreOf /\ SizeOf' = SizeOf /\ BlockOp' = BlockOp
  BY <1>1 DEF StoreShape, DataOf
<1> QED BY <1>2 DEF Store!bvars, StoreOf, SizeOf, BlocksOf, CountsOf

LEMMA StoreStep ==
  ASSUME Documented, FilesInv, FormatInv, DiskInv, StoreShape, StoreShape', [Next]_vars
  PROVE  [Store!BlockNext]_(Store!bvars)
<1>1. ASSUME NEW v \in Volumes, NEW n \in RowCounts, NEW size \in Sizes, Mkdisk(v, n, size)
      PROVE  Store!Format
  BY <1>1, MkdiskFormats
<1>2. ASSUME NEW n \in RowCounts, NEW size \in Sizes, SoftInit(n, size) PROVE FALSE
  BY <1>2 DEF SoftInit, Says, Documented
<1>3. ASSUME NEW clu, NEW data, Update(clu, data) PROVE UNCHANGED Store!bvars
  BY <1>3, Stutters DEF Update, geometry
<1>4. CASE MkdiskClose
  BY <1>4, MkdiskReturns DEF Store!BlockNext
<1>5. CASE UpdateOpen
  <2>1. CASE pc' = "write"
    BY <1>5, <2>1, OpenIsWrite DEF Store!BlockNext
  <2>2. CASE pc' # "write"
    BY <1>5, <2>2, Stutters DEF UpdateOpen, geometry
  <2> QED BY <2>1, <2>2
<1>6. CASE UpdateClose
  BY <1>6, UpdateReturns DEF Store!BlockNext
<1>7. CASE ListClusters
  <2>1. UNCHANGED g_cluster_size
    BY <1>7, ListKeeps
  <2> QED BY <1>7, <2>1, Stutters DEF ListClusters, Says
<1>8. CASE Crash
  BY <1>8 DEF Crash, Documented
<1>9. CASE UNCHANGED vars
  <2>1. UNCHANGED <<file, current_disk_file, g_cluster_size, pc, rows, arg>>
    BY <1>9 DEF vars, geometry
  <2>2. StoreOf' = StoreOf /\ SizeOf' = SizeOf /\ BlockOp' = BlockOp
    BY <2>1 DEF StoreOf, SizeOf, BlockOp, DataOf, Current, ReadRows
  <2> QED BY <2>2 DEF Store!bvars, StoreOf, SizeOf, BlocksOf, CountsOf
<1> QED
  BY <1>1, <1>2, <1>3, <1>4, <1>5, <1>6, <1>7, <1>8, <1>9
  DEF Next, DeleteCluster, WriteCluster, Store!BlockNext

LEMMA StoreInit == ASSUME Documented PROVE Init => Store!BlockInit
<1> SUFFICES ASSUME Init PROVE Store!BlockInit
  OBVIOUS
<1>1. FilesInv
  BY FilesInit DEF Documented
<1>2. pc = "idle" /\ file[current_disk_file] = <<>> /\ g_cluster_size \in Nat
  BY <1>1 DEF Init, FilesInv
<1>3. StoreOf = <<>>
  BY <1>1, <1>2, StoreIs DEF StoreShape, AfterHeader, DataOf
<1>4. SizeOf \in Nat /\ BlockOp = "idle"
  BY <1>2 DEF SizeOf, BlockOp
<1> QED BY <1>3, <1>4 DEF Store!BlockInit, StoreOf, SizeOf, BlocksOf, CountsOf

\* A disk is a store of equal blocks, of which a write, however many lines it reads and
\* rewrites, changes the one it names: for any disks, row counts, sizes and data, and
\* whether or not the file can be opened.
THEOREM ImplementsBlockStoreHolds == ASSUME Documented PROVE Spec => ImplementsBlockStore
<1>1. FilesInv /\ FilesInv' /\ FormatInv /\ DiskInv /\ [Next]_vars
        => [Store!BlockNext]_(Store!bvars)
  <2>1. FilesInv' => StoreShape'
    BY StoreIs, PTL
  <2> QED BY <2>1, StoreIs, StoreStep
<1> QED BY <1>1, StoreInit, DiskInvariant, FormatInvariant, PTL
  DEF Spec, ImplementsBlockStore, Store!BlockSpec
===============================================================================

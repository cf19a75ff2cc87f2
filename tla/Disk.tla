--------------------------------- MODULE Disk ---------------------------------
(***************************************************************************)
(* Simulated disks: text files of one header line and one line per         *)
(* cluster, rewritten as a whole by every write                            *)
(* (flinstone_profiles_tasks_v9/disk.cpp, cluster.cpp and the -mkdisk and  *)
(* -init commands of interpreter.cpp), and the geometry the shell keeps in *)
(* memory.  One shell works on the disks; the process may die at any time  *)
(* and is then started again.                                              *)
(*                                                                         *)
(* A cluster is a sequence of cells, one cell for the two hex digits of a  *)
(* byte.  A line that was being written when the process died may end in   *)
(* its label or between the two digits of a cell.  -w, -l and -du are      *)
(* documented but their dispatch is elided in interpreter.cpp; the         *)
(* functions behind them are modelled as the user's commands.              *)
(***************************************************************************)
EXTENDS SequencesExt

CONSTANTS Files,          \* names of files
          DRIVE,          \* the initial current_disk_file
          Volumes,        \* volume arguments of -mkdisk
          FileOf(_),      \* the name "<volume>_disk.txt"
          CurrentOf(_),   \* that name cut down to fit current_disk_file
          RowCounts,      \* row counts of -mkdisk and cluster counts of -init
          Sizes,          \* cluster sizes of -mkdisk and -init
          INIT_CLUSTERS, INIT_SIZE,  \* the geometry the program starts with
          Indexes,        \* cluster indexes of writes
          Data,           \* data of writes: sequences of cells
          Commands,       \* what the user types
          FILLS,          \* what the random cells of a new disk may hold
          BYTE,           \* 256, the number of values of a cell
          LINE_CELLS,     \* 126, the cells of a line that fit into a char[256]
          OpenFails       \* whether opening a disk file for writing may fail

HEADER == -1   \* the label "XX"
NOLABEL == -2  \* the rest of a line that fgets had to cut
CUTLABEL == -3 \* a beginning of "XX:" or of a row's label, without its colon
HALF == -1     \* the first digit of a cell of which the second is missing

ASSUME DiskAssumption ==
  /\ LINE_CELLS \in Nat /\ Sizes \subseteq 1 .. LINE_CELLS /\ INIT_SIZE \in 1 .. LINE_CELLS
  /\ INIT_CLUSTERS \in Nat \ {0} /\ RowCounts \subseteq Nat \ {0}
  /\ DRIVE \in Files /\ \A v \in Volumes : FileOf(v) \in Files /\ CurrentOf(v) \in Files
  /\ BYTE \in 1 .. 256 /\ FILLS \subseteq 0 .. BYTE - 1
  /\ Indexes \subseteq Int /\ Data \subseteq Seq(0 .. BYTE - 1)
  /\ Commands \subseteq {"mkdisk", "init", "write", "delete", "list", "crash"}
  /\ OpenFails \in BOOLEAN

VARIABLES file,                              \* the lines of each file
          current_disk_file,
          g_total_clusters, g_cluster_size,  \* the geometry in memory
          pc,       \* "idle", or what is to be done to the file
          rows,     \* the lines about to be written
          arg,      \* the volume and geometry, or the cluster, being worked on
          report    \* the last "Wrote data to cluster .." or "Cluster .. deleted", with
                    \* the data meant for the cluster; empty when superseded

geometry == <<g_total_clusters, g_cluster_size>>
vars == <<file, current_disk_file, geometry, pc, rows, arg, report>>

Init ==
  /\ file = [f \in Files |-> <<>>]
  /\ current_disk_file = DRIVE
  /\ g_total_clusters = INIT_CLUSTERS /\ g_cluster_size = INIT_SIZE
  /\ pc = "idle" /\ rows = <<>> /\ arg = <<>> /\ report = <<>>

-----------------------------------------------------------------------------
(* Lines and files.  A file that does not exist is an empty one.           *)

Zeros(n) == [i \in 1 .. n |-> 0]
Header(n) == [label |-> HEADER, data |-> Zeros(n)]
Rest == [label |-> NOLABEL, data |-> <<>>]

\* The cells that have both their digits; strlen(hexData) % 2 != 0.
Odd(data) == data # <<>> /\ Last(data) = HALF
Whole(data) == IF Odd(data) THEN Front(data) ELSE data

\* fgets into a char[256]: a line that fills the buffer leaves its newline behind,
\* which is then read as a line of its own.
Fgets(line) == IF Len(Whole(line.data)) < LINE_CELLS THEN <<line>> ELSE <<line, Rest>>
ReadLines(lines) == FlattenSeq([i \in DOMAIN lines |-> Fgets(lines[i])])

\* The lines that are neither blank, as such a rest is, nor a header.
IsRow(line) == line.label \notin {HEADER, NOLABEL}
ReadRows(lines) ==
  FlattenSeq([i \in DOMAIN lines |-> IF IsRow(lines[i]) THEN <<lines[i]>> ELSE <<>>])

\* convert_data_to_hex: cut or filled up with zeros to the size of a cluster.
Pad(data, n) == [i \in 1 .. n |-> IF i <= Len(data) THEN data[i] ELSE 0]

\* Faulty: the last row is chained to a row that is not there.
ChainTooFar(i, n) == (i + 1) % BYTE

\* The first byte of row i: the next row, or 0 in the last one.
Chain(i, n) == IF i < n - 1 THEN (i + 1) % BYTE ELSE 0

\* The rows flintstone_format_disk writes; the volume name and rand() fill the rest.
FormatRows(n, size, fill) ==
  [i \in 1 .. n |-> [label |-> i - 1,
                     data |-> [j \in 1 .. size |-> IF j = 1 THEN Chain(i - 1, n) ELSE fill]]]

\* Faulty: the header is taken for a cluster.
WithHeader(lines) == lines

\* What follows the line that update_cluster_line reads first.
AfterHeader(lines) == IF lines = <<>> THEN <<>> ELSE Tail(lines)

\* Faulty: a row that is missing is not made up.
LoadedOnly == AfterHeader(ReadLines(file[current_disk_file]))

\* The array of update_cluster_line: the first lines of the file, then zero rows.
LoadedRows ==
  LET lines == AfterHeader(ReadLines(file[current_disk_file])) IN
  [i \in 1 .. g_total_clusters |->
     IF i <= Len(lines) THEN lines[i]
     ELSE [label |-> i - 1, data |-> Zeros(g_cluster_size)]]

\* read_disk_header counts the rows that have a colon and an even number of digits.
IsCounted(line) == line.label >= 0 /\ ~ Odd(line.data)

\* read_disk_header of a file with these lines: the geometry is the number of rows it
\* counts and the size of the last of them.
ReadHeader(lines) ==
  LET counted == {i \in DOMAIN lines : IsCounted(lines[i])} IN
  IF counted = {} THEN UNCHANGED geometry
  ELSE /\ g_total_clusters' = Cardinality(counted)
       /\ g_cluster_size' = Len(lines[Max(counted)].data)

-----------------------------------------------------------------------------
(* What the printing commands show; they change nothing.                   *)

\* print_disk_formatted: a ruler of the size in memory, then the rows.
Printed(lines) == <<Header(g_cluster_size)>> \o ReadRows(lines)

\* The row a reader takes for cluster clu, if there is one: the rows are counted, what
\* is left of one too, and their labels ignored but for the colon.
RowFound(lines, clu) ==
  LET rs == ReadRows(lines) IN
  {rs[i] : i \in {j \in DOMAIN rs : j = clu + 1 /\ rs[j].label # CUTLABEL}}

\* The bytes that show_disk_detail_for_cluster shows and counts of a row.
Bytes(row) == Pad(Whole(row.data), g_cluster_size)
UsedBytes(bytes) == Cardinality({i \in DOMAIN bytes : bytes[i] # 0})

\* 1 << (7 - bit), the bits of a byte from the highest.
Mask == <<128, 64, 32, 16, 8, 4, 2, 1>>

\* calculate_storage_breakdown_for_cluster: how many bytes have each bit.
OnesCount(bytes) ==
  [bit \in DOMAIN Mask |-> Cardinality({i \in DOMAIN bytes : (bytes[i] \div Mask[bit]) % 2 = 1})]

-----------------------------------------------------------------------------
(* The commands.                                                           *)

Says(command) == pc = "idle" /\ command \in Commands

\* Faulty: the size is taken over in nibbles.
NibblesMade == 2 * arg[3]

\* The cluster size of the disk just made.
SizeMade == arg[3]

\* -mkdisk: the file is opened, which empties it ...
Mkdisk(v, n, size) ==
  /\ Says("mkdisk")
  /\ \E fill \in FILLS : rows' = FormatRows(n, size, fill)
  /\ file' = [file EXCEPT ![FileOf(v)] = <<>>]
  /\ arg' = <<v, n, size>>
  /\ pc' = "format" /\ report' = <<>>
  /\ UNCHANGED <<current_disk_file, geometry>>

\* ... written, and made the current one.
MkdiskClose ==
  /\ pc = "format"
  /\ file' = [file EXCEPT ![FileOf(arg[1])] = <<Header(arg[3])>> \o rows]
  /\ current_disk_file' = CurrentOf(arg[1])
  /\ g_total_clusters' = arg[2] /\ g_cluster_size' = SizeMade
  /\ pc' = "idle" /\ rows' = <<>> /\ arg' = <<>>
  /\ UNCHANGED report

\* -init
SoftInit(n, size) ==
  /\ Says("init")
  /\ g_total_clusters' = n /\ g_cluster_size' = size
  /\ report' = <<>>
  /\ UNCHANGED <<file, current_disk_file, pc, rows, arg>>

InRange(clu) == 0 <= clu /\ clu < g_total_clusters

\* Faulty: the header is counted as a row.
SlotAfterHeader(clu) == clu

\* Where cluster clu is in the array of rows.
Slot(clu) == clu + 1

\* process_write_cluster and delete_cluster, up to the reading of the old rows.  The
\* report is printed whatever has become of the write.
Update(clu, data) ==
  /\ pc = "idle"
  /\ IF InRange(clu)
     THEN /\ rows' = [LoadedRows EXCEPT ![Slot(clu)] = [label |-> clu, data |-> data]]
          /\ pc' = "open" /\ report' = <<>>
          /\ arg' = <<clu, data>>
     ELSE /\ report' = <<clu, data>>
          /\ UNCHANGED <<rows, pc, arg>>
  /\ UNCHANGED <<file, current_disk_file, geometry>>

WriteCluster(clu, data) == Says("write") /\ Update(clu, Pad(data, g_cluster_size))

DeleteCluster(clu) == Says("delete") /\ InRange(clu) /\ Update(clu, Zeros(g_cluster_size))

\* fopen(current_disk_file, "w"): from here on the old contents are gone.
UpdateOpen ==
  /\ pc = "open"
  /\ \/ /\ file' = [file EXCEPT ![current_disk_file] = <<>>]
        /\ pc' = "write"
        /\ UNCHANGED <<rows, arg, report>>
     \/ /\ OpenFails
        /\ pc' = "idle" /\ rows' = <<>> /\ arg' = <<>> /\ report' = arg
        /\ UNCHANGED file
  /\ UNCHANGED <<current_disk_file, geometry>>

\* The file is written and read back for the geometry.
UpdateClose ==
  /\ pc = "write"
  /\ file' = [file EXCEPT ![current_disk_file] = <<Header(g_cluster_size)>> \o rows]
  /\ ReadHeader(file'[current_disk_file])
  /\ pc' = "idle" /\ rows' = <<>> /\ arg' = <<>> /\ report' = arg
  /\ UNCHANGED current_disk_file

\* -l
ListClusters ==
  /\ Says("list")
  /\ ReadHeader(file[current_disk_file])
  /\ report' = <<>>
  /\ UNCHANGED <<file, current_disk_file, pc, rows, arg>>

\* The file being written when the process dies, and what was to be in it.
Writing == IF pc = "format" THEN FileOf(arg[1]) ELSE current_disk_file
Contents == <<Header(IF pc = "format" THEN arg[3] ELSE g_cluster_size)>> \o rows

\* What may be left of a line: a piece of its label, or the label and some digits.
Pieces(line) ==
  LET left(data) == [line EXCEPT !.data = data]
      cells(m) == SubSeq(line.data, 1, m) IN
  {[label |-> CUTLABEL, data |-> <<>>] : l \in {line.label} \ {NOLABEL}}
    \cup {left(cells(m)) : m \in 0 .. Len(line.data)}
    \cup {left(Append(cells(m - 1), HALF)) : m \in 1 .. Len(line.data)}

\* The process dies and is started again; so it does when -mkdisk cannot open its
\* file.  A file being written has kept a beginning, cut anywhere.
Crash ==
  /\ "crash" \in Commands
  /\ IF pc \in {"write", "format"}
     THEN \E k \in 1 .. Len(Contents) :
            LET before == SubSeq(Contents, 1, k - 1) IN
            \/ file' = [file EXCEPT ![Writing] = before]
            \/ \E piece \in Pieces(Contents[k]) :
                 file' = [file EXCEPT ![Writing] = Append(before, piece)]
     ELSE UNCHANGED file
  /\ current_disk_file' = DRIVE
  /\ g_total_clusters' = INIT_CLUSTERS /\ g_cluster_size' = INIT_SIZE
  /\ pc' = "idle" /\ rows' = <<>> /\ arg' = <<>> /\ report' = <<>>

-----------------------------------------------------------------------------
Next ==
  \/ \E v \in Volumes, n \in RowCounts, size \in Sizes : Mkdisk(v, n, size)
  \/ \E n \in RowCounts, size \in Sizes : SoftInit(n, size)
  \/ \E clu \in Indexes : DeleteCluster(clu) \/ \E data \in Data : WriteCluster(clu, data)
  \/ MkdiskClose \/ UpdateOpen \/ UpdateClose \/ ListClusters \/ Crash

Spec == Init /\ [][Next]_vars

-----------------------------------------------------------------------------
(* Properties.                                                             *)

DataOf(rs) == [i \in DOMAIN rs |-> rs[i].data]

Current == ReadRows(file[current_disk_file])

\* The rows the readers find for the cluster of the last report.
Found == RowFound(file[current_disk_file], report[1])

Total(f) == LET sum[k \in 0 .. Len(f)] == IF k = 0 THEN 0 ELSE sum[k - 1] + f[k] IN sum[Len(f)]

\* The used bytes of a row are as many as the data has, and its bits add up to it.
CountsAddUp(row, data) ==
  /\ UsedBytes(Bytes(row)) = Total([i \in DOMAIN data |-> IF data[i] = 0 THEN 0 ELSE 1])
  /\ Total([bit \in DOMAIN Mask |-> OnesCount(Bytes(row))[bit] * Mask[bit]]) = Total(data)

\* What was reported as written to a cluster is what the readers, who count rows, then
\* find under that index; the row has that label, and what is counted is what was
\* written (cluster.cpp:40, 59, 90-98, 171-175; disk.cpp:92-153).
WroteMeansWritten ==
  report # <<>> =>
    /\ Found # {}
    /\ \A row \in Found :
         row.label = report[1] /\ Bytes(row) = report[2] /\ CountsAddUp(row, report[2])

\* Between two commands the geometry in memory is that of the current disk, so that
\* the next write addresses the rows that are there and what is printed is what the file
\* holds (disk.cpp:34-37, 75-88, 204-205).
GeometryIsOfTheDisk ==
  pc = "idle" /\ Current # <<>> =>
    /\ g_total_clusters = Len(Current)
    /\ \A i \in DOMAIN Current : Len(Current[i].data) = g_cluster_size
    /\ Printed(file[current_disk_file]) = file[current_disk_file]

\* The chain of a new disk, followed from row 0 by the first byte of each row, goes
\* once through all rows and back to row 0, as long as row numbers fit into a byte
\* (disk.cpp:178, 194).
FormatChains ==
  pc = "format" /\ Len(rows) <= BYTE =>
    LET n == Len(rows)
        reached[k \in 0 .. n] == IF k = 0 THEN 0
                                 ELSE rows[(reached[k - 1] % n) + 1].data[1]
    IN  {reached[k] : k \in 0 .. n - 1} = 0 .. n - 1 /\ reached[n] = 0

\* Every line of a file is in its place: the header first, then the rows labelled 0, 1,
\* 2, .. without a gap.  Where the process died in the middle of a label there is a line
\* without one, which later writes keep as the row of that place (disk.cpp:93-108,
\* 130-151, 163-203).
RowsLabelledInOrder ==
  \A f \in Files : \A i \in DOMAIN file[f] :
    file[f][i].label \in {IF i = 1 THEN HEADER ELSE i - 2, CUTLABEL}

\* Seen from outside a disk is a store of equal blocks: a write, cut into reading,
\* emptying and rewriting a file, changes the one block it names.
BlockOp == IF pc = "open" THEN "idle" ELSE pc

Store == INSTANCE BlockStore
  WITH Blocks <- UNION {[1 .. n -> 0 .. BYTE - 1] : n \in Sizes \cup {INIT_SIZE}},
       Counts <- RowCounts \cup {INIT_CLUSTERS},
       store <- DataOf(IF pc \in {"write", "format"} THEN rows ELSE Current),
       size <- IF pc = "format" THEN arg[3] ELSE g_cluster_size,
       op <- BlockOp

ImplementsBlockStore == Store!BlockSpec
=============================================================================

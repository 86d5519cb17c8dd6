--------------------------------- MODULE Output ---------------------------------
(***************************************************************************)
(* What leaves a program: the files of a Writer and the lines of a         *)
(* LogStream.                                                              *)
(*                                                                         *)
(* The Writer makes cells and points of the elements of a grid, collects   *)
(* fields and cell data, and saves them to a VTK file, as text or with the *)
(* numbers appended in binary form.  The map is the identity of a grid with*)
(* unit elements, in coordinates that make the points of an element        *)
(* integers; the values of fields are labelled by the element, point and   *)
(* component they are of.                                                  *)
(*                                                                         *)
(* In a LogStream lines are collected and, when they end, written behind   *)
(* their prefix to the standard error stream and to an attached file, each *)
(* down to a depth of its own; sections push and pop prefixes.  The buffer *)
(* of the standard error stream is the console's, or the file's that       *)
(* log_cerr has put in its place.  Times and thread ids in front of a line *)
(* are left out, and so is the offset that steers the rounding of numbers. *)
(***************************************************************************)
EXTENDS MultiArrays, Sequences, FiniteSets

-------------------------------------------------------------------------------
(* Files.                                                                  *)

CONSTANTS
  GridSizes,     \* the elements of the grids in every direction
  PointNumbers,  \* the points a writer may take in one direction
  MaxArrays      \* bound: fields and cell data of a writer

ASSUME FilesAssumption ==
  /\ \A n \in GridSizes : \E r \in 1 .. 3 : n \in [0 .. r - 1 -> Nat \ {0}]
  /\ PointNumbers \subseteq Nat \ {0, 1}

VARIABLES
  size, active,   \* the grid: elements in every direction, the flat ids of the active ones
  writer,         \* what the constructor computed, or None
  fields,         \* point data: [components, values] in the order they were added
  cells,          \* cell data: [type, values]
  saved           \* what the last save left: None, a file, or Stopped

writerVars == <<size, active, writer, fields, cells, saved>>

None == [kind |-> "none"]
Stopped == [kind |-> "stopped"]

IntWidth == 4
UcharWidth == 1
RealWidths == {4, 8}

Join(n, part) ==  \* the sequences part[1], ..., part[n] after one another
  LET joined[k \in 0 .. n] == IF k = 0 THEN <<>> ELSE joined[k - 1] \o part[k] IN joined[n]
BytesBefore(n, bytes) ==  \* the bytes of the first k of n blocks
  LET before[k \in 0 .. n] == IF k = 0 THEN 0 ELSE before[k - 1] + bytes[k] IN before
Ordered(S) ==
  [n \in 1 .. Cardinality(S) |-> CHOOSE x \in S : Cardinality({y \in S : y < x}) = n - 1]

-------------------------------------------------------------------------------
(* Construction, points and cells.                                         *)

Less1(n) == [d \in DOMAIN n |-> n[d] - 1]

NewWriter(pointsDirection, realWidth) ==
  [kind |-> "writer",
   pointsDirection |-> pointsDirection,
   realWidth |-> realWidth,
   elements |-> Cardinality(active),
   pointsPerElement |-> Flat(pointsDirection),
   cellsPerElement |-> Flat(Less1(pointsDirection)),
   cellType |-> <<3, 9, 12>>[RankOf(size)]]

NumPoints(w) == w.elements * w.pointsPerElement
NumCells(w) == w.elements * w.cellsPerElement
VerticesOfCell(n) == <<2, 4, 8>>[RankOf(n)]

\* What a file is made of: the grid and the points and cells of an element.
Source ==
  [size |-> size, active |-> active,
   pointsDirection |-> writer.pointsDirection, cellsPerElement |-> writer.cellsPerElement]

\* A variant with the corners in tensor order.
DeltaIndexInOrder(n, v) == [d \in DOMAIN n |-> (v \div 2 ^ d) % 2]
\* The corners of a cell go around the bottom, then around the top.
DeltaIndex(n, v) ==
  [d \in DOMAIN n |->
     CASE d = 0 -> IF v % 4 \in {1, 2} THEN 1 ELSE 0
       [] d = 1 -> IF v % 4 \in {2, 3} THEN 1 ELSE 0
       [] d = 2 -> v \div 4]

\* Physical points have three coordinates, the ones beyond the space zero.
PointOf(source, element, point) ==
  LET e == ToTensor(element, source.size)
      q == ToTensor(point, source.pointsDirection)
  IN  [i \in 1 .. 3 |-> IF i - 1 \in DOMAIN source.size
                        THEN e[i - 1] * (source.pointsDirection[i - 1] - 1) + q[i - 1] ELSE 0]

PointsOfElement(element) ==
  [k \in 1 .. writer.pointsPerElement |-> PointOf(Source, element, k - 1)]

\* Cells are the elements of a grid over the points of the element.
ConnectivityOf(element) ==
  [c \in 1 .. writer.cellsPerElement |->
     [v \in 1 .. VerticesOfCell(size) |->
        LET cell == ToTensor(c - 1, Less1(writer.pointsDirection))
            vertex == [d \in DOMAIN size |-> cell[d] + DeltaIndex(size, v - 1)[d]]
        IN  writer.pointsPerElement * element + ToFlat(vertex, writer.pointsDirection)]]

\* The rows are one for every element the writer counted, and are indexed by
\* flat ids: an id beyond them stops the program.
CanFill == \A e \in active : e < writer.elements
FillPointsAndConnectivity ==
  [points |-> Join(writer.elements, [e \in 1 .. writer.elements |-> PointsOfElement(e - 1)]),
   connectivity |-> Join(writer.elements, [e \in 1 .. writer.elements |-> ConnectivityOf(e - 1)])]

-------------------------------------------------------------------------------
(* Fields and cell data.                                                   *)

\* The values of a field, element by element as the iterator finds them.
FieldValues(label, elements, points, components) ==
  Join(Len(elements), [k \in DOMAIN elements |->
    [n \in 1 .. points * components |->
       <<label, elements[k], (n - 1) \div components, (n - 1) % components>>]])

\* Of a scalar, a vector or a tensor.
NumComponents(rank) == LET r == RankOf(size) IN <<1, r, r * r>>[rank + 1]
NewField(rank) ==
  [components |-> NumComponents(rank),
   values |-> FieldValues(Len(fields), Ordered(active), writer.pointsPerElement, NumComponents(rank))]

AddField(rank) ==
  /\ writer # None /\ Len(fields) + Len(cells) < MaxArrays
  /\ fields' = Append(fields, NewField(rank))
  /\ UNCHANGED <<size, active, writer, cells, saved>>

\* Data the client has computed must come from as many elements and points;
\* the model's client takes them in the order of a field.
AddPointData(rank) ==
  /\ writer # None /\ Len(fields) + Len(cells) < MaxArrays
  /\ Cardinality(active) = writer.elements
  /\ fields' = Append(fields, NewField(rank))
  /\ UNCHANGED <<size, active, writer, cells, saved>>

\* The client passes one number for every cell; the writer does not look.
CellValues(label, numCells) == [c \in 1 .. numCells |-> <<label, c>>]
AddElementData(type) ==
  /\ writer # None /\ Len(fields) + Len(cells) < MaxArrays
  /\ cells' = Append(cells, [type |-> type, values |-> CellValues(Len(cells), NumCells(writer))])
  /\ UNCHANGED <<size, active, writer, fields, saved>>

OfType(type) ==
  Join(Len(cells), [k \in DOMAIN cells |-> IF cells[k].type = type THEN <<cells[k]>> ELSE <<>>])

-------------------------------------------------------------------------------
(* Files: the arrays in their order, each with the width of a number, the  *)
(* numbers of a tuple and the tuples' numbers one after the other.         *)

DataArray(section, type, width, components, values) ==
  [section |-> section, type |-> type, width |-> width, components |-> components, values |-> values]
Numbers(tuples) == Join(Len(tuples), tuples)

Arrays(mesh) ==
  LET real == writer.realWidth IN
  <<DataArray("points", "real", real, 3, Numbers(mesh.points)),
    DataArray("cells", "int", IntWidth, 1, Numbers(mesh.connectivity)),
    DataArray("cells", "int", IntWidth, 1, [c \in 1 .. NumCells(writer) |-> VerticesOfCell(size) * c]),
    DataArray("cells", "uchar", UcharWidth, 1, [c \in 1 .. NumCells(writer) |-> writer.cellType])>>
  \o [k \in DOMAIN fields |-> DataArray("point data", "real", real, fields[k].components, fields[k].values)]
  \o [k \in DOMAIN OfType("real") |-> DataArray("cell data", "real", real, 1, OfType("real")[k].values)]
  \o [k \in DOMAIN OfType("int") |-> DataArray("cell data", "int", IntWidth, 1, OfType("int")[k].values)]

SaveAscii(mesh) ==
  [kind |-> "ascii", numPoints |-> NumPoints(writer), numCells |-> NumCells(writer), arrays |-> Arrays(mesh)]

NumBytes(a) == Len(a.values) * a.width
\* A variant that leaves out the length in front of every array.
OffsetsOfValues(arrays) ==
  [k \in DOMAIN arrays |-> BytesBefore(Len(arrays), [j \in DOMAIN arrays |-> NumBytes(arrays[j])])[k - 1]]
Offsets(arrays) ==
  [k \in DOMAIN arrays |-> BytesBefore(Len(arrays), [j \in DOMAIN arrays |-> IntWidth + NumBytes(arrays[j])])[k - 1]]

\* What is written behind the description: the length in bytes, the numbers.
AppendedData(arrays) ==
  [k \in DOMAIN arrays |->
     [length |-> NumBytes(arrays[k]), width |-> arrays[k].width, values |-> arrays[k].values]]

SaveAppended(mesh) ==
  LET arrays == Arrays(mesh) IN
  [kind |-> "appended", numPoints |-> NumPoints(writer), numCells |-> NumCells(writer),
   headers |-> [k \in DOMAIN arrays |->
     [section |-> arrays[k].section, type |-> arrays[k].type, width |-> arrays[k].width, components |-> arrays[k].components,
      offset |-> Offsets(arrays)[k]]],
   data |-> AppendedData(arrays)]

Save(format) ==
  /\ writer # None /\ saved # Stopped
  /\ saved' = IF ~CanFill THEN Stopped
              ELSE IF format = "ascii" THEN SaveAscii(FillPointsAndConnectivity)
              ELSE SaveAppended(FillPointsAndConnectivity)
  /\ UNCHANGED <<size, active, writer, fields, cells>>

-------------------------------------------------------------------------------
(* The life of a writer.                                                   *)

WriterInit ==
  /\ size \in GridSizes
  /\ active = 0 .. Flat(size) - 1
  /\ writer = None /\ fields = <<>> /\ cells = <<>> /\ saved = None

Construct ==
  /\ writer = None
  /\ \E n \in [DOMAIN size -> PointNumbers], real \in RealWidths : writer' = NewWriter(n, real)
  /\ UNCHANGED <<size, active, fields, cells, saved>>

\* The grid a writer is made for may have elements switched off; it does not
\* change while the writer lives, which counts its elements once.
SwitchOff ==
  /\ writer = None /\ Cardinality(active) = Flat(size) /\ Cardinality(active) > 1
  /\ \E e \in active : active' = active \ {e}
  /\ UNCHANGED <<size, writer, fields, cells, saved>>

WriterNext ==
  \/ Construct
  \/ SwitchOff
  \/ \E rank \in 0 .. 2 : AddField(rank) \/ AddPointData(rank)
  \/ \E type \in {"real", "int"} : AddElementData(type)
  \/ \E format \in {"ascii", "appended"} : Save(format)

-------------------------------------------------------------------------------
(* What a VTK reader makes of a file.                                      *)

\* Where the blocks of the data begin, in bytes.
BlockBegins(data) ==
  [k \in DOMAIN data |->
     BytesBefore(Len(data), [j \in DOMAIN data |-> IntWidth + Len(data[j].values) * data[j].width])[k - 1]]
BlockAt(file, header) == CHOOSE k \in DOMAIN file.data : BlockBegins(file.data)[k] = header.offset
\* An appended array begins offset bytes into the data with its length in bytes.
ReadArrays(file) ==
  IF file.kind = "ascii" THEN file.arrays
  ELSE [k \in DOMAIN file.headers |->
          LET header == file.headers[k] IN
            DataArray(header.section, header.type, header.width, header.components,
                      file.data[BlockAt(file, header)].values)]
Readable(file) ==
  file.kind = "appended" =>
    \A k \in DOMAIN file.headers :
      \E n \in DOMAIN file.data :
        /\ BlockBegins(file.data)[n] = file.headers[k].offset
        /\ file.data[n].width = file.headers[k].width
        /\ file.data[n].length = Len(file.data[n].values) * file.headers[k].width

TupleOf(a, k) == SubSeq(a.values, (k - 1) * a.components + 1, k * a.components)
Difference(x, y) == [i \in 1 .. 3 |-> y[i] - x[i]]
Unit(d) == [i \in 1 .. 3 |-> IF i = d THEN 1 ELSE 0]

\* A line, a quadrilateral or a hexahedron with its corners where VTK has them.
CellFits(vertices, x) ==
  /\ Difference(x[1], x[2]) = Unit(1)
  /\ vertices > 2 => Difference(x[1], x[4]) = Unit(2) /\ Difference(x[2], x[3]) = Unit(2)
  /\ vertices > 4 => \A v \in 1 .. 4 : Difference(x[v], x[v + 4]) = Unit(3)

MeshFits(source, file, arrays) ==
  LET vertices == VerticesOfCell(source.size)
      point(k) == TupleOf(arrays[1], k + 1)
      cell(c) == [v \in 1 .. vertices |-> point(arrays[2].values[vertices * (c - 1) + v])]
      corners == {cell(c)[1] : c \in 1 .. file.numCells}
  IN  /\ Len(arrays[1].values) = 3 * file.numPoints
      /\ Len(arrays[2].values) = vertices * file.numCells
      /\ \A k \in DOMAIN arrays[2].values : arrays[2].values[k] \in 0 .. file.numPoints - 1
      /\ arrays[3].values = [c \in 1 .. file.numCells |-> vertices * c]
      /\ Len(arrays[4].values) = file.numCells
      /\ \A c \in 1 .. file.numCells : CellFits(vertices, cell(c))
      /\ Cardinality(corners) = Cardinality(source.active) * source.cellsPerElement

\* A value of a field is at the point it was computed for.
DataFits(source, file, arrays, a) ==
  CASE a.section = "point data" ->
         /\ Len(a.values) = a.components * file.numPoints
         /\ \A k \in 1 .. file.numPoints, c \in 1 .. a.components :
              LET value == TupleOf(a, k)[c] IN
                PointOf(source, value[2], value[3]) = TupleOf(arrays[1], k) /\ value[4] = c - 1
    [] a.section = "cell data" -> Len(a.values) = file.numCells /\ \A c \in DOMAIN a.values : a.values[c][2] = c
    [] OTHER -> TRUE

FileFits(source, file, arrays) ==
  MeshFits(source, file, arrays) /\ \A k \in DOMAIN arrays : DataFits(source, file, arrays, arrays[k])

\* A saved file, text or appended, with numbers of either width, holds a mesh
\* whose cells fill the active elements with their corners in VTK's order,
\* and arrays that are found at their offsets and have the value of every
\* point at that point (Writer::save).
FilesRendered ==
  saved.kind \in {"ascii", "appended"} => Readable(saved) /\ FileFits(Source, saved, ReadArrays(saved))

-------------------------------------------------------------------------------
(* The log.                                                                *)

CONSTANTS
  LoggedNumbers, \* the numbers that are printed; NaN is not compared
  NaN,
  Thresholds,  \* of the absolute value, below which a number is printed as 0
  Depths,      \* the depths clients set
  Files,       \* the files clients attach, which live as long as the log
  MaxWritten   \* bound: numbers and line ends written, sections open

Console == "console"
NoFile == "no file"

ASSUME LogAssumption == Depths \subseteq Nat /\ {Console, NoFile} \cap Files = {}

VARIABLES
  prefixes,                       \* the stack of line heads
  stream,                         \* the text of the line that has not ended
  std_depth, file_depth, double_threshold,
  log_file,                       \* the file that is attached, or NoFile
  cerr,                           \* what the standard error stream leads to
  content,                        \* what the console and the files hold
  alive,                          \* whether the log still exists
  lines, printed                  \* history: the lines that ended, with what held
                                  \* at their end; all that was printed

logVars == <<prefixes, stream, std_depth, file_depth, double_threshold,
             log_file, cerr, content, alive, lines, printed>>

FarDown == 10000
Written == Len(lines) + Len(stream)
TopOf(stack) == stack[Len(stack)]
Abs(v) == IF v < 0 THEN -v ELSE v

LogInit ==
  /\ prefixes = << <<>> >>
  /\ stream = <<>>
  /\ std_depth = FarDown /\ file_depth = FarDown /\ double_threshold = 0
  /\ log_file = NoFile /\ cerr = Console
  /\ content = [s \in {Console} \cup Files |-> <<>>]
  /\ alive = TRUE
  /\ lines = <<>> /\ printed = <<>>

Push ==
  /\ Len(prefixes) < MaxWritten
  /\ prefixes' = Append(prefixes, Append(TopOf(prefixes), Len(prefixes)))
  /\ UNCHANGED <<stream, std_depth, file_depth, double_threshold, log_file, cerr, content, alive, lines, printed>>

Pop ==
  /\ prefixes' = IF Len(prefixes) > 1 THEN SubSeq(prefixes, 1, Len(prefixes) - 1) ELSE prefixes
  /\ UNCHANGED <<stream, std_depth, file_depth, double_threshold, log_file, cerr, content, alive, lines, printed>>

Rounded(v) == IF v = NaN THEN NaN ELSE IF Abs(v) < double_threshold THEN 0 ELSE v
PrintNumber(v) ==
  /\ Written < MaxWritten
  /\ stream' = Append(stream, Rounded(v))
  /\ printed' = Append(printed, Rounded(v))
  /\ UNCHANGED <<prefixes, std_depth, file_depth, double_threshold, log_file, cerr, content, alive, lines>>

\* A line goes to the standard error stream and to the attached file, which
\* may lead to one file.
OnConsole == Len(prefixes) <= std_depth
InFile == log_file # NoFile /\ Len(prefixes) <= file_depth
Put(written, target, mark) == [written EXCEPT ![target] = Append(@, mark)]
\* A variant that copies to the file what the console shows.
SendToSharedDepth(written, mark) ==
  LET copied == IF OnConsole THEN Put(written, cerr, mark) ELSE written
  IN  IF log_file # NoFile /\ OnConsole THEN Put(copied, log_file, mark) ELSE copied
Send(written, mark) ==
  LET copied == IF OnConsole THEN Put(written, cerr, mark) ELSE written
  IN  IF InFile THEN Put(copied, log_file, mark) ELSE copied

PrintLineHead == Send(content, TopOf(prefixes))

\* The head is the one at the end of the line; the text is dropped where it is
\* too deep, and collected anew in either case.
LineEnds ==
  /\ content' = Send(PrintLineHead, stream)
  /\ stream' = <<>>
  /\ lines' = Append(lines, [head |-> TopOf(prefixes), text |-> stream, depth |-> Len(prefixes),
                             std_depth |-> std_depth, cerr |-> cerr,
                             file_depth |-> file_depth, file |-> log_file])
  /\ UNCHANGED printed

EndLine ==
  /\ Written < MaxWritten
  /\ LineEnds
  /\ UNCHANGED <<prefixes, std_depth, file_depth, double_threshold, log_file, cerr, alive>>

Attach(f) ==
  /\ log_file' = f
  /\ UNCHANGED <<prefixes, stream, std_depth, file_depth, double_threshold, cerr, content, alive, lines, printed>>
Detach ==
  /\ log_file' = NoFile
  /\ UNCHANGED <<prefixes, stream, std_depth, file_depth, double_threshold, cerr, content, alive, lines, printed>>

\* A switch; it reads the buffer of the file only when it turns the logging of
\* the standard error stream on, and keeps the console's to turn it off.
LogCerr ==
  /\ cerr # Console \/ log_file # NoFile
  /\ cerr' = IF cerr = Console THEN log_file ELSE Console
  /\ UNCHANGED <<prefixes, stream, std_depth, file_depth, double_threshold, log_file, content, alive, lines, printed>>

DepthConsole(n) ==
  /\ std_depth' = n
  /\ UNCHANGED <<prefixes, stream, file_depth, double_threshold, log_file, cerr, content, alive, lines, printed>>
DepthFile(n) ==
  /\ file_depth' = n
  /\ UNCHANGED <<prefixes, stream, std_depth, double_threshold, log_file, cerr, content, alive, lines, printed>>
ThresholdDouble(t) ==
  /\ double_threshold' = t
  /\ UNCHANGED <<prefixes, stream, std_depth, file_depth, log_file, cerr, content, alive, lines, printed>>

\* The destructor ends a line that has begun, and then leads the standard
\* error stream back to the console.
Destroy ==
  /\ IF stream # <<>> THEN LineEnds ELSE UNCHANGED <<stream, content, lines, printed>>
  /\ cerr' = Console
  /\ alive' = FALSE
  /\ UNCHANGED <<prefixes, std_depth, file_depth, double_threshold, log_file>>

LogNext ==
  /\ alive
  /\ \/ Push \/ Pop \/ EndLine \/ Detach \/ LogCerr \/ Destroy
     \/ \E v \in LoggedNumbers : PrintNumber(v)
     \/ \E f \in Files : Attach(f)
     \/ \E n \in Depths : DepthConsole(n) \/ DepthFile(n)
     \/ \E t \in Thresholds : ThresholdDouble(t)

-------------------------------------------------------------------------------
(* The log as the readers of the console and the files see it.             *)

\* What a line leaves in the console or a file: it is whole, but where the
\* two copies of a line meet, both heads are in front of both texts.
ByCerr(line, s) == line.cerr = s /\ line.depth <= line.std_depth
ByFile(line, s) == line.file = s /\ line.depth <= line.file_depth
PieceOf(line, s) ==
  CASE ByCerr(line, s) /\ ByFile(line, s) -> <<line.head, line.head, line.text, line.text>>
    [] ByCerr(line, s) # ByFile(line, s) -> <<line.head, line.text>>
    [] OTHER -> <<>>
Shown(ended, s) == Join(Len(ended), [n \in DOMAIN ended |-> PieceOf(ended[n], s)])
Texts(ended) == Join(Len(ended), [n \in DOMAIN ended |-> ended[n].text])

\* The console and each file hold the lines that ended while they were led
\* there and no deeper than that way shows, in the order in which they ended,
\* with the sections open at their end in front; a line is whole wherever it
\* arrives once, as on the console always.  All that is printed is in one of the
\* lines, in its order, when the log is gone, and the standard error stream
\* is back (LogStream).
LinesWhole ==
  /\ \A s \in {Console} \cup Files : content[s] = Shown(lines, s)
  /\ Texts(lines) \o stream = printed
  /\ ~alive => stream = <<>> /\ cerr = Console

-------------------------------------------------------------------------------
(* Both.                                                                   *)

OutputInit == WriterInit /\ LogInit
OutputNext ==
  \/ WriterNext /\ UNCHANGED logVars
  \/ LogNext /\ UNCHANGED writerVars

\* What leaves the program is whole: files for VTK hold the mesh and the values
\* of its points and cells in either format; nothing that is printed to a log
\* is lost, and the console and the files hold the lines that were led there,
\* behind the sections open at their end and down to the depth of that way, whole
\* unless both copies of a line are led to one file (Writer::save, LogStream).
OutputWhole == FilesRendered /\ LinesWhole
===============================================================================

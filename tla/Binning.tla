------------------------------- MODULE Binning -------------------------------
(***************************************************************************)
(* The binned matrix: the CPU's row index with its column-major copy       *)
(* (src/data/gradient_index.rs), and the ELLPACK matrix of the device,     *)
(* packed on the host or on the device (src/gpu/ellpack.rs).               *)
(*                                                                         *)
(* A word has WordBits bits where the code's has 32, the narrower widths   *)
(* of BinStorage a quarter and a half of them, and a packing chunk         *)
(* WordBits entries where the code's has 32.                               *)
(***************************************************************************)
EXTENDS QuantileSketch

CONSTANT WordBits

VARIABLES
  index,   \* GHistIndex, or <<>>
  ell      \* DeviceEllpack, or <<>>

binVars == <<index, ell>>

CutPtr(f) == MapThenSumSet(LAMBDA g : Len(cuts[g]), 0 .. f - 1)
TotalBins == CutPtr(matrix.num_col)
MaxFeatureBins == Largest({0} \cup {Len(cuts[f]) : f \in Columns})
Flat == Accumulate(LAMBDA out, r : out \o Row(r), <<>>, Indices(NumRow))

(* search_bin, which halves a range that holds the answer, feature-local;  *)
(* the device's local_bin is the same.                                     *)
RECURSIVE Narrow(_, _, _, _)
Narrow(values, v, base, n) ==
  IF n <= 1 THEN base
  ELSE LET half == n \div 2
       IN Narrow(values, v, IF values[base + half + 1] <= v THEN base + half ELSE base, n - half)
SearchBin(v, f) ==
  LET base == Narrow(cuts[f], v, 0, Len(cuts[f]))
      lo == IF cuts[f][base + 1] <= v THEN base + 1 ELSE base
  IN IF lo = Len(cuts[f]) THEN lo - 1 ELSE lo

-----------------------------------------------------------------------------
(* gradient_index.rs.                                                      *)

LocalBin(v, f) ==
  IF IsCat(f) THEN LesserOf(IF InvalidCat(v) THEN 0 ELSE v, Len(cuts[f]) - 1) ELSE SearchBin(v, f)

(* BinStorage::from_u32: the narrowest width for n_values values, into     *)
(* which a bin is cut.                                                     *)
Storage(bins, n_values) ==
  LET bits == IF n_values <= 2^(WordBits \div 4) THEN WordBits \div 4
              ELSE IF n_values <= 2^(WordBits \div 2) THEN WordBits \div 2 ELSE WordBits
  IN Table([i \in DOMAIN bins |-> bins[i] % 2^bits])

(* A full matrix is binned by position, another by its entries' columns.   *)
LocalBins(flat) ==
  Table([i \in DOMAIN flat |->
           LocalBin(flat[i][2], IF IsDense THEN (i - 1) % matrix.num_col ELSE flat[i][1])])

(* build_column_index: a column stored for few of the rows keeps its rows  *)
(* and their bins, another a bin per row, missing or not.                  *)
ColumnMissing == IF IsDense THEN 2^WordBits - 1 ELSE MaxFeatureBins
(* Mutated: no value for a missing cell. *)
ColumnValuesTight == MaxFeatureBins
ColumnValues == IF IsDense THEN MaxFeatureBins ELSE MaxFeatureBins + 1
IsSparseColumn(f) == ColumnSize(f) * fit.sparse_threshold[2] < fit.sparse_threshold[1] * NumRow
EntryOf(f, r) ==    \* where row r's entry of column f is in the flat matrix
  IF IsDense THEN {(r - 1) * matrix.num_col + f + 1}
  ELSE {RowPtr(r) + k : k \in {k \in DOMAIN Row(r) : Row(r)[k][1] = f}}
ColumnIndex(local) ==
  [f \in Columns |->
     LET at == Table([r \in Rows |-> EntryOf(f, r)])
         stored == SelectSeq(Indices(NumRow), LAMBDA r : at[r] # {})
     IN IF IsSparseColumn(f)
        THEN [sparse |-> TRUE, rows |-> stored,
              data |-> Storage([k \in DOMAIN stored |-> local[Largest(at[stored[k]])]],
                               ColumnValues)]
        ELSE [sparse |-> FALSE, rows |-> <<>>,
              data |-> Storage([r \in Rows |-> IF at[r] = {} THEN ColumnMissing
                                               ELSE local[Largest(at[r])]], ColumnValues)]]

BuildGradientIndex ==
  /\ phase = "bin" /\ ~fit.device
  /\ \E flat \in {Flat} : \E local \in {LocalBins(flat)} :
       index' =
          [is_dense |-> IsDense,
           bins |-> IF IsDense THEN Storage(local, MaxFeatureBins)
                    ELSE Storage([k \in DOMAIN local |-> local[k] + CutPtr(flat[k][1])], TotalBins),
           row_ptr |-> IF IsDense THEN <<>> ELSE Table([r \in 1 .. NumRow + 1 |-> RowPtr(r)]),
           offsets |-> IF IsDense THEN [f \in Columns |-> CutPtr(f)] ELSE <<>>,
           row_stride |-> IF IsDense THEN matrix.num_col ELSE 0,
           missing |-> ColumnMissing,
           columns |-> ColumnIndex(local)]
  /\ phase' = "sample"
  /\ UNCHANGED <<fit, matrix, sketches, ranges, fed, keys, pass, cuts, ell>>

(* row_range and row_global_bins.                                          *)
RowRange(r) ==
  IF index.is_dense THEN <<(r - 1) * index.row_stride, r * index.row_stride>>
  ELSE <<index.row_ptr[r], index.row_ptr[r + 1]>>
RowGlobalBins(r) ==
  LET range == RowRange(r)
  IN [k \in 1 .. range[2] - range[1] |->
        index.bins[range[1] + k] + IF index.is_dense THEN index.offsets[k - 1] ELSE 0]

NoBin == -1
ColumnGet(f, r) ==
  LET c == index.columns[f]
      at == {k \in DOMAIN c.rows : c.rows[k] = r}
  IN IF ~c.sparse THEN (IF c.data[r] = index.missing THEN NoBin ELSE c.data[r])
     ELSE IF at = {} THEN NoBin ELSE c.data[Largest(at)]

-----------------------------------------------------------------------------
(* ellpack.rs: packing.  Entries and words are numbered from 0.            *)

WordSize == 2^WordBits
BitsFor(max_value) == Least({b \in 1 .. WordBits : max_value < 2^b})

(* pack_bins: a chunk of WordBits entries fills `bits` words, an entry     *)
(* across two of them where it must; a word of padding follows.            *)
PackBins(values, bits) ==
  LET chunks == CeilDiv(Len(values), WordBits)
      part(i, v, w) ==
        LET bit == i * bits
            wide == v * 2^(bit % WordBits)
        IN IF bit \div WordBits = w THEN wide % WordSize
           ELSE IF bit \div WordBits + 1 = w /\ (bit % WordBits) + bits > WordBits
           THEN wide \div WordSize ELSE 0
      word(chunk, w) ==
        MapThenSumSet(LAMBDA i : part(i, values[chunk * WordBits + i + 1], w),
                      {i \in 0 .. WordBits - 1 : chunk * WordBits + i < Len(values)})
  IN IF bits = WordBits THEN values \o <<0>>
     ELSE Table([k \in 1 .. chunks * bits |-> word((k - 1) \div bits, (k - 1) % bits)]) \o <<0>>

LoadBin(words, entry, bits) ==
  IF bits = WordBits THEN words[entry + 1]
  ELSE IF WordBits % bits = 0
  THEN LET per_word == WordBits \div bits
       IN (words[entry \div per_word + 1] \div 2^((entry % per_word) * bits)) % 2^bits
  ELSE LET bit == entry * bits
           word == bit \div WordBits
       IN ((words[word + 2] * WordSize + words[word + 1]) \div 2^(bit % WordBits)) % 2^bits

(* build_ellpack and upload: binned on the host, a category without a bin  *)
(* missing.                                                                *)
BinOf(v, f) ==
  IF ~IsCat(f) THEN SearchBin(v, f)
  ELSE IF InvalidCat(v) \/ v >= Len(cuts[f]) THEN NoBin ELSE v
HostCells ==
  LET bin(r, f) == {BinOf(Row(r)[k][2], f) : k \in {k \in DOMAIN Row(r) : Row(r)[k][1] = f}}
                   \ {NoBin}
  IN Table([i \in 1 .. NumRow * matrix.num_col |->
       LET bins == bin((i - 1) \div matrix.num_col + 1, (i - 1) % matrix.num_col)
       IN IF bins = {} THEN MaxFeatureBins ELSE Largest(bins)])
NaturalBits(gidx, dense) ==
  LET data_max == Largest({0} \cup {gidx[i] : i \in DOMAIN gidx})
  IN BitsFor(IF dense THEN data_max ELSE GreaterOf(data_max, MaxFeatureBins))
Transposed(gidx) ==
  Table([i \in DOMAIN gidx |->
           gidx[((i - 1) % NumRow) * matrix.num_col + ((i - 1) \div NumRow) + 1]])

(* DeviceValues::readable, and where GpuGrower::new_multi bins.            *)
Readable ==
  DenseInput \/ \A r \in Rows : \A k \in 1 .. Len(Row(r)) - 1 : Row(r)[k][1] < Row(r)[k + 1][1]
OnDevice == fit.planes /\ fit.cat = {} /\ Readable

HostEllpack ==
  /\ phase = "bin" /\ fit.device /\ ~OnDevice
  /\ \E gidx \in {HostCells} :
     \E dense \in {\A i \in DOMAIN gidx : gidx[i] # MaxFeatureBins} :
     \E bits \in {IF fit.planes THEN NaturalBits(gidx, dense) ELSE WordBits} :
       ell' = [gidx |-> PackBins(gidx, bits), gidx_t |-> PackBins(Transposed(gidx), bits),
               bits |-> bits, null_value |-> MaxFeatureBins, dense |-> dense]
  /\ phase' = "sample"
  /\ UNCHANGED <<fit, matrix, sketches, ranges, fed, keys, pass, cuts, index>>

(* cell_bits: by position, or the first entry of the row not below f.      *)
CellValue(r, f) ==
  IF DenseInput THEN Row(r)[f + 1][2]
  ELSE LET i == Cardinality({k \in DOMAIN Row(r) : Row(r)[k][1] < f}) + 1
       IN IF i <= Len(Row(r)) /\ Row(r)[i][1] = f THEN Row(r)[i][2] ELSE Missing

(* A unit of bin_pack_kernel and of transpose_packed_kernel: the words of  *)
(* a chunk out of an accumulator, cells past n as zero.                    *)
PackChunk(cell, chunk, n, bits) ==
  Accumulate(
    LAMBDA s, i :
      LET c == chunk * WordBits + i - 1
          off == (i - 1) * bits - Len(s.out) * WordBits
          acc == s.acc + (IF c < n THEN cell[c] ELSE 0) * 2^off
      IN IF off + bits >= WordBits
         THEN [acc |-> acc \div WordSize, out |-> Append(s.out, acc % WordSize)]
         ELSE [s EXCEPT !.acc = acc],
    [acc |-> 0, out |-> <<>>], Indices(WordBits)).out

(* bin_on_device.  The unit a chunk is transposed by is found from its     *)
(* number; a chunk no unit takes keeps what the buffer held.               *)
BinOnDevice ==
  /\ phase = "bin" /\ fit.device /\ OnDevice
  /\ LET n == NumRow * matrix.num_col
         chunks == CeilDiv(n, WordBits)
         null == MaxFeatureBins
         bits == BitsFor(IF DenseInput THEN GreaterOf(null - 1, 0) ELSE null)
         cell == [c \in 0 .. n - 1 |->
                    LET v == CellValue(c \div matrix.num_col + 1, c % matrix.num_col)
                    IN IF v = Missing THEN null ELSE SearchBin(v, c % matrix.num_col)]
         join(part) == Accumulate(LAMBDA out, k : out \o part[k - 1], <<>>, Indices(chunks))
                       \o <<0>>
         packed == join([k \in 0 .. chunks - 1 |-> PackChunk(cell, k, n, bits)])
         per_feature == CeilDiv(chunks, matrix.num_col)
         taken == {(u % matrix.num_col) * per_feature + u \div matrix.num_col :
                     u \in 0 .. matrix.num_col * per_feature - 1}
         turned == [c \in 0 .. n - 1 |->
                      LoadBin(packed, (c % NumRow) * matrix.num_col + c \div NumRow, bits)]
     IN ell' = [gidx |-> packed,
                gidx_t |-> join([k \in 0 .. chunks - 1 |->
                                   IF k \in taken THEN PackChunk(turned, k, n, bits)
                                   ELSE [w \in 1 .. bits |-> 0]]),
                bits |-> bits, null_value |-> null, dense |-> DenseInput]
  /\ phase' = "sample"
  /\ UNCHANGED <<fit, matrix, sketches, ranges, fed, keys, pass, cuts, index>>

BinInit == SketchInit /\ index = <<>> /\ ell = <<>>
BinNext ==
  \/ SketchNext /\ UNCHANGED binVars
  \/ BuildGradientIndex \/ HostEllpack \/ BinOnDevice

-----------------------------------------------------------------------------
(* Properties. *)

(* The bin a value belongs to: the first cut above it, a category its own. *)
TrueBin(v, f) ==
  IF IsCat(f) THEN v
  ELSE Least({b \in 0 .. Len(cuts[f]) - 1 : b = Len(cuts[f]) - 1 \/ v < cuts[f][b + 1]})
TrueCell(r, f) ==
  LET e == SelectSeq(Row(r), LAMBDA x : x[1] = f) IN IF e = <<>> THEN NoBin ELSE TrueBin(e[1][2], f)

(* Every view of a cell gives the one bin of its value, or none: the row   *)
(* index and the column index, narrowed and laid out as they are, on the   *)
(* CPU, and both packed copies of the ELLPACK matrix, wherever it was      *)
(* packed.  The histogram reads one view and the partition the other, so a *)
(* row would go left by one and count right by the other.                  *)
BinsAgree ==
  /\ index # <<>> =>
       \A r \in Rows :
         /\ RowGlobalBins(r) =
              [k \in DOMAIN Row(r) |-> CutPtr(Row(r)[k][1]) + TrueBin(Row(r)[k][2], Row(r)[k][1])]
         /\ \A f \in Columns : ColumnGet(f, r) = TrueCell(r, f)
  /\ ell # <<>> =>
       \A r \in Rows, f \in Columns :
         LET bin == IF TrueCell(r, f) = NoBin THEN ell.null_value ELSE TrueCell(r, f)
         IN /\ LoadBin(ell.gidx, (r - 1) * matrix.num_col + f, ell.bits) = bin
            /\ LoadBin(ell.gidx_t, f * NumRow + r - 1, ell.bits) = bin
=============================================================================

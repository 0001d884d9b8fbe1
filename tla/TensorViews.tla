----------------------------- MODULE TensorViews -----------------------------
(***************************************************************************)
(* Borrowed tensor and matrix views of a host (capi lib.rs) and the N-D    *)
(* tensors made of them (nd_tensor.rs).                                    *)
(*                                                                         *)
(* The memory of a view is address |-> byte; as the code only moves bytes, *)
(* a byte is its own address, and view.odd are the addresses of bytes that *)
(* are neither 0 nor 1.  A pointer with a length is << >> when it is null. *)
(***************************************************************************)
EXTENDS Fusion

CONSTANTS
  IsizeMax,    \* isize::MAX, scaled with UsizeMax
  MaxRank      \* ND_TENSOR_MAX_RANK

-----------------------------------------------------------------------------
(* Checked arithmetic.                                                     *)

InUsize(n) == n <= UsizeMax

\* checked_product, checked_shape_product: -1 when a product leaves usize.
Product(seq) ==
  LET upto[i \in 0 .. Len(seq)] ==
        IF i = 0 THEN 1
        ELSE IF upto[i - 1] >= 0 /\ InUsize(upto[i - 1] * seq[i])
        THEN upto[i - 1] * seq[i] ELSE -1
  IN upto[Len(seq)]

\* The checked sum of the spans of the axes, -1 when it leaves usize.
MaxOffset_one_axis(shape, strides) ==
  (Last(shape) - 1) * Last(strides)

Span(shape, strides, i) == (shape[i] - 1) * strides[i]

MaxOffset(shape, strides) ==
  LET upto[i \in 0 .. Len(shape)] ==
        IF i = 0 THEN 0
        ELSE IF /\ upto[i - 1] >= 0 /\ InUsize(Span(shape, strides, i))
                /\ InUsize(upto[i - 1] + Span(shape, strides, i))
        THEN upto[i - 1] + Span(shape, strides, i) ELSE -1
  IN upto[Len(shape)]

-----------------------------------------------------------------------------
(* Tensors.                                                                *)

\* The row-major decomposition of a flat index, last axis first: the offset
\* that the last k axes add, and what is left of the index.
Decomposed(shape, strides, flat) ==
  LET rank == Len(shape)
      last[k \in 0 .. rank] ==
        IF k = 0 THEN [offset |-> 0, rest |-> flat]
        ELSE LET i == rank - k + 1
             IN [offset |-> last[k - 1].offset + (last[k - 1].rest % shape[i]) * strides[i],
                 rest |-> last[k - 1].rest \div shape[i]]
  IN last

StridedOffset(shape, strides, flat) ==
  Decomposed(shape, strides, flat)[Len(shape)].offset

gather_strided_tensor(view, elements) ==
  LET s == view.strides[1]
      last == MaxOffset(view.shape, s)
  IN IF /\ \A i \in DOMAIN s : s[i] > 0
        /\ last >= 0 /\ InUsize(last + view.size)
        /\ view.data_len >= last + view.size
        /\ last + view.size <= IsizeMax
     THEN Ok(FlattenSeq([e \in 1..elements |-> [k \in 1..view.size |->
               StridedOffset(view.shape, s, e - 1) + k - 1]]))
     ELSE Err

\* Without strides the payload is canonical and its length exact.
contiguous(view, bytes) ==
  IF view.data_len = bytes /\ bytes <= IsizeMax THEN Ok([a \in 1..bytes |-> a - 1]) ELSE Err

ValidRowPresence(view) ==
  view.presence # << >> =>
    /\ Len(view.presence[1]) = view.shape[1]
    /\ ToSet(view.presence[1]) \subseteq {0, 1}

borrowed_tensor_view_to_input(view) ==
  LET elements == Product(view.shape)
      bytes == elements * view.size
      data == IF view.strides = << >> THEN contiguous(view, bytes)
              ELSE gather_strided_tensor(view, elements)
  IN IF /\ Len(view.shape) \in 1..MaxRank /\ 0 \notin ToSet(view.shape)
        /\ view.shape[1] = Len(view.obs)
        /\ elements >= 0 /\ InUsize(bytes)
        /\ ~ view.null /\ IsOk(data)
        /\ ValidRowPresence(view)
     THEN Ok([shape |-> view.shape, size |-> view.size, bool |-> view.bool,
              odd |-> view.odd, obs |-> view.obs, data |-> data[1],
              presence |-> IF view.presence = << >> THEN << >>
                           ELSE <<[i \in DOMAIN view.presence[1] |-> view.presence[1][i] = 1]>>])
     ELSE Err

\* NdTensor::from_input.
from_input(in) ==
  IF /\ Len(in.shape) \in 1..MaxRank /\ 0 \notin ToSet(in.shape)
     /\ Len(in.obs) = in.shape[1] /\ Unique(in.obs)
     /\ Product(in.shape) >= 0 /\ InUsize(Product(in.shape) * in.size)
     /\ Len(in.data) = Product(in.shape) * in.size
     /\ in.bool => ToSet(in.data) \cap in.odd = {}
     /\ in.presence # << >> => Len(in.presence[1]) = in.shape[1]
  THEN Ok(in) ELSE Err

RowStride(t) == Len(t.data) \div t.shape[1]

\* NdTensor::project_relations: the rows of the observations of the view.
project_tensor(t, view, source) ==
  LET rows == OfSource(view, source)
      row == [k \in DOMAIN rows |-> IndexOf(t.obs, rows[k].obs)]
  IN IF ToSet(ObsIn(rows)) \subseteq ToSet(t.obs)
     THEN Ok([shape |-> [t.shape EXCEPT ![1] = Len(rows)],
              obs |-> ObsIn(rows), samples |-> SamplesIn(rows),
              data |-> FlattenSeq([k \in DOMAIN rows |->
                         Window(t.data, (row[k] - 1) * RowStride(t), RowStride(t))]),
              presence |-> IF t.presence = << >> THEN << >>
                           ELSE <<[k \in DOMAIN rows |-> t.presence[1][row[k]]]>>])
     ELSE Err

-----------------------------------------------------------------------------
(* Matrix views.                                                           *)

\* u8_validity_mask_to_vec: a null pointer or no bytes is no mask.
u8_validity_mask_to_vec(mask) ==
  IF mask = << >> \/ mask = <<<< >>>> THEN Ok(<< >>)
  ELSE IF ToSet(mask[1]) \subseteq {0, 1}
  THEN Ok(<<[i \in DOMAIN mask[1] |-> mask[1][i] = 1]>>)
  ELSE Err

f64_feature_matrix_view_to_core(view) ==
  LET mask == u8_validity_mask_to_vec(view.mask)
  IN IF IsOk(mask)
     THEN Ok([names |-> view.names, obs |-> view.obs, values |-> view.values, mask |-> mask[1]])
     ELSE Err

\* f64_column_views_to_vecs: all columns have a mask, or none.
f64_feature_matrix_columnar_view_to_core(view) ==
  LET mask == [f \in DOMAIN view.columns |-> u8_validity_mask_to_vec(view.columns[f].mask)]
      none == \A f \in DOMAIN mask : mask[f][1] = << >>
      full == \A f \in DOMAIN mask : mask[f][1] # << >> /\ Len(mask[f][1][1]) = Len(view.columns[f].values)
  IN IF (\A f \in DOMAIN mask : IsOk(mask[f])) /\ (none \/ full)
     THEN Ok([names |-> view.names, obs |-> view.obs,
              columns |-> [f \in DOMAIN view.columns |-> view.columns[f].values],
              masks |-> IF none THEN << >> ELSE <<[f \in DOMAIN mask |-> mask[f][1][1]]>>])
     ELSE Err
=============================================================================

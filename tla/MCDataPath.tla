----------------------------- MODULE MCDataPath -----------------------------
(* What the host holds in the runs about the data path.  Values are small  *)
(* numbers that tell the cells apart; names are sequences of small numbers.*)
EXTENDS DataPath

McNotFinite == 99

Num(v) == Json("number", v)
Whole(v) == Json("integer", v)

Rel(obs, sample, source, target) ==
  [obs |-> obs, sample |-> sample, source |-> source, target |-> target, group |-> << >>,
   origin |-> << >>, augmented |-> FALSE, rich |-> FALSE, json |-> <<9>>]

-----------------------------------------------------------------------------
(* Features: two sources, the first with two features.                     *)

Cells1(holes) ==
  [r \in 1..2 |-> [f \in 1..2 |->
     IF <<r, f>> \in holes THEN Null ELSE IF f = 1 THEN Whole(10 * r + 5) ELSE Num(10 * r + 2)]]

Source1(names, holes) ==
  [source |-> <<1>>, names |-> names, obs |-> <<<<1>>, <<2>>>>, rows |-> Cells1(holes)]

Source2(names, hole) ==
  [source |-> <<2>>, names |-> names, obs |-> <<<<3>>, <<4>>>>,
   rows |-> <<<<IF hole THEN Null ELSE Whole(54)>>, <<Num(60)>>>>]

\* Samples of the observations 1 to 4; the view lists them in some order.
View(samples, order) ==
  [k \in DOMAIN order |-> Rel(<<order[k]>>, <<samples[order[k]]>>,
                              <<IF order[k] <= 2 THEN <<1>> ELSE <<2>>>>, << >>)]

Views ==
  {View(samples, order) :
     samples \in {<<1, 2, 1, 2>>, <<1, 1, 1, 2>>, <<1, 2, 2, 3>>, <<1, 2, 3, 3>>, <<2, 1, 1, 1>>},
     order \in {<<1, 2, 3, 4>>, <<2, 4, 1, 3>>, <<2, 3>>, <<1, 2>>}}

FeatureJobs ==
  {[kind |-> "features", view |-> view, sources |-> <<Source1(<<<<1>>, <<2>>>>, holes), Source2(names, hole)>>] :
     view \in Views, holes \in {{}, {<<1, 2>>}, {<<1, 1>>, <<2, 1>>}}, hole \in BOOLEAN,
     names \in {<<<<3>>>>, <<<<1>>>>}}
  \cup
  {[kind |-> "features", view |-> View(<<1, 2, 1, 2>>, <<1, 2, 3, 4>>),
    sources |-> <<s, Source2(<<<<3>>>>, FALSE)>>] :
     s \in {Source1(<<<<1>>, <<1>>>>, {}), Source1(<<<<1>>>>, {}), Source1(<<<<1>>, <<0>>>>, {}),
            [Source1(<<<<1>>, <<2>>>>, {}) EXCEPT !.obs = <<<<1>>, <<1>>>>],
            [Source1(<<<<1>>, <<2>>>>, {}) EXCEPT !.rows[1][1] = Json("string", 1)],
            [Source1(<<<<1>>, <<2>>>>, {}) EXCEPT !.rows[1][1] = Json("nan", 0)]}}

McColumns == {<< >>, <<<<<<2>>>>>>, <<<<<<2>>, <<1>>>>>>, <<<<<<1>>, <<1>>>>>>, << << >> >>}

-----------------------------------------------------------------------------
(* Rows to collate, ragged or named.                                       *)

Row(n, hole) == [c \in 1..n |-> IF c = hole THEN << >> ELSE <<10 * n + c>>]

Rows(names, rows) ==
  [obs |-> [k \in DOMAIN rows |-> <<k>>], samples |-> [k \in DOMAIN rows |-> <<1>>],
   names |-> names, rows |-> rows]

RowJobs ==
  {[kind |-> "rows", input |-> Rows(names, <<Row(m, hole), Row(n, 0)>>)] :
     names \in {<< >>, <<<<<<1>>, <<2>>, <<3>>>>>>}, m \in 0..4, n \in {1, 3}, hole \in {0, 2}}
  \cup {[kind |-> "rows", input |-> [Rows(<< >>, <<Row(1, 0), Row(2, 0)>>) EXCEPT !.obs = <<<<1>>, <<1>>>>]]}

McPolicies ==
  [max_length : {<< >>, <<0>>, <<1>>, <<2>>, <<3>>, <<5>>}, truncate : BOOLEAN,
   padding : {"none", "left", "right", "center"}, emit_mask : BOOLEAN, pad_value : {0, McNotFinite}]

-----------------------------------------------------------------------------
(* Targets.                                                                *)

TargetTable(target, samples, values) ==
  [target |-> target, values |-> [i \in DOMAIN samples |-> [sample |-> samples[i], value |-> values[i]]]]

TargetViews ==
  {<<Rel(<<1>>, <<1>>, << >>, << >>), Rel(<<2>>, <<2>>, << >>, t), Rel(<<3>>, <<1>>, << >>, u)>> :
     t \in {<< >>, <<<<5>>>>, <<<<6>>>>}, u \in {<< >>, <<<<7>>>>}}
  \cup {[k \in 1..3 |->
           [Rel(<<k>>, <<k>>, IF k = 1 THEN << >> ELSE <<<<k, k>>>>, << >>) EXCEPT
              !.augmented = k # 2, !.rich = (k = 3), !.group = IF k = 3 THEN <<<<8>>>> ELSE << >>]]}

TargetJobs ==
  {[kind |-> "targets", view |-> view,
    tables |-> <<TargetTable(<<5>>, samples, values), TargetTable(second, <<<<1>>>>, <<Num(70)>>)>>] :
     view \in TargetViews, samples \in {<<<<1>>, <<2>>, <<3>>>>, <<<<2>>, <<1>>, <<1>>>>, <<<<3>>, <<2>>, <<1>>>>},
     second \in {<<5>>, <<6>>, <<6, 0>>},
     values \in {<<Num(1), Whole(5), Whole(-7)>>, <<Num(1), Json("string", 1), Null>>,
                 <<Json("string", 1), Json("string", 0), Json("string", 2)>>,
                 <<JsonArray(<<Num(1), Whole(2)>>), JsonArray(<<Num(3), Num(4)>>), JsonArray(<<Num(5)>>)>>,
                 <<Null, Num(2), Num(3)>>}}

-----------------------------------------------------------------------------
(* Tensor views: shapes, strides and lengths around the limits.            *)

Tensor(shape, strides, size, len) ==
  [shape |-> shape, strides |-> strides, size |-> size, data_len |-> len, bool |-> FALSE, odd |-> {},
   obs |-> [i \in 1..(IF shape = << >> THEN 0 ELSE shape[1]) |-> <<i>>], null |-> FALSE,
   presence |-> << >>]

StridesOf(shape) == {<<s>> : s \in [DOMAIN shape -> {0, 1, 2, 4, 6}]}

Tensors ==
  UNION {{Tensor(shape, strides, size, len) :
            strides \in {<< >>} \cup StridesOf(shape), size \in {1, 2}, len \in {0, 1, 4, 6, 7, 8, 12}} :
           shape \in {<<2>>, <<2, 2>>, <<1, 3>>, <<3, 1>>, <<2, 0>>, <<3, 4>>}}
  \cup {Tensor(<<2, 1, 2>>, strides, 1, 7) : strides \in {<< >>} \cup StridesOf(<<2, 1, 2>>)}
  \cup {Tensor(<< >>, << >>, 1, 1), Tensor(<<1, 1, 1, 1>>, << >>, 1, 1),
        [Tensor(<<2>>, << >>, 1, 2) EXCEPT !.null = TRUE],
        [Tensor(<<2>>, << >>, 1, 2) EXCEPT !.obs = <<<<1>>>>],
        [Tensor(<<2>>, << >>, 1, 2) EXCEPT !.obs = <<<<1>>, <<1>>>>],
        [Tensor(<<2>>, << >>, 1, 2) EXCEPT !.bool = TRUE, !.odd = {1}],
        [Tensor(<<2>>, <<<<2>>>>, 1, 3) EXCEPT !.bool = TRUE, !.odd = {1}]}
  \cup {[Tensor(<<2>>, << >>, 1, 2) EXCEPT !.presence = <<p>>] : p \in {<<1>>, <<0, 1>>, <<0, 2>>}}

TensorJobs ==
  {[kind |-> "tensor", tensor |-> t,
    view |-> <<Rel(<<2>>, <<1>>, <<<<1>>>>, << >>), Rel(<<1>>, <<2>>, << >>, << >>)>>] : t \in Tensors}

McJobs == FeatureJobs \cup RowJobs \cup TargetJobs \cup TensorJobs
=============================================================================

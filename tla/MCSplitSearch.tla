---------------------------- MODULE MCSplitSearch ----------------------------
(* A few rows of every mixture of kinds, under one setting per rule of the *)
(* search: missing entries, rows without hessian, an L1 term, a step       *)
(* limit, monotone boxes, interaction groups, categories tried one by one  *)
(* and in order, two targets, and updaters after the grower.               *)
EXTENDS TreeModel

Kind(bin, gpair) == [bin |-> bin, gpair |-> gpair]
Plain(features, bins, targets, kinds) ==
  [features |-> features, bins |-> bins, targets |-> targets, kinds |-> kinds,
   lambda |-> 1, alpha |-> 0, max_delta_step |-> 0, min_child_weight |-> 1,
   monotone |-> [f \in 1 .. features |-> 0], interaction |-> {},
   cat |-> {}, max_cat_to_onehot |-> 4, max_cat_threshold |-> 64,
   updaters |-> <<>>, refresh_leaf |-> TRUE, learning_rate |-> <<1, 2>>,
   min_split_loss |-> 0, max_depth |-> 0]

Missing == Plain(2, 3, 1, <<Kind(<<1, 2>>, <<<<2, 1>>>>), Kind(<<2, 0>>, <<<<-3, 1>>>>),
                            Kind(<<0, 1>>, <<<<1, 2>>>>), Kind(<<3, 3>>, <<<<2, 0>>>>),
                            Kind(<<3, 1>>, <<<<-1, 1>>>>), Kind(<<0, 2>>, <<<<-2, 1>>>>)>>)
Wide == Plain(1, 5, 1, <<Kind(<<1>>, <<<<1, 1>>>>), Kind(<<2>>, <<<<-2, 1>>>>),
                         Kind(<<4>>, <<<<3, 1>>>>), Kind(<<5>>, <<<<-4, 2>>>>),
                         Kind(<<0>>, <<<<2, 1>>>>)>>)
Regularised == [Missing EXCEPT !.alpha = 1, !.max_delta_step = 1, !.lambda = 0]
Heavy == [Missing EXCEPT !.min_child_weight = 2, !.lambda = 0]
Increasing ==
  [Plain(2, 2, 1, <<Kind(<<1, 1>>, <<<<-2, 1>>>>), Kind(<<1, 2>>, <<<<5, 1>>>>),
                    Kind(<<2, 1>>, <<<<-3, 1>>>>), Kind(<<2, 2>>, <<<<-1, 1>>>>),
                    Kind(<<0, 2>>, <<<<3, 1>>>>)>>)
   EXCEPT !.monotone = <<1, 0>>]
Opposed == [Increasing EXCEPT !.monotone = <<1, -1>>]
Groups == [Plain(3, 2, 1, <<Kind(<<1, 1, 1>>, <<<<4, 1>>>>), Kind(<<1, 1, 2>>, <<<<-1, 1>>>>),
                            Kind(<<1, 2, 1>>, <<<<9, 1>>>>), Kind(<<2, 1, 1>>, <<<<-20, 1>>>>),
                            Kind(<<2, 2, 2>>, <<<<-5, 1>>>>)>>)
           EXCEPT !.interaction = {{0, 1}, {1, 2}}]
OneHot == [Plain(2, 3, 1, <<Kind(<<1, 2>>, <<<<3, 1>>>>), Kind(<<2, 1>>, <<<<-4, 1>>>>),
                            Kind(<<3, 2>>, <<<<2, 1>>>>), Kind(<<0, 1>>, <<<<-1, 1>>>>),
                            Kind(<<2, 2>>, <<<<1, 0>>>>)>>)
           EXCEPT !.cat = {0}]
Partition == [OneHot EXCEPT !.max_cat_to_onehot = 1]
Capped == [Partition EXCEPT !.max_cat_threshold = 2, !.cat = {1}]
Vector == Plain(2, 2, 2, <<Kind(<<1, 2>>, <<<<2, 1>>, <<-1, 2>>>>),
                           Kind(<<2, 1>>, <<<<-3, 1>>, <<1, 1>>>>),
                           Kind(<<0, 2>>, <<<<1, 1>>, <<-2, 0>>>>),
                           Kind(<<2, 0>>, <<<<-1, 2>>, <<3, 1>>>>)>>)
VectorBoxed == [Vector EXCEPT !.monotone = <<1, 0>>]

Prunes ==
  [Plain(2, 3, 1, <<Kind(<<1, 0>>, <<<<20, 1>>>>), Kind(<<2, 1>>, <<<<-9, 1>>>>),
                    Kind(<<3, 1>>, <<<<-1, 1>>>>), Kind(<<2, 2>>, <<<<3, 1>>>>),
                    Kind(<<3, 2>>, <<<<9, 1>>>>)>>)
   EXCEPT !.updaters = <<"prune", "refresh">>, !.min_split_loss = 3]
Updates ==
  [Groups EXCEPT !.kinds = SubSeq(@, 1, 4), !.interaction = {},
                 !.updaters = <<"refresh", "prune">>, !.max_depth = 1]
Revisits ==
  [OneHot EXCEPT !.kinds = SubSeq(@, 1, 4), !.updaters = <<"refresh", "prune", "refresh">>,
                 !.refresh_leaf = FALSE, !.min_split_loss = 2]
Bounded ==
  [Increasing EXCEPT !.kinds = SubSeq(@, 1, 4), !.updaters = <<"prune">>, !.min_split_loss = 1]

MCSettings == {Missing, Wide, Regularised, Heavy, Increasing, Opposed, Groups, OneHot, Partition,
               Capped, Vector, VectorBoxed, Prunes, Updates, Revisits, Bounded}
=============================================================================

----------------------------- MODULE MCOnnxModel -----------------------------
(* Models for the inspector's run: the script's own kind of graph with     *)
(* small names, dimensions and tensors on both sides of a one-byte length, *)
(* and models that lack what requireModel asks for.                        *)
EXTENDS OnnxModel

In(shape) == [name |-> <<97>>, elem_type |-> 1, shape |-> shape]
Weight(n) == [name |-> <<98, 99>>, data_type |-> 1, dims |-> <<n>>, raw_bytes |-> 4 * n]
MatMul == [name |-> <<100>>, op_type |-> <<101>>, inputs |-> <<<<97>>, <<98>>>>, outputs |-> <<<<102>>>>]

MCModels ==
    [graph_name : {<<>>, <<103>>}, ir_version : {8}, opset_version : {13},
     inputs : {<<>>, <<In(<<1, 300>>)>>}, outputs : {<<In(<<>>), In(<<3>>)>>},
     initializers : {<<>>, <<Weight(3), Weight(40)>>},
     nodes : {<<MatMul, MatMul>>}]
=============================================================================

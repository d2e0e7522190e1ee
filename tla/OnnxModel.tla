----------------------------- MODULE OnnxModel -----------------------------
(***************************************************************************)
(* The tiny ONNX model of projects/onnx_runtime_cpp_demo: the script that  *)
(* writes the protobuf file byte by byte, and the inspector that reads it  *)
(* with a parser of its own, one function per message. The parser is one   *)
(* machine here: a stack of the functions that are running, each with its  *)
(* slice of the file and what it has gathered. A step reads one field.     *)
(***************************************************************************)
EXTENDS Integers, Sequences, FiniteSets, FiniteSetsExt, SequencesExt

CONSTANT Models   \* bound: the models a script may be asked to write

VARIABLES
    info,      \* the model the script writes
    file,      \* the bytes of the file, as far as they were written
    whole,     \* the script came to its end
    stack,     \* the parse functions that are running, innermost last
    outcome    \* "writing", "reading", then the inspector's "ok" or "error"

vars == <<info, file, whole, stack, outcome>>

-----------------------------------------------------------------------------
(* The script.                                                             *)

Varint(n) ==
    LET digits == 1 + Cardinality({i \in 1 .. 4 : n >= 128^i})
    IN  [i \in 1 .. digits |-> ((n \div 128^(i - 1)) % 128) + (IF i < digits THEN 128 ELSE 0)]

Key(field, wire) == Varint(field * 8 + wire)

FieldVarint(field, n) == Key(field, 0) \o Varint(n)

FieldBytes(field, bytes) == Key(field, 2) \o Varint(Len(bytes)) \o bytes

Each(Op(_), seq) == FlattenSeq([i \in DOMAIN seq |-> Op(seq[i])])

TensorShape(dims) == Each(LAMBDA d : FieldBytes(1, FieldVarint(1, d)), dims)

TensorType(elemType, dims) == FieldVarint(1, elemType) \o FieldBytes(2, TensorShape(dims))

ValueInfo(v) ==
    FieldBytes(1, v.name) \o FieldBytes(2, FieldBytes(1, TensorType(v.elem_type, v.shape)))

Tensor(t) ==
    Each(LAMBDA d : FieldVarint(1, d), t.dims) \o FieldVarint(2, t.data_type)
        \o FieldBytes(8, t.name) \o FieldBytes(9, [i \in 1 .. t.raw_bytes |-> 63])

Node(n) ==
    Each(LAMBDA s : FieldBytes(1, s), n.inputs) \o Each(LAMBDA s : FieldBytes(2, s), n.outputs)
        \o FieldBytes(3, n.name) \o FieldBytes(4, n.op_type)

Graph(m) ==
    Each(LAMBDA n : FieldBytes(1, Node(n)), m.nodes) \o FieldBytes(2, m.graph_name)
        \o Each(LAMBDA t : FieldBytes(5, Tensor(t)), m.initializers)
        \o Each(LAMBDA v : FieldBytes(11, ValueInfo(v)), m.inputs)
        \o Each(LAMBDA v : FieldBytes(12, ValueInfo(v)), m.outputs)

Producer == <<106>>

ModelBytes(m) ==
    FieldVarint(1, m.ir_version) \o FieldBytes(2, Producer) \o FieldBytes(7, Graph(m))
        \o FieldBytes(8, FieldVarint(2, m.opset_version))

-----------------------------------------------------------------------------
(* The inspector: what each function makes of a field. "int", "string" and *)
(* "raw" are read in place, any other form names the function that reads   *)
(* the nested message. "set" assigns, "push" appends, "fill" lets the      *)
(* nested function fill in the caller's structure, and "return" leaves the *)
(* function with the value.                                                *)

Row(in, field, form, to, how) ==
    [in |-> in, field |-> field, wire |-> IF form = "int" THEN 0 ELSE 2,
     form |-> form, to |-> to, how |-> how]

Rows == {
    Row("model",       1, "int",         "ir_version",    "set"),
    Row("model",       7, "graph",       "",              "fill"),
    Row("model",       8, "opset",       "opset_version", "set"),
    Row("graph",       1, "node",        "nodes",         "push"),
    Row("graph",       2, "string",      "graph_name",    "set"),
    Row("graph",       5, "tensor",      "initializers",  "push"),
    Row("graph",      11, "value",       "inputs",        "push"),
    Row("graph",      12, "value",       "outputs",       "push"),
    Row("opset",       2, "int",         "",              "return"),
    Row("node",        1, "string",      "inputs",        "push"),
    Row("node",        2, "string",      "outputs",       "push"),
    Row("node",        3, "string",      "name",          "set"),
    Row("node",        4, "string",      "op_type",       "set"),
    Row("tensor",      1, "int",         "dims",          "push"),
    Row("tensor",      2, "int",         "data_type",     "set"),
    Row("tensor",      8, "string",      "name",          "set"),
    Row("tensor",      9, "raw",         "raw_bytes",     "set"),
    Row("value",       1, "string",      "name",          "set"),
    Row("value",       2, "type",        "",              "fill"),
    Row("type",        1, "tensor_type", "",              "fill"),
    Row("tensor_type", 1, "int",         "elem_type",     "set"),
    Row("tensor_type", 2, "shape",       "shape",         "set"),
    Row("shape",       1, "dimension",   "dims",          "push"),
    Row("dimension",   1, "int",         "",              "return") }

Forms == {"int", "string", "raw"}

\* What a function that fills in a structure of its own starts from.
Fresh(in) ==
    CASE in = "model"  -> [graph_name |-> <<>>, ir_version |-> 0, opset_version |-> 0,
                           inputs |-> <<>>, outputs |-> <<>>, initializers |-> <<>>, nodes |-> <<>>]
      [] in = "node"   -> [name |-> <<>>, op_type |-> <<>>, inputs |-> <<>>, outputs |-> <<>>]
      [] in = "tensor" -> [name |-> <<>>, data_type |-> 0, dims |-> <<>>, raw_bytes |-> 0]
      [] in = "value"  -> [name |-> <<>>, elem_type |-> 0, shape |-> <<>>]
      [] in = "shape"  -> [dims |-> <<>>]
      [] OTHER         -> <<>>

\* What a function returns that has reached the end of its slice.
Result(f) ==
    CASE f.in = "shape"     -> f.out.dims
      [] f.in = "dimension" -> -1
      [] f.in = "opset"     -> 0
      [] OTHER              -> f.out

Store(out, row, v) ==
    CASE row.how = "set"  -> [out EXCEPT ![row.to] = v]
      [] row.how = "push" -> [out EXCEPT ![row.to] = Append(@, v)]
      [] row.how = "fill" -> v

Frame(in, begin, end, out, row) ==
    [in |-> in, pos |-> begin, end |-> end, out |-> out, row |-> row]

\* Each read gives the set of its results: empty where the code throws.
ReadVarint(pos, end) ==
    LET stops == {i \in pos .. end - 1 : i - pos <= 9 /\ file[i + 1] < 128}
    IN  IF stops = {} THEN {}
        ELSE LET last == Min(stops)
             IN {[value |-> MapThenSumSet(LAMBDA i : (file[i + 1] % 128) * 128^(i - pos), pos .. last),
                  next |-> last + 1]}

\* Mutant: a length that goes past the slice is cut to it instead of refused.
ReadBytesClipped(pos, end) ==
    {[begin |-> n.next, end |-> Min({n.next + n.value, end})] : n \in ReadVarint(pos, end)}

ReadBytes(pos, end) ==
    {[begin |-> n.next, end |-> n.next + n.value] :
        n \in {v \in ReadVarint(pos, end) : v.next + v.value <= end}}

SkipField(pos, end, wire) ==
    CASE wire = 0 -> {v.next : v \in ReadVarint(pos, end)}
      [] wire = 1 -> {p \in {pos + 8} : p <= end}
      [] wire = 2 -> {b.end : b \in ReadBytes(pos, end)}
      [] wire = 5 -> {p \in {pos + 4} : p <= end}
      [] OTHER    -> {}

ReadTag(f) ==
    {[field |-> v.value \div 8, wire |-> v.value % 8, next |-> v.next] : v \in ReadVarint(f.pos, f.end)}

RowsFor(f, tag) == {r \in Rows : r.in = f.in /\ r.field = tag.field /\ r.wire = tag.wire}

Top == Last(stack)
ReplaceTop(f) == Append(Front(stack), f)

Values(row, pos, end) ==
    IF row.form = "int" THEN ReadVarint(pos, end)
    ELSE {[value |-> IF row.form = "raw" THEN b.end - b.begin ELSE SubSeq(file, b.begin + 1, b.end),
           next |-> b.end] : b \in ReadBytes(pos, end)}

\* The stack once the innermost function has returned v to its caller.
Returned(v) ==
    LET callers == Front(stack)
        caller  == Last(callers)
    IN  Append(Front(callers), [caller EXCEPT !.out = Store(@, Top.row, v)])

AfterRow(f, tag, row) ==
    IF row.how = "return"
       THEN {Returned(v.value) : v \in Values(row, tag.next, f.end)}
    ELSE IF row.form \in Forms
       THEN {ReplaceTop([f EXCEPT !.pos = v.next, !.out = Store(@, row, v.value)]) :
                v \in Values(row, tag.next, f.end)}
    ELSE {ReplaceTop([f EXCEPT !.pos = b.end])
             \o << Frame(row.form, b.begin, b.end,
                         IF row.how = "fill" THEN f.out ELSE Fresh(row.form), row) >> :
             b \in ReadBytes(tag.next, f.end)}

\* Mutant: the position is passed by value: a skipped field is read again.
AfterFieldStuck(f) ==
    UNION {IF RowsFor(f, tag) = {}
              THEN {stack : p \in SkipField(tag.next, f.end, tag.wire)}
              ELSE UNION {AfterRow(f, tag, row) : row \in RowsFor(f, tag)} :
           tag \in ReadTag(f)}

\* What the loop of the running function makes of its next field.
AfterField(f) ==
    UNION {IF RowsFor(f, tag) = {}
              THEN {ReplaceTop([f EXCEPT !.pos = p]) : p \in SkipField(tag.next, f.end, tag.wire)}
              ELSE UNION {AfterRow(f, tag, row) : row \in RowsFor(f, tag)} :
           tag \in ReadTag(f)}

-----------------------------------------------------------------------------
Init ==
    /\ info \in Models
    /\ file = <<>> /\ whole = FALSE
    /\ stack = <<>>
    /\ outcome = "writing"

\* write_bytes opens the file, which empties it, and writes; a script that is
\* killed or a disk that is full leaves the first bytes.
Write ==
    /\ outcome = "writing"
    /\ \E n \in 0 .. Len(ModelBytes(info)) :
          /\ file' = SubSeq(ModelBytes(info), 1, n)
          /\ whole' = (n = Len(ModelBytes(info)))
          /\ stack' = << Frame("model", 0, n, Fresh("model"), <<>>) >>
    /\ outcome' = "reading"
    /\ UNCHANGED info

InLoop == outcome = "reading" /\ Top.pos < Top.end

ReadField ==
    /\ InLoop
    /\ stack' \in AfterField(Top)
    /\ UNCHANGED <<info, file, whole, outcome>>

\* A helper has thrown: main prints the error and returns 1.
Throw ==
    /\ InLoop
    /\ AfterField(Top) = {}
    /\ outcome' = "error"
    /\ UNCHANGED <<info, file, whole, stack>>

Return ==
    /\ outcome = "reading"
    /\ Top.pos >= Top.end
    /\ Len(stack) > 1
    /\ stack' = Returned(Result(Top))
    /\ UNCHANGED <<info, file, whole, outcome>>

\* requireModel
Complete(m) == m.graph_name # <<>> /\ m.inputs # <<>> /\ m.outputs # <<>> /\ m.nodes # <<>>

Finish ==
    /\ outcome = "reading"
    /\ Top.pos >= Top.end
    /\ Len(stack) = 1
    /\ outcome' = IF Complete(Top.out) THEN "ok" ELSE "error"
    /\ UNCHANGED <<info, file, whole, stack>>

Next == Write \/ ReadField \/ Throw \/ Return \/ Finish

Spec == Init /\ [][Next]_vars /\ WF_vars(ReadField \/ Throw \/ Return \/ Finish)

-----------------------------------------------------------------------------
\* What the inspector reports as loaded is the model the script was asked to
\* write: reader and writer agree on every field, and a file that was cut off
\* loads only when nothing but the trailing opset is missing; and a file that
\* was written to its end is refused only for incomplete metadata
\* (onnx_model_inspector.cpp:61-69, 274-307).
LoadsTheModel ==
    /\ outcome = "ok" => \/ Top.out = info
                         \/ ~whole /\ Top.out = [info EXCEPT !.opset_version = 0]
    /\ whole /\ Complete(info) => outcome # "error"

\* The inspector comes to an answer on every file that was left behind.
InspectorEnds == outcome = "reading" ~> outcome \in {"ok", "error"}
=============================================================================

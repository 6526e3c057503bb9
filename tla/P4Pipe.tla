------------------------------- MODULE P4Pipe -------------------------------
(***************************************************************************)
(* The P4 pipeline of a queue disc (p4-pipeline/model/p4-pipeline.cc) and  *)
(* the primitives that P4 actions are made of (primitives.cc).  Packets    *)
(* are processed one at a time: a program may call any primitives on a     *)
(* packet, and its registers and counters outlive the packet.              *)
(*                                                                         *)
(* A field of the metadata is a number of Width bits and wraps.  The       *)
(* parser, the deparser and the tables belong to bmv2: the headers that    *)
(* the parser finds are those that the packet starts with, the deparser    *)
(* emits the valid ones before the rest, and no table is applied after one *)
(* whose action has marked the packet for exit.                            *)
(***************************************************************************)
EXTENDS Integers, FiniteSets, Sums

CONSTANTS
  Headers,      \* the headers of the program
  Bytes,        \* their sizes
  Rests,        \* the sizes of what follows the parsed headers of a packet
  MAX_PKT_SIZE,
  Width,        \* the bits of a metadata field
  LengthModulus,\* the packet register is unsigned: it wraps at 2^64
  Values,       \* the operands tried
  Shift,        \* clone_spec holds the field list in its upper bits (16)
  ArraySize,    \* the number of cells of a register or counter array
  MaxCount,     \* bound on a counter
  MaxSteps      \* bound on the primitives called for a packet

ASSUME PipeAssumption ==
  /\ IsFiniteSet(Headers) /\ Bytes \in [Headers -> Nat \ {0}]
  /\ Rests \subseteq Nat /\ MAX_PKT_SIZE \in Nat /\ LengthModulus \in Nat
  /\ Width \in Nat \ {0} /\ Values \subseteq 0 .. (2^Width - 1) /\ Shift \in Nat
  /\ ArraySize \in Nat \ {0} /\ MaxCount \in Nat /\ MaxSteps \in Nat

VARIABLES
  running,      \* a packet is in the pipeline
  valid,        \* its valid headers
  rest,         \* the bytes behind them
  limit,        \* the length that truncate has left it
  fields,       \* its metadata
  register0,    \* the packet register PACKET_LENGTH_REG_IDX
  exit,         \* it is marked for exit
  registers, counters,   \* the arrays of the program
  traceVar,     \* trace_var1 of the caller, who passes it to the next run
  output        \* what process_pipeline returned last, until it is called again

\* History: the primitives called for the packet, the fields that they wrote, and whether
\* one of them changes the length of the packet behind the back of register 0.
VARIABLES steps, written, untold

packet == <<valid, rest, limit, fields, register0, exit>>
history == <<steps, written, untold>>
vars == <<running, packet, registers, counters, traceVar, output, history>>

Cells == 0 .. (ArraySize - 1)

Wrap(n) == n % 2^Width

\* Of standard_metadata: an input, the outputs, a trace variable, and what the primitives
\* for other targets write; and a field of the program's own.
Fields ==
  {"qdepth", "drop", "mark", "trace_var1", "egress_spec", "clone_spec", "resubmit_flag",
   "lf_field_list", "user"}
Operands == {"drop"}           \* the field that the arithmetic primitives are tried on

HeaderBytes(hdrs) == SumOver(Bytes, hdrs)
Length == HeaderBytes(valid) + rest
NoLimit == MAX_PKT_SIZE

\* The packet register does not wrap for a packet that fits the buffer and all headers.
ASSUME LengthAssumption == MAX_PKT_SIZE + HeaderBytes(Headers) < LengthModulus

NoOutput == [size |-> 0, drop |-> FALSE, mark |-> FALSE]

Init ==
  /\ running = FALSE
  /\ valid = {} /\ rest = 0 /\ limit = NoLimit /\ register0 = 0 /\ exit = FALSE
  /\ fields = [f \in Fields |-> 0]
  /\ registers = [i \in Cells |-> 0] /\ counters = [i \in Cells |-> 0]
  /\ traceVar = 0 /\ output = NoOutput
  /\ steps = 0 /\ written = {} /\ untold = FALSE

-----------------------------------------------------------------------------
\* Mutant: the metadata of the previous packet is not reset.
MetadataKept(qdepth) == [fields EXCEPT !["qdepth"] = qdepth, !["trace_var1"] = traceVar]

\* reset_metadata, and the inputs of the run.
Metadata(qdepth) ==
  [f \in Fields |-> CASE f = "qdepth" -> qdepth
                      [] f = "trace_var1" -> traceVar
                      [] OTHER -> 0]

\* process_pipeline up to the match-action pipeline.  A packet larger than the buffer ends
\* the program.
Receive(hdrs, r, qdepth) ==
  /\ ~ running
  /\ HeaderBytes(hdrs) + r <= MAX_PKT_SIZE
  /\ running' = TRUE
  /\ valid' = hdrs /\ rest' = r /\ limit' = NoLimit
  /\ fields' = Metadata(qdepth)
  /\ register0' = HeaderBytes(hdrs) + r
  /\ steps' = 0 /\ written' = {} /\ untold' = FALSE
  /\ output' = NoOutput
  /\ UNCHANGED <<exit, registers, counters, traceVar>>

Least(a, b) == IF a <= b THEN a ELSE b

\* The end of process_pipeline: the packet is deparsed, into a buffer of the same size, and
\* the outputs are read.  A packet that has outgrown the buffer ends the program, too.
Transmit ==
  /\ running
  /\ Length <= MAX_PKT_SIZE
  /\ running' = FALSE
  /\ exit' = FALSE
  /\ traceVar' = fields["trace_var1"]
  /\ output' = [size |-> Least(Length, limit), drop |-> fields["drop"] # 0,
                mark |-> fields["mark"] # 0]
  /\ UNCHANGED <<valid, rest, limit, fields, register0, registers, counters, history>>

-----------------------------------------------------------------------------
\* The action of the next table calls a primitive.
Called ==
  /\ running /\ ~ exit
  /\ steps < MaxSteps
  /\ steps' = steps + 1
  /\ UNCHANGED <<running, rest, traceVar, output>>

\* A primitive that writes the fields of new, and nothing else.
Assign(new) ==
  /\ Called
  /\ fields' = [f \in Fields |-> IF f \in DOMAIN new THEN Wrap(new[f]) ELSE fields[f]]
  /\ written' = written \cup DOMAIN new
  /\ UNCHANGED <<valid, limit, register0, exit, registers, counters, untold>>

To(f, n) == [g \in {f} |-> n]

\* The bits of a field, and the number that has given bits.
Bits(n) == {i \in 0 .. (Width - 1) : (n \div 2^i) % 2 = 1}
Number(bits) == SumOver([i \in bits |-> 2^i], bits)

\* The arithmetic primitives; a field wraps.
Results(a, b) ==
  {a + b, a - b + 2^Width, a * 2^b, a \div 2^b, Number(Bits(a) \cup Bits(b)),
   Number(Bits(a) \cap Bits(b)), Number((Bits(a) \cup Bits(b)) \ (Bits(a) \cap Bits(b)))}

modify_field(f, v) == Assign(To(f, v))
modify_field_rng_uniform(f, b, e) == b <= e /\ \E v \in b .. e : Assign(To(f, v))
add_to_field(f, v) == Assign(To(f, fields[f] + v))
subtract_from_field(f, v) == Assign(To(f, fields[f] - v))
compute(f, a, b) == \E v \in Results(a, b) : Assign(To(f, v))

\* Any hash below 2^Width; a size of 0 is undefined.
modify_field_with_hash_based_offset(f, base, size) ==
  size > 0 /\ \E hash \in Values : Assign(To(f, (hash % size) + base))

\* What the primitives for a switch write is not read here: in particular, drop does not
\* drop the packet.
drop == Assign(To("egress_spec", 2^Width - 1))
clone_pkt_to_egress(spec, list) == Assign(To("clone_spec", list * 2^Shift + spec))
\* resubmit, and recirculate with a flag of its own.
resubmit(list) == Assign(To("resubmit_flag", list))
generate_digest(id) == Assign(To("lf_field_list", id))

no_op == Assign(<<>>)

exit_ ==
  /\ Called
  /\ exit' = TRUE
  /\ UNCHANGED <<valid, limit, fields, register0, registers, counters, written, untold>>

-----------------------------------------------------------------------------
\* The valid headers and the register that a primitive on headers leaves.
SetHeaders(hdrs, length, behind) ==
  /\ Called
  /\ valid' = hdrs
  /\ register0' = length % LengthModulus
  /\ untold' = (untold \/ behind)
  /\ UNCHANGED <<limit, fields, exit, registers, counters, written>>

\* Mutant: the length grows by a header that was valid already.
AddsTwice(h) == SetHeaders(valid \cup {h}, register0 + Bytes[h], FALSE)

add_header(h) ==
  SetHeaders(valid \cup {h}, IF h \in valid THEN register0 ELSE register0 + Bytes[h], FALSE)

remove_header(h) ==
  SetHeaders(valid \ {h},
             IF h \in valid THEN register0 - Bytes[h] + LengthModulus ELSE register0, FALSE)

add_header_fast(h) == SetHeaders(valid \cup {h}, register0, h \notin valid)

\* The copy is as valid as its source.
copy_header(dst, src) ==
  LET copied == IF src \in valid THEN valid \cup {dst} ELSE valid \ {dst}
  IN  SetHeaders(copied, register0, copied # valid)

truncate_(n) ==
  /\ Called
  /\ limit' = Least(limit, n)
  /\ untold' = TRUE
  /\ UNCHANGED <<valid, fields, register0, exit, registers, counters, written>>

-----------------------------------------------------------------------------
\* Nothing but a log entry comes of an index that is out of bounds.
register_read(f, i) ==
  IF i \in Cells THEN Assign(To(f, registers[i])) ELSE no_op

\* Mutant: a write past the end of the array is not refused.
WritesAnywhere(i, v) ==
  /\ Called
  /\ registers' = [c \in Cells \cup {i} |-> IF c = i THEN v ELSE registers[c]]
  /\ UNCHANGED <<valid, limit, fields, register0, exit, counters, written, untold>>

register_write(i, v) ==
  /\ Called
  /\ registers' = IF i \in Cells THEN [registers EXCEPT ![i] = v] ELSE registers
  /\ UNCHANGED <<valid, limit, fields, register0, exit, counters, written, untold>>

count(i) ==
  /\ Called
  /\ i \in Cells => counters[i] < MaxCount
  /\ counters' = IF i \in Cells THEN [counters EXCEPT ![i] = @ + 1] ELSE counters
  /\ UNCHANGED <<valid, limit, fields, register0, exit, registers, written, untold>>

\* A meter answers one of three colors.
execute_meter(f, i) ==
  IF i \in Cells THEN \E color \in 0 .. 2 : Assign(To(f, color)) ELSE no_op

FieldPrimitive ==
  \E f \in Operands, v \in Values :
    \/ modify_field(f, v)
    \/ add_to_field(f, v)
    \/ subtract_from_field(f, v)
    \/ \E w \in Values :
         \/ compute(f, v, w)
         \/ modify_field_rng_uniform(f, v, w)
         \/ modify_field_with_hash_based_offset(f, v, w)

SwitchPrimitive ==
  \/ drop
  \/ exit_
  \/ \E v, w \in Values : clone_pkt_to_egress(v, w)
  \/ \E v \in Values : resubmit(v) \/ generate_digest(v)
  \/ \E v \in Values : modify_field("mark", v) \/ modify_field("trace_var1", v)

HeaderPrimitive ==
  \/ \E h \in Headers : add_header(h) \/ remove_header(h) \/ add_header_fast(h)
  \/ \E dst, src \in Headers : copy_header(dst, src)
  \/ \E n \in Rests : truncate_(n)

ArrayPrimitive ==
  \E i \in 0 .. ArraySize :
    \/ register_read("user", i)
    \/ \E v \in Values : register_write(i, v)
    \/ count(i)
    \/ execute_meter("user", i)

Next ==
  \/ \E hdrs \in SUBSET Headers, r \in Rests, q \in Values : Receive(hdrs, r, q)
  \/ FieldPrimitive
  \/ SwitchPrimitive
  \/ HeaderPrimitive
  \/ ArrayPrimitive
  \/ Transmit

Spec == Init /\ [][Next]_vars

-----------------------------------------------------------------------------
\* Every variable has its type: fields and the length register wrap within their width.
TypeOK ==
  /\ {running, exit, untold} \subseteq BOOLEAN
  /\ valid \subseteq Headers /\ rest \in Rests \cup {0} /\ limit \in 0 .. NoLimit
  /\ fields \in [Fields -> 0 .. (2^Width - 1)]
  /\ register0 \in 0 .. (LengthModulus - 1)
  /\ registers \in [Cells -> Nat] /\ counters \in [Cells -> 0 .. MaxCount]
  /\ traceVar \in 0 .. (2^Width - 1)
  /\ output \in [size : 0 .. MAX_PKT_SIZE, drop : BOOLEAN, mark : BOOLEAN]
  /\ steps \in 0 .. MaxSteps /\ written \subseteq Fields

\* The length that the program reads in packet register 0 is that of the packet to be
\* deparsed, whatever headers it adds and removes, twice or not at all, unless it calls
\* one of the primitives that do not tell the register.
LengthTold == ~ untold => register0 = Length /\ (~ running => output.size \in {0, register0})

\* The verdict on a packet is that of its own run: a field that no primitive of the run has
\* written has its initial value, and no packet is dropped or marked for what the program
\* said of an earlier one, or because drop was called.
OwnVerdict ==
  /\ \A f \in Fields \ (written \cup {"qdepth", "trace_var1"}) : fields[f] = 0
  /\ ~ running => (output.drop => "drop" \in written) /\ (output.mark => "mark" \in written)
=============================================================================

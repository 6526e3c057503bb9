---------------------------- MODULE P4PipeProofs ----------------------------
(***************************************************************************)
(* Proofs about P4Pipe for any headers, sizes, width of the metadata,      *)
(* operands and number of primitives called for a packet.                  *)
(***************************************************************************)
EXTENDS P4Pipe, DataProofs

FieldValues == 0 .. (2^Width - 1)

LEMMA ValueOf ==
  ASSUME NEW n \in Int
  PROVE  Wrap(n) \in FieldValues
<1>1. 2^Width \in Nat \ {0}
  BY PipeAssumption, PowerOfTwo
<1> DEFINE m == 2^Width
<1> HIDE DEF m
<1>2. m \in Nat \ {0}
  BY <1>1 DEF m
<1>3. n % m \in 0 .. (m - 1)
  BY <1>2
<1> QED
  BY <1>3 DEF m, Wrap, FieldValues

LEMMA Zero ==
  /\ 2^Width \in Nat \ {0} /\ 0 \in FieldValues /\ FieldValues \subseteq Nat
  /\ Values \subseteq FieldValues
<1>1. 2^Width \in Nat \ {0}
  BY PipeAssumption, PowerOfTwo
<1> DEFINE m == 2^Width
<1> HIDE DEF m
<1>2. m \in Nat \ {0}
  BY <1>1 DEF m
<1>3. 0 \in 0 .. (m - 1) /\ 0 .. (m - 1) \subseteq Nat
  BY <1>2
<1> QED
  BY <1>1, <1>3, PipeAssumption DEF m, FieldValues

-----------------------------------------------------------------------------
\* The bytes of the headers.
LEMMA HeaderBytesNat ==
  ASSUME NEW hdrs \in SUBSET Headers
  PROVE  HeaderBytes(hdrs) \in Nat /\ HeaderBytes(hdrs) <= HeaderBytes(Headers)
         /\ HeaderBytes(Headers) \in Nat
<1>1. IsFiniteSet(Headers) /\ IsFiniteSet(hdrs) /\ \A h \in Headers : Bytes[h] \in Nat
  BY PipeAssumption, FS_Subset
<1> QED
  BY <1>1, SumOverNat, SumOverSubset DEF HeaderBytes

LEMMA NoHeaderBytes == HeaderBytes({}) = 0
BY SumOverEmpty DEF HeaderBytes

LEMMA HeaderAdded ==
  ASSUME NEW hdrs \in SUBSET Headers, NEW h \in Headers
  PROVE  /\ h \notin hdrs => HeaderBytes(hdrs \cup {h}) = HeaderBytes(hdrs) + Bytes[h]
         /\ h \in hdrs => HeaderBytes(hdrs) = Bytes[h] + HeaderBytes(hdrs \ {h})
         /\ Bytes[h] \in Nat \ {0}
<1>1. IsFiniteSet(hdrs) /\ Bytes[h] \in Nat \ {0}
      /\ (\A x \in hdrs : Bytes[x] \in Int) /\ (\A x \in hdrs \cup {h} : Bytes[x] \in Int)
  BY PipeAssumption, FS_Subset
<1>2. h \notin hdrs => HeaderBytes(hdrs \cup {h}) = HeaderBytes(hdrs) + Bytes[h]
  BY <1>1, SumOverAdd DEF HeaderBytes
<1>3. h \in hdrs => HeaderBytes(hdrs) = Bytes[h] + HeaderBytes(hdrs \ {h})
  BY <1>1, SumOverRemove DEF HeaderBytes
<1> QED
  BY <1>1, <1>2, <1>3

-----------------------------------------------------------------------------
(***************************************************************************)
(* The invariant.  The types are not inductive without the bound on the    *)
(* headers' sizes, nor the length told without the limit of a packet that  *)
(* was not truncated.                                                      *)
(***************************************************************************)
Flags == running \in BOOLEAN /\ exit \in BOOLEAN /\ untold \in BOOLEAN

Outputs == [size : 0 .. MAX_PKT_SIZE, drop : BOOLEAN, mark : BOOLEAN]

Numbers ==
  /\ valid \subseteq Headers /\ rest \in Rests \cup {0} /\ rest <= MAX_PKT_SIZE
  /\ limit \in 0 .. MAX_PKT_SIZE
  /\ register0 \in 0 .. (LengthModulus - 1)
  /\ steps \in 0 .. MaxSteps

Contents ==
  /\ fields \in [Fields -> FieldValues] /\ written \subseteq Fields
  /\ registers \in [Cells -> Nat] /\ counters \in [Cells -> 0 .. MaxCount]
  /\ traceVar \in FieldValues /\ output \in Outputs

Untruncated == ~ untold => limit = MAX_PKT_SIZE

PipeInv == Flags /\ Numbers /\ Contents /\ Untruncated /\ LengthTold /\ OwnVerdict

LEMMA LengthNat ==
  ASSUME Numbers
  PROVE  /\ Length \in Nat /\ rest \in Nat /\ HeaderBytes(valid) \in Nat
         /\ Length < LengthModulus
<1>1. /\ HeaderBytes(valid) \in Nat /\ HeaderBytes(valid) <= HeaderBytes(Headers)
      /\ HeaderBytes(Headers) \in Nat
  BY HeaderBytesNat DEF Numbers
<1>2. rest \in Nat /\ rest <= MAX_PKT_SIZE
  BY PipeAssumption DEF Numbers
<1> QED
  BY <1>1, <1>2, PipeAssumption, LengthAssumption DEF Length

LEMMA PipeInvInit ==
  ASSUME Init
  PROVE  PipeInv
<1>1. Flags
  BY DEF Init, Flags
<1>2. Numbers
  <2>1. LengthModulus \in Nat \ {0}
    BY PipeAssumption, LengthAssumption, HeaderBytesNat
  <2> QED
    BY <2>1, PipeAssumption DEF Init, Numbers, NoLimit
<1>3. Contents
  <2>1. output \in Outputs
    BY PipeAssumption DEF Init, Outputs, NoOutput
  <2> QED
    BY <2>1, Zero, PipeAssumption DEF Init, Contents
<1>4. Untruncated
  BY DEF Init, Untruncated, NoLimit
<1>5. LengthTold
  <2>1. Length = 0 /\ register0 = 0 /\ output.size = 0
    BY NoHeaderBytes DEF Init, Length, NoOutput
  <2> QED
    BY <2>1 DEF LengthTold
<1>6. OwnVerdict
  BY DEF Init, OwnVerdict, NoOutput
<1> QED
  BY <1>1, <1>2, <1>3, <1>4, <1>5, <1>6 DEF PipeInv

LEMMA ReceiveKeeps ==
  ASSUME PipeInv, NEW hdrs \in SUBSET Headers, NEW r \in Rests, NEW q \in Values,
         Receive(hdrs, r, q)
  PROVE  PipeInv'
<1>1. /\ running' = TRUE /\ valid' = hdrs /\ rest' = r /\ limit' = MAX_PKT_SIZE
      /\ fields' = Metadata(q) /\ register0' = HeaderBytes(hdrs) + r
      /\ steps' = 0 /\ written' = {} /\ untold' = FALSE /\ output' = NoOutput
      /\ exit' = exit /\ registers' = registers /\ counters' = counters /\ traceVar' = traceVar
      /\ HeaderBytes(hdrs) + r <= MAX_PKT_SIZE
  BY DEF Receive, NoLimit
<1>2. /\ HeaderBytes(hdrs) \in Nat /\ r \in Nat /\ r <= MAX_PKT_SIZE
      /\ HeaderBytes(Headers) \in Nat
  BY <1>1, HeaderBytesNat, PipeAssumption
<1>3. Flags'
  BY <1>1 DEF Flags, PipeInv
<1>4. Numbers'
  BY <1>1, <1>2, PipeAssumption, LengthAssumption DEF Numbers
<1>5. Contents'
  <2>1. fields' \in [Fields -> FieldValues]
    BY <1>1, Zero DEF Metadata, PipeInv, Contents
  <2>2. output' \in Outputs
    BY <1>1, PipeAssumption DEF Outputs, NoOutput
  <2> QED
    BY <1>1, <2>1, <2>2 DEF PipeInv, Contents
<1>6. Untruncated'
  BY <1>1 DEF Untruncated
<1>7. LengthTold'
  BY <1>1 DEF LengthTold, Length
<1>8. OwnVerdict'
  BY <1>1 DEF OwnVerdict, Metadata
<1> QED
  BY <1>3, <1>4, <1>5, <1>6, <1>7, <1>8 DEF PipeInv

LEMMA TransmitKeeps ==
  ASSUME PipeInv, Transmit
  PROVE  PipeInv'
<1>1. /\ running' = FALSE /\ exit' = FALSE /\ traceVar' = fields["trace_var1"]
      /\ output' = [size |-> Least(Length, limit), drop |-> fields["drop"] # 0,
                    mark |-> fields["mark"] # 0]
      /\ valid' = valid /\ rest' = rest /\ limit' = limit /\ fields' = fields
      /\ register0' = register0 /\ registers' = registers /\ counters' = counters
      /\ steps' = steps /\ written' = written /\ untold' = untold
      /\ Length <= MAX_PKT_SIZE
  BY DEF Transmit, history
<1>2. Length \in Nat /\ limit \in 0 .. MAX_PKT_SIZE /\ Length' = Length
  BY <1>1, LengthNat DEF PipeInv, Numbers, Length
<1>3. Least(Length, limit) \in 0 .. MAX_PKT_SIZE
  BY <1>1, <1>2, PipeAssumption DEF Least
<1>4. Flags'
  BY <1>1 DEF Flags, PipeInv
<1>5. Numbers'
  BY <1>1 DEF PipeInv, Numbers
<1>6. Contents'
  <2>1. output' \in Outputs
    BY <1>1, <1>3 DEF Outputs
  <2>2. traceVar' \in FieldValues
    BY <1>1 DEF PipeInv, Contents, Fields
  <2> QED
    BY <1>1, <2>1, <2>2 DEF PipeInv, Contents
<1>7. Untruncated'
  BY <1>1 DEF PipeInv, Untruncated
<1>8. LengthTold'
  <2> SUFFICES ASSUME ~ untold
               PROVE  register0' = Length' /\ output'.size \in {0, register0'}
    BY <1>1 DEF LengthTold
  <2>1. register0 = Length /\ limit = MAX_PKT_SIZE
    BY DEF PipeInv, LengthTold, Untruncated
  <2>2. Least(Length, limit) = Length
    BY <1>1, <2>1 DEF Least
  <2>3. output'.size = Length
    BY <1>1, <2>2
  <2> QED
    BY <1>1, <1>2, <2>1, <2>3
<1>9. OwnVerdict'
  <2>1. \A f \in Fields \ (written \cup {"qdepth", "trace_var1"}) : fields[f] = 0
    BY DEF PipeInv, OwnVerdict
  <2>2. "drop" \in Fields /\ "mark" \in Fields
    BY DEF Fields
  <2>3. (fields["drop"] # 0 => "drop" \in written) /\ (fields["mark"] # 0 => "mark" \in written)
    BY <2>1, <2>2
  <2>4. output'.drop = (fields["drop"] # 0) /\ output'.mark = (fields["mark"] # 0)
    BY <1>1
  <2> QED
    BY <1>1, <2>1, <2>3, <2>4 DEF OwnVerdict
<1> QED
  BY <1>4, <1>5, <1>6, <1>7, <1>8, <1>9 DEF PipeInv

\* What no primitive changes.
LEMMA CalledKeeps ==
  ASSUME PipeInv, Called
  PROVE  /\ running = TRUE /\ running' = TRUE /\ rest' = rest /\ traceVar' = traceVar
         /\ output' = output /\ steps' \in 0 .. MaxSteps
<1>1. running \in BOOLEAN /\ running /\ running' = running
  BY DEF Called, PipeInv, Flags
<1>2. steps \in 0 .. MaxSteps /\ steps' = steps + 1 /\ steps < MaxSteps
  BY DEF Called, PipeInv, Numbers
<1>3. steps' \in 0 .. MaxSteps
  BY <1>2, PipeAssumption
<1> QED
  BY <1>1, <1>3 DEF Called

LEMMA AssignKeeps ==
  ASSUME PipeInv, NEW new, DOMAIN new \subseteq Fields, \A f \in DOMAIN new : new[f] \in Int,
         Assign(new)
  PROVE  PipeInv'
<1>1. /\ running = TRUE /\ running' = TRUE /\ rest' = rest /\ traceVar' = traceVar
      /\ output' = output /\ steps' \in 0 .. MaxSteps
  BY CalledKeeps DEF Assign
<1>2. /\ fields' = [f \in Fields |-> IF f \in DOMAIN new THEN Wrap(new[f]) ELSE fields[f]]
      /\ written' = written \cup DOMAIN new
      /\ valid' = valid /\ limit' = limit /\ register0' = register0 /\ exit' = exit
      /\ registers' = registers /\ counters' = counters /\ untold' = untold
  BY DEF Assign
<1>3. Flags'
  BY <1>1, <1>2 DEF PipeInv, Flags
<1>4. Numbers'
  BY <1>1, <1>2 DEF PipeInv, Numbers
<1>5. Contents'
  <2>1. fields' \in [Fields -> FieldValues]
    BY <1>2, ValueOf DEF PipeInv, Contents
  <2> QED
    BY <1>1, <1>2, <2>1 DEF PipeInv, Contents
<1>6. Untruncated'
  BY <1>2 DEF PipeInv, Untruncated
<1>7. LengthTold'
  BY <1>1, <1>2 DEF PipeInv, LengthTold, Length
<1>8. OwnVerdict'
  BY <1>1, <1>2 DEF PipeInv, OwnVerdict
<1> QED
  BY <1>3, <1>4, <1>5, <1>6, <1>7, <1>8 DEF PipeInv

LEMMA AssignToKeeps ==
  ASSUME PipeInv, NEW f \in Fields, NEW n \in Int, Assign(To(f, n))
  PROVE  PipeInv'
<1>1. DOMAIN To(f, n) = {f} /\ To(f, n)[f] = n
  BY DEF To
<1> QED
  BY <1>1, AssignKeeps

LEMMA NoOpKeeps ==
  ASSUME PipeInv, no_op
  PROVE  PipeInv'
<1>1. DOMAIN <<>> = {}
  OBVIOUS
<1> QED
  BY <1>1, AssignKeeps DEF no_op

LEMMA ExitKeeps ==
  ASSUME PipeInv, exit_
  PROVE  PipeInv'
<1>1. /\ running = TRUE /\ running' = TRUE /\ rest' = rest /\ traceVar' = traceVar
      /\ output' = output /\ steps' \in 0 .. MaxSteps
  BY CalledKeeps DEF exit_
<1>2. /\ exit' = TRUE /\ fields' = fields /\ written' = written
      /\ valid' = valid /\ limit' = limit /\ register0' = register0
      /\ registers' = registers /\ counters' = counters /\ untold' = untold
  BY DEF exit_
<1> QED
  BY <1>1, <1>2 DEF PipeInv, Flags, Numbers, Contents, Untruncated, LengthTold, Length, OwnVerdict

-----------------------------------------------------------------------------
\* The primitives on headers.
LEMMA SetHeadersKeeps ==
  ASSUME PipeInv, NEW hdrs \in SUBSET Headers, NEW length \in Int, NEW behind \in BOOLEAN,
         SetHeaders(hdrs, length, behind),
         ~ untold /\ ~ behind => length % LengthModulus = HeaderBytes(hdrs) + rest
  PROVE  PipeInv'
<1>1. /\ running = TRUE /\ running' = TRUE /\ rest' = rest /\ traceVar' = traceVar
      /\ output' = output /\ steps' \in 0 .. MaxSteps
  BY CalledKeeps DEF SetHeaders
<1>2. /\ valid' = hdrs /\ register0' = length % LengthModulus /\ untold' = (untold \/ behind)
      /\ fields' = fields /\ written' = written /\ limit' = limit /\ exit' = exit
      /\ registers' = registers /\ counters' = counters
  BY DEF SetHeaders
<1>3. LengthModulus \in Nat \ {0}
  BY PipeAssumption, LengthAssumption, HeaderBytesNat
<1>4. length % LengthModulus \in 0 .. (LengthModulus - 1)
  BY <1>3
<1>5. Flags'
  BY <1>1, <1>2 DEF PipeInv, Flags
<1>6. Numbers'
  BY <1>1, <1>2, <1>4 DEF PipeInv, Numbers
<1>7. Contents'
  BY <1>1, <1>2 DEF PipeInv, Contents
<1>8. Untruncated'
  BY <1>2 DEF PipeInv, Untruncated
<1>9. LengthTold'
  BY <1>1, <1>2 DEF LengthTold, Length
<1>10. OwnVerdict'
  BY <1>1, <1>2 DEF PipeInv, OwnVerdict
<1> QED
  BY <1>5, <1>6, <1>7, <1>8, <1>9, <1>10 DEF PipeInv

LEMMA RegisterFacts ==
  ASSUME PipeInv
  PROVE  /\ register0 \in Nat /\ LengthModulus \in Nat \ {0}
         /\ register0 % LengthModulus = register0
         /\ valid \in SUBSET Headers /\ rest \in Nat
         /\ ~ untold => register0 = HeaderBytes(valid) + rest
<1>1. LengthModulus \in Nat \ {0}
  BY PipeAssumption, LengthAssumption, HeaderBytesNat
<1>2. register0 \in 0 .. (LengthModulus - 1) /\ valid \in SUBSET Headers
  BY DEF PipeInv, Numbers
<1>3. register0 \in Nat /\ register0 < LengthModulus
  BY <1>1, <1>2
<1>4. rest \in Nat
  BY LengthNat DEF PipeInv
<1>5. ~ untold => register0 = HeaderBytes(valid) + rest
  BY DEF PipeInv, LengthTold, Length
<1> QED
  BY <1>1, <1>2, <1>3, <1>4, <1>5, SmallRemainder

LEMMA AddHeaderKeeps ==
  ASSUME PipeInv, NEW h \in Headers, add_header(h)
  PROVE  PipeInv'
<1> DEFINE hdrs == valid \cup {h}
           length == IF h \in valid THEN register0 ELSE register0 + Bytes[h]
<1>1. /\ register0 \in Nat /\ LengthModulus \in Nat \ {0}
      /\ register0 % LengthModulus = register0
      /\ valid \in SUBSET Headers /\ rest \in Nat /\ hdrs \in SUBSET Headers
      /\ ~ untold => register0 = HeaderBytes(valid) + rest
  BY RegisterFacts
<1>2. Bytes[h] \in Nat \ {0} /\ (h \notin valid => HeaderBytes(hdrs) = HeaderBytes(valid) + Bytes[h])
  BY <1>1, HeaderAdded
<1>3. length \in Nat /\ length \in Int
  BY <1>1, <1>2
<1>4. ASSUME ~ untold
      PROVE  length % LengthModulus = HeaderBytes(hdrs) + rest
  <2>1. CASE h \in valid
    <3>1. hdrs = valid
      BY <2>1
    <3> QED
      BY <1>1, <1>4, <2>1, <3>1
  <2>2. CASE h \notin valid
    <3>1. HeaderBytes(valid) \in Nat /\ HeaderBytes(hdrs) \in Nat /\ HeaderBytes(Headers) \in Nat
          /\ HeaderBytes(hdrs) <= HeaderBytes(Headers)
      BY <1>1, HeaderBytesNat
    <3>2. length = HeaderBytes(hdrs) + rest
      <4>1. length = register0 + Bytes[h]
        BY <2>2
      <4> HIDE DEF length, hdrs
      <4> QED
        BY <1>1, <1>2, <1>4, <2>2, <3>1, <4>1
    <3>3. rest <= MAX_PKT_SIZE
      BY DEF PipeInv, Numbers
    <3>4. length < LengthModulus
      BY <1>1, <3>1, <3>2, <3>3, PipeAssumption, LengthAssumption
    <3> QED
      BY <1>1, <1>3, <3>2, <3>4, SmallRemainder
  <2> QED
    BY <2>1, <2>2
<1>5. SetHeaders(hdrs, length, FALSE)
  BY DEF add_header
<1> HIDE DEF hdrs, length
<1> QED
  BY <1>1, <1>3, <1>4, <1>5, SetHeadersKeeps

LEMMA WholeRemainder ==
  ASSUME NEW n \in Nat, NEW d \in Nat \ {0}, n < d
  PROVE  (n + d) % d = n
<1> DEFINE q == (n + d) \div d
           r == (n + d) % d
<1>1. q \in Int /\ r \in 0 .. (d - 1) /\ n + d = d * q + r
  OBVIOUS
<1> HIDE DEF q, r
<1>2. q = 1
  <2>1. q >= 2 => d * q >= 2 * d
    BY <1>1
  <2>2. q <= 0 => d * q <= 0
    BY <1>1
  <2> QED
    BY <1>1, <2>1, <2>2
<1> QED
  BY <1>1, <1>2 DEF r

LEMMA RemoveHeaderKeeps ==
  ASSUME PipeInv, NEW h \in Headers, remove_header(h)
  PROVE  PipeInv'
<1> DEFINE hdrs == valid \ {h}
           length == IF h \in valid THEN register0 - Bytes[h] + LengthModulus ELSE register0
<1>1. /\ register0 \in Nat /\ LengthModulus \in Nat \ {0}
      /\ register0 % LengthModulus = register0 /\ register0 < LengthModulus
      /\ valid \in SUBSET Headers /\ rest \in Nat /\ hdrs \in SUBSET Headers
      /\ ~ untold => register0 = HeaderBytes(valid) + rest
  BY RegisterFacts DEF PipeInv, Numbers
<1>2. Bytes[h] \in Nat \ {0} /\ (h \in valid => HeaderBytes(valid) = Bytes[h] + HeaderBytes(hdrs))
  BY <1>1, HeaderAdded
<1>3. length \in Int
  BY <1>1, <1>2
<1>4. ASSUME ~ untold
      PROVE  length % LengthModulus = HeaderBytes(hdrs) + rest
  <2>1. CASE h \notin valid
    <3>1. hdrs = valid
      BY <2>1
    <3> QED
      BY <1>1, <1>4, <2>1, <3>1
  <2>2. CASE h \in valid
    <3> DEFINE n == HeaderBytes(hdrs) + rest
    <3>1. HeaderBytes(valid) \in Nat /\ HeaderBytes(hdrs) \in Nat
      BY <1>1, HeaderBytesNat
    <3>2. n \in Nat /\ n < LengthModulus /\ length = n + LengthModulus
      BY <1>1, <1>2, <1>4, <2>2, <3>1
    <3> HIDE DEF n, length
    <3>3. (n + LengthModulus) % LengthModulus = n
      BY <1>1, <3>2, WholeRemainder
    <3> QED
      BY <3>2, <3>3 DEF n
  <2> QED
    BY <2>1, <2>2
<1>5. SetHeaders(hdrs, length, FALSE)
  BY DEF remove_header
<1> HIDE DEF hdrs, length
<1> QED
  BY <1>1, <1>3, <1>4, <1>5, SetHeadersKeeps

LEMMA AddHeaderFastKeeps ==
  ASSUME PipeInv, NEW h \in Headers, add_header_fast(h)
  PROVE  PipeInv'
<1>1. /\ register0 \in Nat /\ register0 % LengthModulus = register0
      /\ valid \in SUBSET Headers
      /\ ~ untold => register0 = HeaderBytes(valid) + rest
  BY RegisterFacts
<1>2. ASSUME ~ untold, ~ (h \notin valid)
      PROVE  register0 % LengthModulus = HeaderBytes(valid \cup {h}) + rest
  <2>1. valid \cup {h} = valid
    BY <1>2
  <2> QED
    BY <1>1, <1>2, <2>1
<1>3. SetHeaders(valid \cup {h}, register0, h \notin valid)
  BY DEF add_header_fast
<1>4. valid \cup {h} \in SUBSET Headers /\ register0 \in Int /\ (h \notin valid) \in BOOLEAN
  BY <1>1
<1> QED
  BY <1>2, <1>3, <1>4, SetHeadersKeeps

LEMMA CopyHeaderKeeps ==
  ASSUME PipeInv, NEW dst \in Headers, NEW src \in Headers, copy_header(dst, src)
  PROVE  PipeInv'
<1> DEFINE copied == IF src \in valid THEN valid \cup {dst} ELSE valid \ {dst}
<1>1. /\ register0 \in Nat /\ register0 % LengthModulus = register0
      /\ valid \in SUBSET Headers
      /\ ~ untold => register0 = HeaderBytes(valid) + rest
  BY RegisterFacts
<1>2. SetHeaders(copied, register0, copied # valid)
  BY DEF copy_header
<1>3. copied \in SUBSET Headers /\ register0 \in Int /\ (copied # valid) \in BOOLEAN
  BY <1>1
<1> HIDE DEF copied
<1>4. ~ untold /\ ~ (copied # valid) => register0 % LengthModulus = HeaderBytes(copied) + rest
  BY <1>1
<1> QED
  BY <1>2, <1>3, <1>4, SetHeadersKeeps

LEMMA TruncateKeeps ==
  ASSUME PipeInv, NEW n \in Rests, truncate_(n)
  PROVE  PipeInv'
<1>1. /\ running = TRUE /\ running' = TRUE /\ rest' = rest /\ traceVar' = traceVar
      /\ output' = output /\ steps' \in 0 .. MaxSteps
  BY CalledKeeps DEF truncate_
<1>2. /\ limit' = Least(limit, n) /\ untold' = TRUE
      /\ fields' = fields /\ written' = written /\ valid' = valid /\ register0' = register0
      /\ exit' = exit /\ registers' = registers /\ counters' = counters
  BY DEF truncate_
<1>3. limit' \in 0 .. MAX_PKT_SIZE
  BY <1>2, PipeAssumption DEF PipeInv, Numbers, Least
<1> QED
  BY <1>1, <1>2, <1>3
  DEF PipeInv, Flags, Numbers, Contents, Untruncated, LengthTold, OwnVerdict

-----------------------------------------------------------------------------
\* The primitives on registers and counters.
LEMMA RegisterReadKeeps ==
  ASSUME PipeInv, NEW f \in Fields, NEW i \in Nat, register_read(f, i)
  PROVE  PipeInv'
<1>1. CASE i \in Cells
  <2>1. registers[i] \in Int /\ Assign(To(f, registers[i]))
    BY <1>1 DEF register_read, PipeInv, Contents
  <2> QED
    BY <2>1, AssignToKeeps
<1>2. CASE i \notin Cells
  BY <1>2, NoOpKeeps DEF register_read
<1> QED
  BY <1>1, <1>2

LEMMA ExecuteMeterKeeps ==
  ASSUME PipeInv, NEW f \in Fields, NEW i \in Nat, execute_meter(f, i)
  PROVE  PipeInv'
<1>1. CASE i \in Cells
  <2>1. PICK color \in 0 .. 2 : Assign(To(f, color))
    BY <1>1 DEF execute_meter
  <2> QED
    BY <2>1, AssignToKeeps
<1>2. CASE i \notin Cells
  BY <1>2, NoOpKeeps DEF execute_meter
<1> QED
  BY <1>1, <1>2

LEMMA RegisterWriteKeeps ==
  ASSUME PipeInv, NEW i \in Nat, NEW v \in Values, register_write(i, v)
  PROVE  PipeInv'
<1>1. /\ running = TRUE /\ running' = TRUE /\ rest' = rest /\ traceVar' = traceVar
      /\ output' = output /\ steps' \in 0 .. MaxSteps
  BY CalledKeeps DEF register_write
<1>2. /\ registers' = IF i \in Cells THEN [registers EXCEPT ![i] = v] ELSE registers
      /\ fields' = fields /\ written' = written /\ valid' = valid /\ register0' = register0
      /\ exit' = exit /\ limit' = limit /\ counters' = counters /\ untold' = untold
  BY DEF register_write
<1>3. registers' \in [Cells -> Nat]
  <2>1. registers \in [Cells -> Nat] /\ v \in Nat
    BY Zero DEF PipeInv, Contents
  <2> QED
    BY <1>2, <2>1
<1> QED
  BY <1>1, <1>2, <1>3
  DEF PipeInv, Flags, Numbers, Contents, Untruncated, LengthTold, Length, OwnVerdict

LEMMA CountKeeps ==
  ASSUME PipeInv, NEW i \in Nat, count(i)
  PROVE  PipeInv'
<1>1. /\ running = TRUE /\ running' = TRUE /\ rest' = rest /\ traceVar' = traceVar
      /\ output' = output /\ steps' \in 0 .. MaxSteps
  BY CalledKeeps DEF count
<1>2. /\ i \in Cells => counters[i] < MaxCount
      /\ counters' = IF i \in Cells THEN [counters EXCEPT ![i] = @ + 1] ELSE counters
      /\ fields' = fields /\ written' = written /\ valid' = valid /\ register0' = register0
      /\ exit' = exit /\ limit' = limit /\ registers' = registers /\ untold' = untold
  BY DEF count
<1>3. counters' \in [Cells -> 0 .. MaxCount]
  <2>1. counters \in [Cells -> 0 .. MaxCount] /\ MaxCount \in Nat
    BY PipeAssumption DEF PipeInv, Contents
  <2> QED
    BY <1>2, <2>1
<1> QED
  BY <1>1, <1>2, <1>3
  DEF PipeInv, Flags, Numbers, Contents, Untruncated, LengthTold, Length, OwnVerdict

-----------------------------------------------------------------------------
\* The primitives on fields.
LEMMA NumberInt ==
  ASSUME NEW bits \in SUBSET (0 .. (Width - 1))
  PROVE  Number(bits) \in Int
<1> DEFINE f == [i \in bits |-> 2^i]
<1>1. IsFiniteSet(bits)
  <2>1. IsFiniteSet(0 .. (Width - 1))
    BY PipeAssumption, FS_Interval
  <2> QED
    BY <2>1, FS_Subset
<1>2. \A i \in bits : f[i] \in Nat
  <2> SUFFICES ASSUME NEW i \in bits
               PROVE  f[i] \in Nat
    OBVIOUS
  <2>1. i \in Nat
    BY PipeAssumption
  <2> QED
    BY <2>1, PowerOfTwo
<1> HIDE DEF f
<1>3. SumOver(f, bits) \in Nat
  BY <1>1, <1>2, SumOverNat
<1> QED
  BY <1>3 DEF Number, f

LEMMA ResultsInt ==
  ASSUME NEW a \in Values, NEW b \in Values
  PROVE  Results(a, b) \subseteq Int
<1>1. a \in Nat /\ b \in Nat /\ 2^Width \in Nat
  BY Zero
<1>2. 2^b \in Nat \ {0}
  BY <1>1, PowerOfTwo
<1> DEFINE m == 2^b
           w == 2^Width
           A == Bits(a)
           B == Bits(b)
<1>3. A \subseteq 0 .. (Width - 1) /\ B \subseteq 0 .. (Width - 1)
  BY DEF Bits
<1> HIDE DEF m, w, A, B
<1>4. m \in Nat \ {0} /\ w \in Nat
  BY <1>1, <1>2 DEF m, w
<1>5. a + b \in Int /\ a - b + w \in Int /\ a * m \in Int /\ a \div m \in Int
  BY <1>1, <1>4
<1>6. /\ Number(A \cup B) \in Int /\ Number(A \cap B) \in Int
      /\ Number((A \cup B) \ (A \cap B)) \in Int
  BY <1>3, NumberInt
<1> QED
  BY <1>5, <1>6 DEF Results, m, w, A, B

LEMMA FieldPrimitiveKeeps ==
  ASSUME PipeInv, FieldPrimitive
  PROVE  PipeInv'
<1>1. PICK f \in Operands, v \in Values :
        \/ modify_field(f, v)
        \/ add_to_field(f, v)
        \/ subtract_from_field(f, v)
        \/ \E w \in Values :
             \/ compute(f, v, w)
             \/ modify_field_rng_uniform(f, v, w)
             \/ modify_field_with_hash_based_offset(f, v, w)
  BY DEF FieldPrimitive
<1>2. f \in Fields /\ v \in Nat /\ fields[f] \in Int
  <2>1. f \in Fields
    BY DEF Operands, Fields
  <2>2. v \in FieldValues /\ fields[f] \in FieldValues
    BY <2>1, Zero DEF PipeInv, Contents
  <2>3. v \in Nat /\ fields[f] \in Nat
    BY <2>2, Zero
  <2> QED
    BY <2>1, <2>3
<1>3. CASE modify_field(f, v)
  BY <1>2, <1>3, AssignToKeeps DEF modify_field
<1>4. CASE add_to_field(f, v)
  <2>1. fields[f] + v \in Int
    BY <1>2
  <2> QED
    BY <1>2, <1>4, <2>1, AssignToKeeps DEF add_to_field
<1>5. CASE subtract_from_field(f, v)
  <2>1. fields[f] - v \in Int
    BY <1>2
  <2> QED
    BY <1>2, <1>5, <2>1, AssignToKeeps DEF subtract_from_field
<1>6. ASSUME NEW w \in Values, compute(f, v, w)
      PROVE  PipeInv'
  <2>1. PICK n \in Results(v, w) : Assign(To(f, n))
    BY <1>6 DEF compute
  <2>2. n \in Int
    BY ResultsInt
  <2> QED
    BY <1>2, <2>1, <2>2, AssignToKeeps
<1>7. ASSUME NEW w \in Values, modify_field_rng_uniform(f, v, w)
      PROVE  PipeInv'
  <2>1. PICK n \in v .. w : Assign(To(f, n))
    BY <1>7 DEF modify_field_rng_uniform
  <2> QED
    BY <1>2, <2>1, AssignToKeeps
<1>8. ASSUME NEW w \in Values, modify_field_with_hash_based_offset(f, v, w)
      PROVE  PipeInv'
  <2>1. PICK hash \in Values : Assign(To(f, (hash % w) + v))
    BY <1>8 DEF modify_field_with_hash_based_offset
  <2>2. w > 0
    BY <1>8 DEF modify_field_with_hash_based_offset
  <2>3. (hash % w) + v \in Int
    <3>1. hash \in Nat /\ w \in Nat
      BY Zero
    <3> QED
      BY <1>2, <2>2, <3>1
  <2> QED
    BY <1>2, <2>1, <2>3, AssignToKeeps
<1> QED
  BY <1>1, <1>3, <1>4, <1>5, <1>6, <1>7, <1>8

LEMMA SwitchPrimitiveKeeps ==
  ASSUME PipeInv, SwitchPrimitive
  PROVE  PipeInv'
<1>1. \A v \in Values : v \in Int
  BY Zero
<1>2. /\ "egress_spec" \in Fields /\ "clone_spec" \in Fields /\ "resubmit_flag" \in Fields
      /\ "lf_field_list" \in Fields /\ "mark" \in Fields /\ "trace_var1" \in Fields
  BY DEF Fields
<1>3. CASE drop
  <2>1. 2^Width - 1 \in Int
    BY Zero
  <2> QED
    BY <1>2, <1>3, <2>1, AssignToKeeps DEF drop
<1>4. CASE exit_
  BY <1>4, ExitKeeps
<1>5. ASSUME NEW v \in Values, NEW w \in Values, clone_pkt_to_egress(v, w)
      PROVE  PipeInv'
  <2>1. w * 2^Shift + v \in Int
    <3>1. 2^Shift \in Nat
      BY PipeAssumption, PowerOfTwo
    <3> DEFINE m == 2^Shift
    <3> HIDE DEF m
    <3>2. w * m + v \in Int
      BY <1>1, <3>1 DEF m
    <3> QED
      BY <3>2 DEF m
  <2> QED
    BY <1>2, <1>5, <2>1, AssignToKeeps DEF clone_pkt_to_egress
<1>6. ASSUME NEW v \in Values, resubmit(v) \/ generate_digest(v)
      PROVE  PipeInv'
  BY <1>1, <1>2, <1>6, AssignToKeeps DEF resubmit, generate_digest
<1>7. ASSUME NEW v \in Values, modify_field("mark", v) \/ modify_field("trace_var1", v)
      PROVE  PipeInv'
  BY <1>1, <1>2, <1>7, AssignToKeeps DEF modify_field
<1> QED
  BY <1>3, <1>4, <1>5, <1>6, <1>7 DEF SwitchPrimitive

LEMMA HeaderPrimitiveKeeps ==
  ASSUME PipeInv, HeaderPrimitive
  PROVE  PipeInv'
BY AddHeaderKeeps, RemoveHeaderKeeps, AddHeaderFastKeeps, CopyHeaderKeeps, TruncateKeeps
DEF HeaderPrimitive

LEMMA ArrayPrimitiveKeeps ==
  ASSUME PipeInv, ArrayPrimitive
  PROVE  PipeInv'
<1>1. PICK i \in 0 .. ArraySize :
        \/ register_read("user", i)
        \/ \E v \in Values : register_write(i, v)
        \/ count(i)
        \/ execute_meter("user", i)
  BY DEF ArrayPrimitive
<1>2. i \in Nat /\ "user" \in Fields
  BY DEF Fields
<1> QED
  BY <1>1, <1>2, RegisterReadKeeps, RegisterWriteKeeps, CountKeeps, ExecuteMeterKeeps

LEMMA PipeStep ==
  ASSUME PipeInv, [Next]_vars
  PROVE  PipeInv'
<1>1. ASSUME NEW hdrs \in SUBSET Headers, NEW r \in Rests, NEW q \in Values, Receive(hdrs, r, q)
      PROVE  PipeInv'
  BY <1>1, ReceiveKeeps
<1>2. CASE Transmit
  BY <1>2, TransmitKeeps
<1>3. CASE UNCHANGED vars
  BY <1>3 DEF vars, packet, history, PipeInv, Flags, Numbers, Contents, Untruncated,
              LengthTold, Length, OwnVerdict
<1> QED
  BY <1>1, <1>2, <1>3, FieldPrimitiveKeeps, SwitchPrimitiveKeeps, HeaderPrimitiveKeeps,
     ArrayPrimitiveKeeps DEF Next

\* The pipeline's variables keep their types: fields wrap, the length register does not
\* run below zero, and no access is past the end of an array.
THEOREM PipeTypeCorrect == Spec => []TypeOK
<1>1. Init => PipeInv
  BY PipeInvInit
<1>2. PipeInv /\ [Next]_vars => PipeInv'
  BY PipeStep
<1>3. PipeInv => TypeOK
  BY DEF PipeInv, Flags, Numbers, Contents, Outputs, FieldValues, NoLimit, TypeOK
<1> QED
  BY <1>1, <1>2, <1>3, PTL DEF Spec

\* Register 0 holds the length of the packet to be deparsed, after any sequence of
\* primitives that tell it.
THEOREM RegisterTellsLength == Spec => []LengthTold
<1>1. Init => PipeInv
  BY PipeInvInit
<1>2. PipeInv /\ [Next]_vars => PipeInv'
  BY PipeStep
<1>3. PipeInv => LengthTold
  BY DEF PipeInv
<1> QED
  BY <1>1, <1>2, <1>3, PTL DEF Spec

\* No verdict depends on the metadata of an earlier packet.
THEOREM VerdictOfOwnRun == Spec => []OwnVerdict
<1>1. Init => PipeInv
  BY PipeInvInit
<1>2. PipeInv /\ [Next]_vars => PipeInv'
  BY PipeStep
<1>3. PipeInv => OwnVerdict
  BY DEF PipeInv
<1> QED
  BY <1>1, <1>2, <1>3, PTL DEF Spec
=============================================================================

----------------------------- MODULE Admission -----------------------------
(***************************************************************************)
(* Whether a model fits: the memory estimate (lightweight-memory), the     *)
(* calibration that replaces its coefficients (lightweight-bench fit.rs    *)
(* and apply.rs), and the three callers that choose a slot count and a     *)
(* context with it: a load on a running gateway (manager.rs), the detail   *)
(* view of a model (control.rs) and the load at start-up (cli serve.rs).   *)
(* Real coefficients are exact fractions here; sizes that the code fixes   *)
(* (the margin, the presets, the baselines) are constants so that a small  *)
(* instance reaches both sides of each.                                    *)
(*                                                                         *)
(* First the reading of a model file: the GGUF header (lightweight-gguf),  *)
(* the ggml type table (lightweight-core) and the metadata of a file.      *)
(* A file is described by what its writer laid out and by the number of    *)
(* bytes of it that are on disk, so an interrupted download is the same    *)
(* layout with a smaller size.  The reader is a cursor over byte counts:   *)
(* a read moves the offset or leaves an error, and an error is sticky, as  *)
(* `?` makes it.  A header that claims more entries than were laid out is  *)
(* only meaningful in a file that ends with them.                          *)
(* Options are <<>> and <<x>>; a u64 is at most MaxU64.                    *)
(***************************************************************************)
EXTENDS Integers, Sequences, SequencesExt, FiniteSets, FiniteSetsExt, TLC

CONSTANTS MaxU64, MaxMetadataBytes, MaxStringBytes

SatMul(a, b) == IF a * b > MaxU64 THEN MaxU64 ELSE a * b
SatAdd(a, b) == IF a + b > MaxU64 THEN MaxU64 ELSE a + b
SatSub(a, b) == IF a > b THEN a - b ELSE 0
CheckedMul(a, b) == IF a * b > MaxU64 THEN <<>> ELSE <<a * b>>
CheckedAdd(a, b) == IF a + b > MaxU64 THEN <<>> ELSE <<a + b>>
CeilDiv(a, b) == (a + b - 1) \div b

(* A left fold; each result is a value before the next one is computed. *)
Through(Op(_, _), start, s) ==
  LET after[i \in 0..Len(s)] ==
        IF i = 0 THEN start
        ELSE CHOOSE next \in {Op(before, s[i]) : before \in {after[i - 1]}} : TRUE
  IN after[Len(s)]

-----------------------------------------------------------------------------
(* The ggml types: name, wire id, elements in a block, bytes of a block. *)
GgmlType == {
  <<"f32", 0, 1, 4>>, <<"f16", 1, 1, 2>>, <<"q4_0", 2, 32, 18>>, <<"q4_1", 3, 32, 20>>,
  <<"q5_0", 6, 32, 22>>, <<"q5_1", 7, 32, 24>>, <<"q8_0", 8, 32, 34>>, <<"q8_1", 9, 32, 36>>,
  <<"q2_K", 10, 256, 84>>, <<"q3_K", 11, 256, 110>>, <<"q4_K", 12, 256, 144>>,
  <<"q5_K", 13, 256, 176>>, <<"q6_K", 14, 256, 210>>, <<"q8_K", 15, 256, 292>>,
  <<"iq2_xxs", 16, 256, 66>>, <<"iq2_xs", 17, 256, 74>>, <<"iq3_xxs", 18, 256, 98>>,
  <<"iq1_s", 19, 256, 50>>, <<"iq4_nl", 20, 32, 18>>, <<"iq3_s", 21, 256, 110>>,
  <<"iq2_s", 22, 256, 82>>, <<"iq4_xs", 23, 256, 136>>, <<"i8", 24, 1, 1>>, <<"i16", 25, 1, 2>>,
  <<"i32", 26, 1, 4>>, <<"i64", 27, 1, 8>>, <<"f64", 28, 1, 8>>, <<"iq1_m", 29, 256, 56>>,
  <<"bf16", 30, 1, 2>>, <<"tq1_0", 34, 256, 54>>, <<"tq2_0", 35, 256, 66>>,
  <<"mxfp4", 39, 32, 17>>, <<"nvfp4", 40, 64, 36>>, <<"q1_0", 41, 128, 18>>, <<"q2_0", 42, 64, 18>>}

(* What a table lookup yields, <<>> where the type is not in it. *)
Lookup(key, column, wanted) ==
  LET hit == {row \in GgmlType : row[key] = wanted}
  IN IF hit = {} THEN <<>> ELSE <<(CHOOSE row \in hit : TRUE)[column]>>

ALL == {row[1] : row \in GgmlType}
FromId(id) == LET known == Lookup(2, 1, id)
              IN [name |-> IF known = <<>> THEN "unknown" ELSE known[1], id |-> id]
Id(type) == LET known == Lookup(1, 2, type.name)
            IN IF known = <<>> THEN type.id ELSE known[1]
Name(type) == type.name
BlockSize(name) == Lookup(1, 3, name)
TypeSize(name) == Lookup(1, 4, name)
IsKnown(type) == type.name \in ALL
IsQuantized(name) == BlockSize(name) # <<>> /\ BlockSize(name)[1] > 1
FromName(name) == IF name \in ALL THEN <<FromId(Lookup(1, 2, name)[1])>> ELSE <<>>

(* bytes_for_elements multiplies without a check: the release build wraps. *)
BytesForElements(name, elements) ==
  IF BlockSize(name) = <<>> THEN <<>>
  ELSE <<(CeilDiv(elements, BlockSize(name)[1]) * TypeSize(name)[1]) % (MaxU64 + 1)>>

-----------------------------------------------------------------------------
(* Metadata value types, in the order of their tags. *)
GgufValueType == <<"u8", "i8", "u16", "i16", "u32", "i32", "f32", "bool",
                   "string", "array", "u64", "i64", "f64">>
FromTag(tag) == IF tag < Len(GgufValueType) THEN GgufValueType[tag + 1] ELSE "none"

FixedWidth(type) ==
  CASE type \in {"u8", "i8", "bool"} -> 1
    [] type \in {"u16", "i16"} -> 2
    [] type \in {"u32", "i32", "f32"} -> 4
    [] type \in {"u64", "i64", "f64"} -> 8
    [] OTHER -> 0

FixedArrayByteLen(type, len) == CheckedMul(FixedWidth(type), len)

-----------------------------------------------------------------------------
(* The cursor. *)
Fail(c, err) == [c EXCEPT !.err = err]
Remaining(c) == SatSub(c.size, c.offset)
Need(c, bytes) == IF bytes > Remaining(c) THEN Fail(c, "Truncated") ELSE c
Moved(c, bytes) == [c EXCEPT !.offset = SatAdd(@, bytes)]

ReadArray(c, bytes) ==
  CASE c.err # "none" -> c
    [] c.err = "none" /\ Need(c, bytes).err # "none" -> Need(c, bytes)
    [] OTHER -> Moved(c, bytes)

ReadBytes(c, len) == ReadArray(c, len)
Skip(c, len) == ReadArray(c, len)

CheckMetadataBudget(c) ==
  IF c.err = "none" /\ c.offset > MaxMetadataBytes THEN Fail(c, "MetadataTooLarge") ELSE c

EnsureFits(c, claimed) ==
  IF c.err = "none" /\ claimed > Remaining(c) THEN Fail(c, "ImplausibleCount") ELSE c

(* Entries claimed beyond those laid out are past the end of the file. *)
Beyond(c, claimed, laid) == IF claimed > laid THEN ReadArray(c, Remaining(c) + 1) ELSE c

(* A length of a string that was just read. *)
Sane(c, len) ==
  IF c.err = "none" /\ len > MaxStringBytes THEN Fail(c, "ImplausibleCount") ELSE c

ReadString(c, len, utf8) ==
  LET valid(read) == IF read.err = "none" /\ ~utf8 THEN Fail(read, "InvalidUtf8") ELSE read
  IN valid(ReadBytes(Sane(ReadArray(c, 8), len), len))

ReadArraySummary(c, kv) ==
  LET type == FromTag(kv.elemTag)
      typed(d) == CASE d.err # "none" -> d
                    [] d.err = "none" /\ type = "none" -> Fail(d, "UnknownValueType")
                    [] d.err = "none" /\ type = "array" -> Fail(d, "NestedArray")
                    [] OTHER -> d
      element(d, len) == Skip(Sane(ReadArray(d, 8), len), len)
      strings(d) == Through(element, EnsureFits(d, SatMul(kv.len, 8)), kv.items)
      numbers(d, bytes) == IF d.err = "none" /\ bytes = <<>> THEN Fail(d, "ImplausibleCount")
                           ELSE Skip(d, bytes[1])
      elements(d) == IF type = "string" THEN Beyond(strings(d), kv.len, Len(kv.items))
                     ELSE IF d.err # "none" THEN d
                     ELSE numbers(d, FixedArrayByteLen(type, kv.len))
  IN elements(ReadArray(typed(ReadArray(c, 4)), 8))

ReadValue(c, kv) ==
  LET type == FromTag(kv.tag)
  IN CASE type = "string" -> ReadString(c, kv.len, kv.utf8)
       [] type = "array" -> ReadArraySummary(c, kv)
       [] OTHER -> ReadArray(c, FixedWidth(type))

ReadKv(c, kv) ==
  LET typed(d) == CASE d.err # "none" -> d
                    [] d.err = "none" /\ FromTag(kv.tag) = "none" -> Fail(d, "UnknownValueType")
                    [] OTHER -> ReadValue(d, kv)
  IN typed(ReadArray(ReadString(c, kv.keyLen, TRUE), 4))

MAX_DIMS == 4

Elements(tensor) ==
  Through(LAMBDA acc, dim : IF acc = <<>> THEN <<>> ELSE CheckedMul(acc[1], dim),
           <<1>>, tensor.dims)

ByteSize(tensor) ==
  IF Elements(tensor) = <<>> THEN <<>>
  ELSE BytesForElements(FromId(tensor.typeId).name, Elements(tensor)[1])

ReadTensorInfo(c, tensor) ==
  LET shaped(named) == IF named.err = "none" /\ tensor.nDims > MAX_DIMS
                       THEN Fail(named, "TooManyDimensions")
                       ELSE Through(LAMBDA d, dim : ReadArray(d, 8), named, tensor.dims)
      counted(read) == IF read.err = "none" /\ Elements(tensor) = <<>>
                       THEN Fail(read, "DimensionOverflow") ELSE read
      named == ReadArray(ReadString(c, tensor.nameLen, TRUE), 4)
  IN counted(ReadArray(ReadArray(shaped(named), 4), 8))

-----------------------------------------------------------------------------
(* The metadata of a file: the value of each key, the last writer's. *)
MetadataOf(kvs) ==
  Through(LAMBDA found, kv : (kv.key :> kv) @@ found, [k \in {} |-> 0], kvs)

Get(file, key) == IF key \in DOMAIN file.metadata THEN <<file.metadata[key]>> ELSE <<>>

AsU64(kv) ==
  IF FromTag(kv.tag) \in {"u8", "u16", "u32", "u64", "i8", "i16", "i32", "i64"} /\ ~kv.negative
  THEN <<kv.value>> ELSE <<>>
AsScalar(kv, types) == IF FromTag(kv.tag) \in types THEN <<kv.value>> ELSE <<>>

GetU64(file, key) == IF Get(file, key) = <<>> THEN <<>> ELSE AsU64(Get(file, key)[1])
GetF64(file, key) ==
  IF Get(file, key) = <<>> THEN <<>> ELSE AsScalar(Get(file, key)[1], {"f32", "f64"})
GetBool(file, key) == IF Get(file, key) = <<>> THEN <<>> ELSE AsScalar(Get(file, key)[1], {"bool"})
GetStr(file, key) ==
  IF Get(file, key) = <<>> THEN <<>> ELSE AsScalar(Get(file, key)[1], {"string"})
GetArray(file, key) ==
  IF Get(file, key) = <<>> \/ FromTag(Get(file, key)[1].tag) # "array" THEN <<>>
  ELSE Get(file, key)

DEFAULT_ALIGNMENT == 32
IsPowerOfTwo(n) == \E k \in 0..12 : n = 2^k

(* general.alignment, 0 where it is not a power of two. *)
ResolveAlignment(metadata) ==
  IF "alignment" \notin DOMAIN metadata THEN DEFAULT_ALIGNMENT
  ELSE LET claimed == AsU64(metadata["alignment"])
       IN IF claimed # <<>> /\ IsPowerOfTwo(claimed[1]) THEN claimed[1] ELSE 0

AlignUp(offset, alignment) ==
  IF offset % alignment = 0 THEN offset
  ELSE SatAdd(offset, SatSub(alignment, offset % alignment))

(* verify_tensor_data_present: does a tensor that can be sized run past the end? *)
VerifyTensorDataPresent(file) ==
  \A i \in DOMAIN file.tensors :
    LET size == ByteSize(file.tensors[i])
    IN size # <<>> =>
         SatAdd(SatAdd(file.dataOffset, file.tensors[i].offset), size[1]) <= file.fileSize

MIN_VERSION == 2
MAX_VERSION == 3
MIN_KV_BYTES == 12
MIN_TENSOR_BYTES == 24

(* Up to the end of the metadata. *)
ParseMetadata(f) ==
  LET start == [offset |-> 0, size |-> f.size, err |-> "none"]
      recognised(c) == IF c.err = "none" /\ ~f.magic THEN Fail(c, "BadMagic") ELSE c
      accepted(c) == IF c.err = "none" /\ f.version \notin MIN_VERSION..MAX_VERSION
                     THEN Fail(c, "UnsupportedVersion") ELSE c
      versioned == accepted(ReadArray(recognised(ReadArray(start, 4)), 4))
      counted == ReadArray(ReadArray(versioned, 8), 8)
      fits == EnsureFits(counted, SatMul(f.kvCount, MIN_KV_BYTES))
  IN Beyond(Through(LAMBDA c, kv : CheckMetadataBudget(ReadKv(c, kv)), fits, f.kvs),
            f.kvCount, Len(f.kvs))

(* Then up to the end of the header. *)
ParseTensors(f, described, alignment) ==
  LET aligned == IF described.err = "none" /\ alignment = 0
                 THEN Fail(described, "ImplausibleCount") ELSE described
      fits == EnsureFits(aligned, SatMul(f.tensorCount, MIN_TENSOR_BYTES))
  IN Beyond(Through(LAMBDA c, t : CheckMetadataBudget(ReadTensorInfo(c, t)), fits, f.tensors),
            f.tensorCount, Len(f.tensors))

(* What parse returns; a refused file has only its error. *)
Parse(f, verifyData) ==
  LET file(end, metadata, alignment) ==
        [err |-> "none", version |-> f.version, alignment |-> alignment, metadata |-> metadata,
         tensors |-> f.tensors, fileSize |-> f.size, headerEnd |-> end,
         dataOffset |-> IF f.tensors = <<>> THEN end ELSE AlignUp(end, alignment)]
      verified(parsed) == IF verifyData /\ ~VerifyTensorDataPresent(parsed)
                          THEN [err |-> "Truncated"] ELSE parsed
      read(c, metadata, alignment) == IF c.err # "none" THEN [err |-> c.err]
                                      ELSE verified(file(c.offset, metadata, alignment))
      described(metadata, alignment) ==
        read(ParseTensors(f, ParseMetadata(f), alignment), metadata, alignment)
      metadata == MetadataOf(f.kvs)
  IN described(metadata, ResolveAlignment(metadata))

Open(f) == Parse(f, TRUE)
OpenHeaderOnly(f) == Parse(f, FALSE)

TensorDataBytes(file) == SatSub(file.fileSize, file.dataOffset)

(* A checked sum over the tensors, <<>> once one of them cannot be sized. *)
SumTensors(file, Of(_)) ==
  Through(LAMBDA acc, t : IF acc = <<>> \/ Of(t) = <<>> THEN <<>>
                           ELSE CheckedAdd(acc[1], Of(t)[1]),
           <<0>>, file.tensors)
ParameterCount(file) == SumTensors(file, Elements)
WeightBytes(file) == SumTensors(file, ByteSize)

(* read_u64_array opens the file again: the size it has by then is later. *)
ReadU64Array(file, key, later) ==
  LET array == GetArray(file, key)
  IN CASE array = <<>> ->
            [err |-> "none", value |-> IF GetU64(file, key) = <<>> THEN <<>>
                                       ELSE <<GetU64(file, key)>>]
       [] array # <<>> /\ FixedWidth(FromTag(array[1].elemTag)) = 0 ->
            [err |-> "none", value |-> <<>>]
       [] array # <<>> /\ FixedWidth(FromTag(array[1].elemTag)) # 0 /\ later < file.headerEnd ->
            [err |-> "Read", value |-> <<>>]
       [] OTHER -> [err |-> "none", value |-> <<array[1].items>>]

-----------------------------------------------------------------------------
(* The counts of each type in a file, and the one most elements have. *)
QuantStat(file, name) ==
  LET mine == SelectSeq(file.tensors, LAMBDA t : FromId(t.typeId).name = name)
      size == SumTensors([tensors |-> mine], ByteSize)
  IN [tensors |-> Len(mine),
      elements |-> Through(LAMBDA acc, t : SatAdd(acc, Elements(t)[1]), 0, mine),
      bytes |-> size]

QuantMix(file) ==
  LET types == {FromId(file.tensors[i].typeId) : i \in DOMAIN file.tensors}
      order == SetToSortSeq(types, LAMBDA a, b : a.id < b.id)
      more(best, t) == IF best = <<>> \/ QuantStat(file, t.name).elements
                                           >= QuantStat(file, best[1].name).elements
                       THEN <<t>> ELSE best
  IN [dominant |-> Through(more, <<>>, order),
      byType |-> [n \in {t.name : t \in types} |-> QuantStat(file, n)]]

(* Labels are written in the case of the type names: the code upper-cases both. *)
FtypeNames ==
  (0 :> "f32") @@ (1 :> "f16") @@ (2 :> "q4_0") @@ (3 :> "q4_1") @@ (7 :> "q8_0") @@ (8 :> "q5_0")
  @@ (9 :> "q5_1") @@ (10 :> "q2_K") @@ (11 :> "q3_K_S") @@ (12 :> "q3_K_M") @@ (13 :> "q3_K_L")
  @@ (14 :> "q4_K_S") @@ (15 :> "q4_K_M") @@ (16 :> "q5_K_S") @@ (17 :> "q5_K_M") @@ (18 :> "q6_K")
  @@ (19 :> "iq2_xxs") @@ (20 :> "iq2_xs") @@ (21 :> "q2_K_S") @@ (22 :> "iq3_xs")
  @@ (23 :> "iq3_xxs") @@ (24 :> "iq1_s") @@ (25 :> "iq4_nl") @@ (26 :> "iq3_s") @@ (27 :> "iq3_m")
  @@ (28 :> "iq2_s") @@ (29 :> "iq2_m") @@ (30 :> "iq4_xs") @@ (31 :> "iq1_m") @@ (32 :> "bf16")
  @@ (36 :> "tq1_0") @@ (37 :> "tq2_0") @@ (38 :> "mxfp4_moe") @@ (39 :> "nvfp4") @@ (40 :> "q1_0")
  @@ (41 :> "q2_0") @@ (1024 :> "guessed")
FtypeName(n) == IF n \in DOMAIN FtypeNames THEN <<FtypeNames[n]>> ELSE <<>>

TokenizerMeta(file) ==
  [bos |-> GetU64(file, "bos_token_id"), addBos |-> GetBool(file, "add_bos_token"),
   tokenCount |-> IF GetArray(file, "tokens") = <<>> THEN <<>>
                  ELSE <<GetArray(file, "tokens")[1].len>>,
   hasChatTemplate |-> GetStr(file, "chat_template") # <<>>]

WANTED == <<"context_length", "block_count", "embedding_length", "feed_forward_length",
            "head_count">>

(* ModelMetadata::from_file: an error, or what the estimator reads. *)
FromFile(file, later) ==
  LET heads == ReadU64Array(file, "head_count_kv", later)
      absent == SelectSeq(WANTED, LAMBDA k : GetU64(file, k) = <<>>)
      tokens == TokenizerMeta(file).tokenCount
  IN IF heads.err # "none" THEN [err |-> heads.err]
     ELSE [err |-> "none",
           context_length |-> GetU64(file, "context_length"),
           block_count |-> GetU64(file, "block_count"),
           embedding_length |-> GetU64(file, "embedding_length"),
           feed_forward_length |-> GetU64(file, "feed_forward_length"),
           head_count |-> GetU64(file, "head_count"), head_count_kv |-> heads.value,
           key_length |-> GetU64(file, "key_length"),
           value_length |-> GetU64(file, "value_length"),
           sliding_window |-> GetU64(file, "sliding_window"),
           rope_freq_base |-> GetF64(file, "freq_base"),
           vocab_size |-> IF tokens # <<>> THEN tokens ELSE GetU64(file, "vocab_size"),
           tokenizer |-> TokenizerMeta(file), file_type |-> GetU64(file, "file_type"),
           quantization |-> QuantMix(file), tensor_count |-> Len(file.tensors),
           param_count |-> ParameterCount(file), weight_bytes |-> WeightBytes(file),
           missing |-> IF heads.value = <<>> THEN Append(absent, "head_count_kv") ELSE absent]

HeadDimK(m) ==
  CASE m.key_length # <<>> -> m.key_length
    [] m.key_length = <<>> /\ m.embedding_length # <<>> /\ m.head_count # <<>>
         /\ m.head_count # <<0>> -> <<m.embedding_length[1] \div m.head_count[1]>>
    [] OTHER -> <<>>
HeadDimV(m) == IF m.value_length # <<>> THEN m.value_length ELSE HeadDimK(m)

KvHeadsForLayer(m, layer) ==
  LET heads == m.head_count_kv
  IN CASE heads = <<>> -> <<>>
       [] heads # <<>> /\ Len(heads[1]) = 1 -> <<heads[1][1]>>
       [] heads # <<>> /\ Len(heads[1]) # 1 /\ layer < Len(heads[1]) -> <<heads[1][layer + 1]>>
       [] OTHER -> <<>>
HasPerLayerKvHeads(m) == m.head_count_kv # <<>> /\ Len(m.head_count_kv[1]) > 1

GqaRatio(m) ==
  LET heads == IF m.head_count_kv = <<>> THEN <<>>
               ELSE SelectSeq(m.head_count_kv[1], LAMBDA h : h > 0)
  IN IF m.head_count \in {<<>>, <<0>>} \/ heads = <<>> THEN <<>>
     ELSE <<m.head_count[1] \div heads[1]>>

QuantizationLabel(m) ==
  LET ftype == IF m.file_type = <<>> THEN <<>> ELSE FtypeName(m.file_type[1])
  IN CASE ftype # <<>> -> ftype[1]
       [] ftype = <<>> /\ m.quantization.dominant # <<>> -> m.quantization.dominant[1].name
       [] OTHER -> "unknown"

IsCompleteForEstimation(m) ==
  /\ m.block_count # <<>>
  /\ HeadDimK(m) # <<>> /\ HeadDimV(m) # <<>>
  /\ m.head_count_kv # <<>>
  /\ m.weight_bytes # <<>>

-----------------------------------------------------------------------------
(* The same file, measured without the reader. *)
KvBytes(kv) ==
  LET type == FromTag(kv.tag)
  IN 12 + kv.keyLen
     + CASE type = "string" -> 8 + kv.len
         [] type = "array" /\ FromTag(kv.elemTag) = "string" ->
              12 + Through(LAMBDA n, len : n + 8 + len, 0, kv.items)
         [] type = "array" /\ FromTag(kv.elemTag) # "string" ->
              12 + kv.len * FixedWidth(FromTag(kv.elemTag))
         [] OTHER -> FixedWidth(type)
TensorBytes(t) == 24 + t.nameLen + 8 * Len(t.dims)
HeaderBytes(f) == 24 + Through(LAMBDA n, kv : n + KvBytes(kv), 0, f.kvs)
                     + Through(LAMBDA n, t : n + TensorBytes(t), 0, f.tensors)

ExactElements(t) == Through(LAMBDA n, d : n * d, 1, t.dims)
ExactBytes(t) == LET name == FromId(t.typeId).name
                 IN CeilDiv(ExactElements(t), BlockSize(name)[1]) * TypeSize(name)[1]
Sized(f) == {i \in DOMAIN f.tensors : FromId(f.tensors[i].typeId).name \in ALL}
DataStart(f) == LET a == ResolveAlignment(MetadataOf(f.kvs))
                IN IF f.tensors = <<>> THEN HeaderBytes(f) ELSE CeilDiv(HeaderBytes(f), a) * a
IsWhole(f) == \A i \in Sized(f) :
  DataStart(f) + f.tensors[i].offset + ExactBytes(f.tensors[i]) <= f.size

(* Nothing in the file is beyond a u64, and it is what its header says. *)
Representable(f) == \A i \in Sized(f) :
  DataStart(f) + f.tensors[i].offset + ExactBytes(f.tensors[i]) <= MaxU64
WellFormed(f) ==
  /\ f.magic /\ f.version \in MIN_VERSION..MAX_VERSION
  /\ f.kvCount = Len(f.kvs) /\ f.tensorCount = Len(f.tensors)
  /\ HeaderBytes(f) <= MaxMetadataBytes
  /\ ResolveAlignment(MetadataOf(f.kvs)) # 0
  /\ \A i \in DOMAIN f.kvs :
       LET kv == f.kvs[i] IN
         /\ FromTag(kv.tag) # "none" /\ kv.utf8 /\ kv.keyLen <= MaxStringBytes
         /\ FromTag(kv.tag) = "string" => kv.len <= MaxStringBytes
         /\ FromTag(kv.tag) = "array" =>
              /\ FromTag(kv.elemTag) \notin {"none", "array"} /\ kv.len = Len(kv.items)
              /\ FromTag(kv.elemTag) = "string" =>
                   \A j \in DOMAIN kv.items : kv.items[j] <= MaxStringBytes
  /\ \A i \in DOMAIN f.tensors :
       /\ f.tensors[i].nDims <= MAX_DIMS /\ f.tensors[i].nameLen <= MaxStringBytes
       /\ ExactElements(f.tensors[i]) <= MaxU64

(* A file is opened exactly when it is a whole model.  A well-formed header  *)
(* is read as soon as all of it is on disk, and no sooner; the full open     *)
(* then agrees with it, and refuses the file while tensor data it can size   *)
(* is still missing, with an error that says so; the bytes of the weights    *)
(* are exact or withheld.  (reader.rs: parse, verify_tensor_data_present,    *)
(* weight_bytes, "a download interrupted after the header but partway        *)
(* through the weights would otherwise look perfectly valid".)               *)
OpenedIsWhole(f) ==
  \A opened \in {Open(f)}, header \in {OpenHeaderOnly(f)} :
     /\ opened.err = "none" => header = opened /\ WellFormed(f)
     /\ WellFormed(f) => (header.err = "none" <=> f.size >= HeaderBytes(f))
     /\ header.err = "none" => header.headerEnd = HeaderBytes(f) /\ header.dataOffset = DataStart(f)
     /\ WellFormed(f) /\ Representable(f) =>
          /\ opened.err = "none" <=> f.size >= HeaderBytes(f) /\ IsWhole(f)
          /\ opened.err \in {"none", "Truncated", "ImplausibleCount"}
     /\ opened.err = "none" /\ Representable(f) =>
          WeightBytes(opened) =
            IF Sized(f) # DOMAIN f.tensors THEN <<>>
            ELSE LET sum == Through(LAMBDA n, t : n + ExactBytes(t), 0, f.tensors)
                 IN IF sum > MaxU64 THEN <<>> ELSE <<sum>>

(* What is said of a model is what its file says: the types add up to the    *)
(* parameters, every key looked for is either reported or named as missing,  *)
(* and "complete for estimation" leaves the cache arithmetic no unknown but  *)
(* a per-layer list shorter than the model.  (metadata.rs: from_file,        *)
(* QuantMix::from_file, is_complete_for_estimation.)                         *)
MetadataIsHonest(f) ==
  \A file \in {Open(f)} : file.err = "none" =>
     \A m \in {FromFile(file, f.size)} :
       LET mix == m.quantization IN
       /\ m.err = "none"
       /\ m.param_count # <<>> =>
            m.param_count[1] = FoldSet(LAMBDA n, sum : sum + mix.byType[n].elements, 0,
                                       DOMAIN mix.byType)
       /\ mix.dominant # <<>> => \A n \in DOMAIN mix.byType :
            mix.byType[n].elements <= mix.byType[mix.dominant[1].name].elements
       /\ (\E n \in DOMAIN mix.byType : mix.byType[n].bytes = <<>>) => m.weight_bytes = <<>>
       /\ m.missing = <<>> =>
            m.block_count # <<>> /\ m.head_count # <<>> /\ m.head_count_kv # <<>>
       /\ IsCompleteForEstimation(m) /\ ~HasPerLayerKvHeads(m) /\ m.head_count_kv # <<<<>>>> =>
            \A layer \in 0..(m.block_count[1] - 1) : KvHeadsForLayer(m, layer) # <<>>
       /\ GqaRatio(m) # <<>> => \E i \in DOMAIN m.head_count_kv[1] :
            m.head_count_kv[1][i] > 0 /\ GqaRatio(m)[1] * m.head_count_kv[1][i] <= m.head_count[1]

-----------------------------------------------------------------------------
(* Admission. *)

CONSTANTS MIN_MARGIN, MIN_USEFUL_CONTEXT, CONTEXT_PRESETS, DEFAULT_CTX, DEFAULT_UBATCH,
          ENGINE_BASELINE, HOST_OVERHEAD, MIN_QUANTIZED_KV

MinOf(a, b) == IF a < b THEN a ELSE b
MaxOf(a, b) == IF a > b THEN a ELSE b
UnwrapOr(option, default) == IF option = <<>> THEN default ELSE option[1]
Or(option, other) == IF option = <<>> THEN other ELSE option

-----------------------------------------------------------------------------
(* Runtime parameters. *)
RuntimeParams ==
  [n_ctx |-> DEFAULT_CTX, n_ubatch |-> DEFAULT_UBATCH, n_batch |-> 4 * DEFAULT_UBATCH,
   n_parallel |-> 1, kv |-> "f16", load_mode |-> <<>>]

LoadMode == {"auto", "none", "mmap", "mlock", "mmap+mlock"}
LocksWeights(mode) == mode \in {"mlock", "mmap+mlock"}
Locks(params) == params.load_mode # <<>> /\ LocksWeights(params.load_mode[1])
WithContext(params, n_ctx) == [params EXCEPT !.n_ctx = n_ctx]
WithUbatch(params, n) ==
  [params EXCEPT !.n_ubatch = MaxOf(n, 1), !.n_batch = MaxOf(@, MaxOf(n, 1))]

ContextPresetsFor(model_max) ==
  IF model_max = <<>> THEN CONTEXT_PRESETS
  ELSE LET within == SelectSeq(CONTEXT_PRESETS, LAMBDA p : p <= model_max[1])
       IN IF ~Contains(within, model_max[1]) /\ model_max[1] >= MIN_USEFUL_CONTEXT
          THEN Append(within, model_max[1]) ELSE within

-----------------------------------------------------------------------------
(* The estimator. *)
Headless == [num |-> 1, den |-> 1, activation |-> 8, scratch |-> 4,
             baseline |-> ENGINE_BASELINE, host |-> HOST_OVERHEAD, measured |-> FALSE]

BudgetOf(available) == [available |-> available, reclaimable |-> 0]
Reclaiming(budget, bytes) == [budget EXCEPT !.reclaimable = bytes]
Spendable(budget) == SatAdd(budget.available, budget.reclaimable)

MarginFor(budget) == MaxOf((budget * 15) \div 100, MIN_MARGIN)

SolveMaxContext(budget, fixed, per_token) ==
  IF per_token = 0 \/ fixed > budget \/ (budget - fixed) \div per_token < MIN_USEFUL_CONTEXT
  THEN <<>> ELSE <<(budget - fixed) \div per_token>>

UNKNOWN == [bytes |-> 0, per_token |-> 0]

KvCacheBytes(m, params) ==
  LET par == MaxOf(params.n_parallel, 1)
      block == BlockSize(params.kv)
      size == TypeSize(params.kv)
      layers == 0..(m.block_count[1] - 1)
      heads(l) == KvHeadsForLayer(m, l)[1]
      elements(l, dim) == SatMul(SatMul(SatMul(params.n_ctx, heads(l)), dim), par)
      cost(l) == IF heads(l) = 0 THEN 0
                 ELSE BytesForElements(params.kv, elements(l, HeadDimK(m)[1]))[1]
                        + BytesForElements(params.kv, elements(l, HeadDimV(m)[1]))[1]
      token(l) == heads(l) * par * (HeadDimK(m)[1] + HeadDimV(m)[1]) * size[1]
  IN CASE m.block_count = <<>> -> [kv |-> UNKNOWN, missing |-> {"block_count"}]
       [] m.block_count # <<>> /\ HeadDimK(m) = <<>> ->
            [kv |-> UNKNOWN, missing |-> {"attention head dimension"}]
       [] m.block_count # <<>> /\ HeadDimK(m) # <<>> /\ m.head_count_kv = <<>> ->
            [kv |-> UNKNOWN, missing |-> {"attention.head_count_kv"}]
       [] m.block_count # <<>> /\ HeadDimK(m) # <<>> /\ m.head_count_kv # <<>>
            /\ (block = <<>> \/ \E l \in layers : KvHeadsForLayer(m, l) = <<>>) ->
            [kv |-> UNKNOWN, missing |-> {"geometry"}]
       [] OTHER ->
            [kv |-> [bytes |-> FoldSet(LAMBDA l, sum : SatAdd(sum, cost(l)), 0, layers),
                     per_token |-> CeilDiv(FoldSet(LAMBDA l, sum : sum + token(l), 0, layers),
                                           block[1])],
             missing |-> {}]

ComputeBytes(m, params, model) ==
  LET ub == MaxOf(params.n_ubatch, 1)
      embedding == UnwrapOr(m.embedding_length, 0)
      widest == MaxOf(embedding, UnwrapOr(m.feed_forward_length, 0))
      shaped == (model.activation * embedding + model.scratch * widest) * ub * 4
  IN [bytes |-> (UnwrapOr(m.vocab_size, 0) * ub * 4 * model.den + shaped * model.num)
                  \div model.den,
      missing |-> (IF m.vocab_size = <<>> THEN {"vocab_size"} ELSE {})
                    \cup (IF embedding = 0 THEN {"embedding_length"} ELSE {})]

(* The estimate, from the cache and the compute buffers it counts with. *)
EstimateWith(m, params, budget_for, model, kv, compute) ==
  LET weights == UnwrapOr(m.weight_bytes, 0)
      overhead == SatAdd(model.baseline, model.host)
      total == SatAdd(SatAdd(SatAdd(weights, kv.kv.bytes), compute.bytes), overhead)
      budget == Spendable(budget_for)
      margin == MarginFor(budget)
      missing == kv.missing \cup compute.missing
                   \cup (IF m.weight_bytes = <<>> THEN {"weight size"} ELSE {})
      fixed == SatAdd(SatAdd(SatAdd(weights, compute.bytes), overhead), margin)
      solved == SolveMaxContext(budget, fixed, kv.kv.per_token)
      fits == IF solved = <<>> \/ m.context_length = <<>> THEN solved
              ELSE <<MinOf(solved[1], m.context_length[1])>>
  IN [weights |-> weights, kv_cache |-> kv.kv.bytes, compute |-> compute.bytes,
      overhead |-> overhead, total |-> total, budget |-> budget,
      reclaimable |-> budget_for.reclaimable, margin |-> margin,
      verdict |-> CASE SatAdd(total, margin) <= budget -> "SAFE"
                    [] SatAdd(total, margin) > budget /\ total <= budget -> "TIGHT"
                    [] OTHER -> "INSUFFICIENT",
      confidence |-> CASE missing # {} -> "partial"
                       [] missing = {} /\ model.measured -> "measured"
                       [] OTHER -> "coarse",
      kv_bytes_per_token |-> kv.kv.per_token,
      max_context_that_fits |-> IF fits # <<>> /\ fits[1] >= MIN_USEFUL_CONTEXT
                                THEN fits ELSE <<>>,
      missing |-> missing, params |-> params]

EstimateAgainst(m, params, budget_for, model) ==
  EstimateWith(m, params, budget_for, model, KvCacheBytes(m, params),
               ComputeBytes(m, params, model))

IsAdmissible(verdict) == verdict \in {"SAFE", "TIGHT"}
Shortfall(e) == SatSub(SatAdd(e.total, e.margin), e.budget)

(* The next steps a refusal offers, with the number each carries. *)
EstimateRemedies(e) ==
  IF IsAdmissible(e.verdict) THEN <<>>
  ELSE LET room == SatSub(SatSub(e.budget, e.margin), e.overhead)
       IN (IF e.max_context_that_fits = <<>> THEN <<>>
           ELSE << <<"reduce_context", e.max_context_that_fits[1]>> >>)
          \o (IF e.params.kv = "f16" /\ e.kv_cache > MIN_QUANTIZED_KV
              THEN << <<"quantize_kv_cache",
                        SatSub(e.kv_cache, SatMul(e.kv_cache, 34) \div 64)>> >> ELSE <<>>)
          \o << <<"use_smaller_model", room>>, <<"free_memory", Shortfall(e)>> >>
          \o (IF e.confidence = "partial" THEN << <<"open_settings", 0>> >> ELSE <<>>)

CORES_PER_SLOT == 4

Estimates(m, params, budget, model) == EstimateAgainst(m, params, budget, model).verdict

FromCores(cores) == MaxOf(cores \div CORES_PER_SLOT, 1)
LargestOr(found, default) == IF found = {} THEN default ELSE Max(found)
FittedSlots(slots, cores) ==
  [slots |-> slots, source |-> IF slots = FromCores(cores) THEN "fitted" ELSE "reduced_to_fit"]

ChooseConcurrency(requested, cores, m, base, budget, model) ==
  CASE requested # <<>> -> [slots |-> MaxOf(requested[1], 1), source |-> "requested"]
    [] requested = <<>> /\ m = <<>> -> [slots |-> FromCores(cores), source |-> "fitted"]
    [] OTHER ->
         FittedSlots(LargestOr({n \in 1..FromCores(cores) :
                                  Estimates(m[1], [base EXCEPT !.n_parallel = n], budget, model)
                                    = "SAFE"}, 1), cores)

(* As: the search settles for a window that leaves less than the margin. *)
LargestTightContextAgainst(m, base, budget, model) ==
  LET fits(presets) == {p \in ToSet(presets) :
                          IsAdmissible(Estimates(m, WithContext(base, p), budget, model))}
      largest(found) == IF found = {} THEN <<>> ELSE <<Max(found)>>
  IN largest(fits(ContextPresetsFor(m.context_length)))

LargestSafeContextAgainst(m, base, budget, model) ==
  LET safe(presets) == {p \in ToSet(presets) :
                          Estimates(m, WithContext(base, p), budget, model) = "SAFE"}
      largest(found) == IF found = {} THEN <<>> ELSE <<Max(found)>>
  IN largest(safe(ContextPresetsFor(m.context_length)))

ChooseContext(requested, stored_default, m, base, budget, model) ==
  CASE requested # <<>> -> [n_ctx |-> requested[1], source |-> "requested"]
    [] requested = <<>> /\ stored_default # <<>> ->
         [n_ctx |-> stored_default[1], source |-> "setting"]
    [] OTHER -> [n_ctx |-> UnwrapOr(LargestSafeContextAgainst(m, base, budget, model), base.n_ctx),
                 source |-> "fitted"]

-----------------------------------------------------------------------------
(* The calibration. *)
Exact(prediction) == prediction.weights + prediction.kv_cache

ExactWithin(prediction, peak_kind, params) ==
  IF peak_kind = "resident_set" \/ Locks(params) THEN Exact(prediction) ELSE prediction.kv_cache

BucketFor(architecture, label, params) ==
  [architecture |-> architecture, quantization |-> label, n_ctx |-> params.n_ctx,
   n_parallel |-> params.n_parallel, kv |-> params.kv]

(* regress: the line through the largest residual of each batch size, as     *)
(* fractions over one denominator; <<>> with fewer than two batch sizes.     *)
Regress(points) ==
  LET xs == {points[i].n_ubatch : i \in DOMAIN points}
      y(x) == Max({points[i].residual : i \in {j \in DOMAIN points : points[j].n_ubatch = x}})
      sum(Of(_)) == FoldSet(LAMBDA x, acc : acc + Of(x), 0, xs)
      n == Cardinality(xs)
      sx == sum(LAMBDA x : x)
      sy == sum(y)
      sxx == sum(LAMBDA x : x * x)
      sxy == sum(LAMBDA x : x * y(x))
      syy == sum(LAMBDA x : y(x) * y(x))
      den == n * sxx - sx * sx
      spread == n * syy - sy * sy
      cov == n * sxy - sx * sy
  IN IF n < 2 THEN <<>>
     ELSE << [den |-> den, slope |-> cov, intercept |-> sy * sxx - sx * sxy,
              r_squared |-> << IF spread = 0 THEN [num |-> 1, den |-> 1]
                               ELSE [num |-> cov * cov, den |-> den * spread] >>] >>

Fit(run, bucket, points) ==
  [machine |-> run.machine, engine |-> run.engine, bucket |-> bucket,
   line |-> Regress(points), points |-> points]

(* fit_run: one fit for each bucket the samples of a run fall in. *)
FitRun(run) ==
  LET residual(s) == s.peak_rss[1] - ExactWithin(s.predicted[1], s.peak_kind, s.params)
      usable == SelectSeq(run.samples, LAMBDA s : /\ s.predicted # <<>> /\ s.peak_rss # <<>>
                                                  /\ residual(s) >= 0)
      bucket(s) == BucketFor(run.architecture, run.quantization, s.params)
      buckets == {bucket(usable[i]) : i \in DOMAIN usable}
      points(b) == LET mine == SelectSeq(usable, LAMBDA s : bucket(s) = b)
                   IN [i \in DOMAIN mine |-> [n_ubatch |-> mine[i].params.n_ubatch,
                                              residual |-> residual(mine[i])]]
  IN {Fit(run, b, points(b)) : b \in buckets}

(* A machine is its hardware: the memory it has is recorded, not compared.   *)
MachineMatches(a, b) == a.cpu = b.cpu
EngineMatches(a, b) == a = b
Matches(fit, machine, engine, bucket) ==
  MachineMatches(fit.machine, machine) /\ EngineMatches(fit.engine, engine) /\ fit.bucket = bucket
Find(fits, machine, engine, bucket) ==
  SelectSeq(fits, LAMBDA f : Matches(f, machine, engine, bucket))
Insert(fits, fit) ==
  Append(SelectSeq(fits, LAMBDA f : ~Matches(f, fit.machine, fit.engine, fit.bucket)), fit)

MIN_UBATCH_VALUES == 3
(* bytes(): to the nearest, never below zero. *)
Rounded(num, den) == IF num <= 0 THEN 0 ELSE (2 * num + den) \div (2 * den)

(* The floor: how far, over the line's denominator, the worst point lies     *)
(* above the line.                                                           *)
FloorRaisedBy(fit) ==
  LET miss(p) == p.residual * fit.line[1].den
                   - (fit.line[1].slope * p.n_ubatch + fit.line[1].intercept)
  IN MaxOf(0, Max({miss(fit.points[i]) : i \in DOMAIN fit.points}))

(* apply: a fit that is believed becomes a compute model.  A file written by *)
(* an earlier build has no r_squared.                                        *)
Untrusted == {"NoFit", "TooFewUbatchValues", "NoSlope", "NoGoodnessOfFit", "NotAffine",
              "NegativeTerm", "ShapeUnknown", "SlopeBelowLogits"}
Apply(fit, m, base) ==
  LET ubatches == {fit.points[i].n_ubatch : i \in DOMAIN fit.points}
      line == fit.line[1]
      embedding == m.embedding_length[1]
      shape == (base.activation * embedding
                  + base.scratch * MaxOf(embedding, UnwrapOr(m.feed_forward_length, 0))) * 4
      fitted == line.slope - m.vocab_size[1] * 4 * line.den
      r == line.r_squared[1]
      shaped == m.vocab_size # <<>> /\ m.embedding_length \notin {<<>>, <<0>>}
      refused(outcome) == [outcome |-> outcome, model |-> base]
  IN IF Cardinality(ubatches) < MIN_UBATCH_VALUES THEN refused("TooFewUbatchValues")
     ELSE IF fit.line = <<>> THEN refused("NoSlope")
     ELSE IF line.r_squared = <<>> THEN refused("NoGoodnessOfFit")
     ELSE IF r.num * 100 < r.den * 95 THEN refused("NotAffine")
     ELSE IF line.slope < 0 \/ line.intercept < 0 THEN refused("NegativeTerm")
     ELSE IF ~shaped THEN refused("ShapeUnknown")
     ELSE IF fitted < 0 THEN refused("SlopeBelowLogits")
     ELSE [outcome |-> "Applied",
           model |-> [base EXCEPT !.num = fitted, !.den = shape * line.den,
                                  !.baseline = Rounded(line.intercept + FloorRaisedBy(fit),
                                                       line.den),
                                  !.measured = TRUE]]

ComputeModelFor(calibration, m, params, base) ==
  LET found == Find(calibration.fits, calibration.machine, calibration.engine,
                    BucketFor(m.architecture, QuantizationLabel(m), params))
  IN IF found = <<>> THEN [outcome |-> "NoFit", model |-> base] ELSE Apply(found[1], m, base)

(* estimator_for: the compute model a load is judged with.  A calibration    *)
(* file is absent (no fits), readable, or not.                               *)
EstimatorFor(calibration, m, params, base) ==
  IF ~calibration.readable THEN [outcome |-> "Unreadable", model |-> base]
  ELSE ComputeModelFor(calibration, m, params, base)

-----------------------------------------------------------------------------
(* The callers.  o is what was asked, w the machine and the gateway.         *)
Reclaimable(w) ==
  IF w.resident = <<>> \/ w.usage = <<>> THEN 0
  ELSE LET anonymous == UnwrapOr(w.usage[1].anon, 0)
       IN SatAdd(anonymous, IF w.resident[1] # <<>> /\ LocksWeights(w.resident[1][1])
                            THEN SatSub(w.usage[1].rss, anonymous) ELSE 0)

LoadBase(o, w) ==
  LET base == [RuntimeParams EXCEPT !.kv = UnwrapOr(o.kv, w.defaults.kv),
                                    !.load_mode = o.load_mode]
  IN IF o.ubatch = <<>> THEN base ELSE WithUbatch(base, o.ubatch[1])

(* The choice both load_model and describe_file make: the slots, then the    *)
(* window with so many slots, then the estimate the pair is judged by.       *)
WithSlots(w, base, budget) ==
  [base EXCEPT !.n_parallel = ChooseConcurrency(w.defaults.concurrency, w.cores, <<w.metadata>>,
                                                base, budget, Headless).slots]
WithWindow(shaped, chosen) == [params |-> WithContext(shaped, chosen.n_ctx), source |-> chosen.source]
Chosen(o, w, shaped, budget) ==
  WithWindow(shaped, ChooseContext(o.n_ctx, w.default_n_ctx, w.metadata, shaped, budget, Headless))
JudgedBy(judge, w, chosen, budget) ==
  [err |-> "none", params |-> chosen.params, source |-> chosen.source, outcome |-> judge.outcome,
   judged |-> <<EstimateAgainst(w.metadata, chosen.params, budget, judge.model)>>]
Judged(w, chosen, budget) ==
  JudgedBy(EstimatorFor(w.calibration, w.metadata, chosen.params, Headless), w, chosen, budget)
Priced(o, w, base, budget) == Judged(w, Chosen(o, w, WithSlots(w, base, budget), budget), budget)

(* load_model up to the drain: refused, or the parameters it starts with.    *)
Unpriced(o, w, base) ==
  [err |-> IF o.force THEN "none" ELSE "Memory",
   params |-> WithContext(base, UnwrapOr(Or(o.n_ctx, w.default_n_ctx), base.n_ctx)),
   judged |-> <<>>, source |-> "none", outcome |-> "none"]
Gate(o, plan) ==
  IF /\ ~o.force
     /\ \/ plan.judged[1].verdict = "INSUFFICIENT"
        \/ Locks(plan.params) /\ plan.judged[1].verdict = "TIGHT"
  THEN [plan EXCEPT !.err = "Insufficient"] ELSE plan
LoadPlan(o, w) ==
  IF w.available = <<>> THEN Unpriced(o, w, LoadBase(o, w))
  ELSE Gate(o, Priced(o, w, LoadBase(o, w),
                      Reclaiming(BudgetOf(w.available[1]), Reclaimable(w))))

(* describe_file: the same choice, for the screen. *)
DescribeFile(o, w) ==
  LET unsized == [RuntimeParams EXCEPT !.kv = UnwrapOr(o.kv, w.defaults.kv)]
      base == IF o.ubatch = <<>> \/ o.ubatch = <<0>> THEN unsized
              ELSE WithUbatch(unsized, o.ubatch[1])
      shown(plan) == [estimate |-> plan.judged, source |-> plan.source]
  IN IF w.available = <<>> THEN [estimate |-> <<>>, source |-> "none"]
     ELSE shown(Priced(o, w, base, BudgetOf(w.available[1])))

(* resolve_concurrency and load_at_startup: the same model named on the      *)
(* command line.  A probe that fails ends the process.                       *)
ResolveConcurrency(o, w) ==
  LET base == [RuntimeParams EXCEPT !.kv = UnwrapOr(o.kv, w.defaults.kv)]
      priced == IF o.n_ctx = <<>> THEN base ELSE WithContext(base, o.n_ctx[1])
  IN ChooseConcurrency(w.defaults.concurrency, w.cores, <<w.metadata>>, priced,
                       BudgetOf(w.available[1]), Headless)

LoadAtStartup(o, w) ==
  LET budget == BudgetOf(w.available[1])
      fit(shaped) == Chosen(o, [w EXCEPT !.default_n_ctx = <<>>], shaped, budget)
      started(plan) == IF plan.judged[1].verdict = "INSUFFICIENT" /\ ~o.force
                       THEN [plan EXCEPT !.err = "Insufficient"] ELSE plan
  IN started(Judged(w, fit([LoadBase(o, w) EXCEPT !.n_parallel = ResolveConcurrency(o, w).slots]),
                    budget))

-----------------------------------------------------------------------------
(* What the estimate promises. *)

(* What the last, partly filled block of each tensor of the cache can add.   *)
PartialBlocks(m, params) ==
  IF IsQuantized(params.kv) THEN 2 * m.block_count[1] * TypeSize(params.kv)[1] ELSE 0

(* The numbers in a refusal work: at the context it offers, with the memory  *)
(* it asks to be freed, the same load is no longer refused (a quantized      *)
(* cache may overrun by its partial blocks), and quantizing the cache saves  *)
(* no more than it is said to.                                               *)
RemediesWork(m, budget, e, model) ==
  \A i \in DOMAIN EstimateRemedies(e) :
    LET kind == EstimateRemedies(e)[i][1]
        n == EstimateRemedies(e)[i][2]
    IN /\ kind = "reduce_context" =>
            LET at == EstimateAgainst(m, WithContext(e.params, n), budget, model)
            IN at.total + at.margin <= at.budget + PartialBlocks(m, e.params)
       /\ kind = "free_memory" =>
            IsAdmissible(Estimates(m, e.params,
                                   [budget EXCEPT !.available = @ + n], model))
       /\ kind = "quantize_kv_cache" =>
            KvCacheBytes(m, [e.params EXCEPT !.kv = "q8_0"]).kv.bytes >= e.kv_cache - n

(* More slots never cost less, so stepping down finds the largest count all  *)
(* of whose predecessors are safe as well.                                   *)
SlotsAreAffordable(m, cores, base, budget, model) ==
  \A choice \in {ChooseConcurrency(<<>>, cores, <<m>>, base, budget, model)} :
     LET at(n) == Estimates(m, [base EXCEPT !.n_parallel = n], budget, model) IN
     /\ choice.slots \in 1..FromCores(cores)
     /\ choice.slots > 1 => \A n \in 1..choice.slots : at(n) = "SAFE"
     /\ choice.source = "reduced_to_fit" => at(choice.slots + 1) # "SAFE"

(* A window the load chose by itself is safe, within what the model was      *)
(* trained for, and leaves the margin; unless no window was, or a            *)
(* measurement judged it.                                                    *)
FittedIsSafe(o, w) ==
  \A plan \in {LoadPlan(o, w)} :
     (plan.source = "fitted" /\ plan.outcome # "Applied") =>
       \/ /\ plan.judged[1].verdict = "SAFE"
          /\ (w.metadata.context_length # <<>> =>
                  plan.params.n_ctx <= w.metadata.context_length[1])
       \/ /\ plan.params.n_ctx = DEFAULT_CTX
          /\ \A i \in DOMAIN ContextPresetsFor(w.metadata.context_length) :
                 LET n == ContextPresetsFor(w.metadata.context_length)[i]
                 IN Estimates(w.metadata, WithContext(plan.params, n),
                              Reclaiming(BudgetOf(w.available[1]), Reclaimable(w)),
                              Headless) # "SAFE"

(* A load that was not forced is never started into less memory than it is   *)
(* estimated to need, and one that locks its pages never into less than the  *)
(* margin; both counting what the engine it replaces will hand back.         *)
AdmittedFits(o, w) ==
  \A plan \in {LoadPlan(o, w)} :
     plan.err = "none" /\ ~o.force =>
       /\ plan.judged # <<>> /\ plan.outcome \in Untrusted \cup {"Applied", "Unreadable"}
       /\ plan.judged[1].total <= w.available[1] + Reclaimable(w)
       /\ Locks(plan.params) =>
            plan.judged[1].total + plan.judged[1].margin <= w.available[1] + Reclaimable(w)

(* A load at start-up has no engine to replace and no stored default: one    *)
(* that was not forced fits what is available, and a window it chose itself  *)
(* is within what the model was trained for.                                 *)
StartupFits(o, w) ==
  w.available # <<>> =>
    \A plan \in {LoadAtStartup(o, w)} :
      /\ plan.err = "none" /\ ~o.force => plan.judged[1].total <= w.available[1]
      /\ plan.source = "fitted" /\ plan.params.n_ctx # DEFAULT_CTX
           /\ w.metadata.context_length # <<>> =>
              plan.params.n_ctx <= w.metadata.context_length[1]

(* What the detail screen shows is what the load is judged by, whenever      *)
(* there is no engine to replace.                                            *)
DetailIsTheLoad(o, w) ==
  w.resident = <<>> /\ w.available # <<>> /\ o.ubatch # <<0>> =>
    \A shown \in {DescribeFile(o, w)}, plan \in {LoadPlan(o, w)} :
      LET same(e) == [e EXCEPT !.params.load_mode = <<>>]
      IN /\ same(shown.estimate[1]) = same(plan.judged[1])
         /\ shown.source = plan.source

(* A trusted fit is right about every sample it was made from: priced with   *)
(* it, that configuration costs at least the peak that was measured (to a    *)
(* byte of rounding in each of two terms).                                   *)
FitCoversSamples(run, m) ==
  \A fit \in FitRun(run) :
    LET applied == Apply(fit, m, [Headless EXCEPT !.host = 0])
    IN applied.outcome = "Applied" =>
         \A i \in DOMAIN fit.points :
           LET at == WithUbatch(RuntimeParams, fit.points[i].n_ubatch)
           IN ComputeBytes(m, at, applied.model).bytes + applied.model.baseline + 2
                >= fit.points[i].residual

(* After a fit is recorded it is the one that is found, and every other      *)
(* machine, engine and bucket finds what it found before.                    *)
LatestFitWins(fits, fit, other) ==
  LET after == Insert(fits, fit)
      found(f, among) == Find(among, f.machine, f.engine, f.bucket)
  IN /\ found(fit, after) = <<fit>>
     /\ ~Matches(other, fit.machine, fit.engine, fit.bucket) =>
          found(other, after) = found(other, fits)

(* What the code's comments say of the same functions. *)
ShortfallReachesSafe(m, budget, e, model) ==
  Estimates(m, e.params, [budget EXCEPT !.available = @ + Shortfall(e)], model) = "SAFE"

SlotsSuitTheWindow(o, w) ==
  LET plan == LoadPlan(o, w)
  IN plan.err = "Insufficient" /\ w.defaults.concurrency = <<>> =>
       ~IsAdmissible(Estimates(w.metadata, [plan.params EXCEPT !.n_parallel = 1],
                               Reclaiming(BudgetOf(w.available[1]), Reclaimable(w)), Headless))

-----------------------------------------------------------------------------
(***************************************************************************)
(* The benchmark (lightweight-bench runner.rs, record.rs and store.rs, and *)
(* `hermes bench` in cli/bench.rs): which prompts a plan sends, how a      *)
(* prompt is sized with the engine's tokenizer, what a sample records, what*)
(* a sweep loads, and which saved runs a listing shows.                    *)
(***************************************************************************)
CONSTANT LIST_LIMIT

-----------------------------------------------------------------------------
(* What a plan sends. *)
Scenario == {"cold_prefill", "cached_prefill", "decode", "concurrent_decode"}
ALL_SCENARIOS == <<"cold_prefill", "cached_prefill", "decode">>

DefaultPlan == [prompt_tokens |-> 512, generate_tokens |-> 32, repetitions |-> 3,
                scenarios |-> ALL_SCENARIOS, concurrent |-> 1]

Target(scenario, plan) ==
  IF scenario = "decode" THEN MinOf(plan.prompt_tokens, 64) ELSE plan.prompt_tokens

(* A prompt is the text its target sized, behind a numbered opening or none. *)
WithLead(target, seed) == [lead |-> <<seed>>, target |-> target]
Unled(target) == [lead |-> <<>>, target |-> target]

One(scenario, repetition, plan) ==
  LET target == Target(scenario, plan)
  IN [scenario |-> scenario, repetition |-> repetition,
      prompt |-> IF scenario = "cold_prefill" THEN WithLead(target, repetition) ELSE Unled(target),
      max_tokens |-> IF scenario \in {"cold_prefill", "cached_prefill"} THEN 1
                     ELSE plan.generate_tokens]

SeedFor(repetition, clients, client) == repetition * clients + client + 1

AllAtOnce(repetition, plan) ==
  LET clients == MaxOf(plan.concurrent, 1)
  IN [client \in 1..clients |->
        [scenario |-> "concurrent_decode", repetition |-> repetition,
         prompt |-> WithLead(plan.prompt_tokens, SeedFor(repetition, clients, client - 1)),
         max_tokens |-> plan.generate_tokens]]

(* Runner::run: the generations of a plan, in order; those of one element    *)
(* start together.                                                           *)
RunOf(plan, params) ==
  LET repeated(scenario) ==
        [i \in 1..plan.repetitions |->
           IF scenario = "concurrent_decode" THEN AllAtOnce(i - 1, plan)
           ELSE <<One(scenario, i - 1, plan)>>]
      all == FlattenSeq([i \in DOMAIN plan.scenarios |-> repeated(plan.scenarios[i])])
  IN IF plan.prompt_tokens >= params.n_ctx THEN [err |-> "PromptTooLarge", sent |-> <<>>]
     ELSE IF all = <<>> THEN [err |-> "NothingMeasured", sent |-> <<>>]
     ELSE [err |-> "none", sent |-> all]

-----------------------------------------------------------------------------
(* Sizing a prompt.  counted[n] is what the engine counts for n fillers.     *)
SIZING_ROUNDS == 8
Ceiling(target) == MaxOf(4 * target, 16)
Fillers(words) == MaxOf(words, 1) \div 9 + 1
Distance(counted, target) == MaxOf(counted, target) - MinOf(counted, target)
(* A relative error of at most percent. *)
Within(counted, target, percent) ==
  Distance(counted, target) * 100 <= percent * MaxOf(target, 1)

CloserOf(best, counted, fillers, target) ==
  IF best = <<>> \/ Distance(counted, target) < Distance(best[1].tokens, target)
  THEN <<[tokens |-> counted, fillers |-> fillers]>> ELSE best

SizingRound(s, target, counted) ==
  LET count == counted[Fillers(s.words)]
      best == CloserOf(s.best, count, Fillers(s.words), target)
      scaled == (2 * s.words * target + MaxOf(count, 1)) \div (2 * MaxOf(count, 1))
      next == MinOf(MaxOf(scaled, 1), Ceiling(target))
      stops == Within(count, target, 5) \/ s.previous = <<count>> \/ next = s.words
  IN IF s.done THEN s
     ELSE [words |-> next, best |-> best, previous |-> <<count>>, done |-> stops]

(* The sizer before each round, and after the last. *)
Sizing(target, counted) ==
  LET start == [words |-> MinOf(MaxOf(target, 1), Ceiling(target)), best |-> <<>>,
                previous |-> <<>>, done |-> FALSE]
      after[n \in 0..SIZING_ROUNDS] ==
        IF n = 0 THEN start ELSE SizingRound(after[n - 1], target, counted)
  IN after

SizedPrompt(target, counted) ==
  LET best == Sizing(target, counted)[SIZING_ROUNDS].best[1]
  IN [err |-> IF Within(best.tokens, target, 20) THEN "none" ELSE "PromptSize", prompt |-> best]

-----------------------------------------------------------------------------
(* One sample.  events are what the stream yields, in order; a reading of    *)
(* the engine is <<>> when it could not be taken.                            *)
TicksBetween(before, after) ==
  IF before = <<>> \/ after = <<>> \/ after[1].ticks < before[1].ticks THEN <<>>
  ELSE <<after[1].ticks - before[1].ticks>>

OneWith(events, before, after, machine) ==
  LET failed == \E i \in DOMAIN events : events[i].kind = "error"
      deltas == SelectSeq(events, LAMBDA e : e.kind = "content")
      timings == SelectSeq(events, LAMBDA e : e.kind = "timings")
      measured == timings[Len(timings)]
      timed == timings # <<>>
  IN IF failed THEN [err |-> "Engine"]
     ELSE [err |-> "none",
           first_token |-> \E i \in DOMAIN events : events[i].kind \in {"content", "reasoning"},
           generated_tokens |-> IF timed THEN measured.predicted_n ELSE Len(deltas),
           cached_tokens |-> IF timed THEN measured.cached_n ELSE 0,
           prefilled_tokens |-> IF timed THEN measured.prompt_n ELSE 0,
           prefill_ms |-> IF timed THEN <<measured.prompt_ms>> ELSE <<>>,
           decode_ms |-> IF timed THEN <<measured.predicted_ms>> ELSE <<>>,
           engine_ticks |-> TicksBetween(before, after), machine_ticks |-> machine,
           peak_rss |-> IF after = <<>> THEN <<>> ELSE <<after[1].peak>>]

(* Rates are fractions: <<numerator, denominator>>, or <<>>. *)
CoresUsed(s, cores) ==
  IF s.engine_ticks = <<>> \/ s.machine_ticks \in {<<>>, <<0>>} \/ cores = 0 THEN <<>>
  ELSE <<s.engine_ticks[1] * cores, s.machine_ticks[1]>>
PrefillTokensPerSecond(s) ==
  IF s.prefill_ms \in {<<>>, <<0>>} \/ s.prefilled_tokens = 0 THEN <<>>
  ELSE <<s.prefilled_tokens * 1000, s.prefill_ms[1]>>
DecodeTokensPerSecond(s) ==
  IF s.decode_ms \in {<<>>, <<0>>} \/ s.generated_tokens <= 1 THEN <<>>
  ELSE <<s.generated_tokens * 1000, s.decode_ms[1]>>

-----------------------------------------------------------------------------
(* `hermes bench`: a sweep of slot counts and batch sizes, one engine each.  *)
Buckets(o) ==
  FlattenSeq([i \in DOMAIN o.parallel |->
                [j \in DOMAIN o.ubatch |-> [slots |-> o.parallel[i], ubatch |-> o.ubatch[j]]]])

PlanFor(o, slots) ==
  [prompt_tokens |-> o.prompt_tokens, generate_tokens |-> o.generate_tokens,
   repetitions |-> o.repetitions, concurrent |-> slots,
   scenarios |-> IF slots > 1 THEN Append(ALL_SCENARIOS, "concurrent_decode") ELSE ALL_SCENARIOS]

ParamsFor(o, m, available, bucket) ==
  LET params == [RuntimeParams EXCEPT !.kv = o.kv, !.n_ubatch = bucket.ubatch,
                                      !.n_parallel = MaxOf(bucket.slots, 1),
                                      !.n_batch = MaxOf(@, bucket.ubatch)]
      fitted == LargestSafeContextAgainst(m, params, BudgetOf(available), Headless)
  IN WithContext(params, IF o.n_ctx # <<>> THEN o.n_ctx[1] ELSE UnwrapOr(fitted, params.n_ctx))

(* measure_bucket up to the load: refused, or what was predicted. *)
MeasureBucket(m, params, available) ==
  LET predicted(e) ==
        IF ~IsAdmissible(e.verdict) THEN [err |-> "does not fit", predicted |-> <<>>]
        ELSE [err |-> "none",
              predicted |-> <<[weights |-> e.weights, kv_cache |-> e.kv_cache]>>]
  IN predicted(EstimateAgainst(m, params, BudgetOf(available), Headless))

(* The sweep stops at the first bucket that fails, and then saves nothing.   *)
Sweep(o, m, available) ==
  LET add(acc, params, measured, ran) ==
        IF measured.err # "none" THEN [acc EXCEPT !.err = measured.err]
        ELSE IF ran.err # "none" THEN [acc EXCEPT !.err = ran.err]
        ELSE [acc EXCEPT !.samples = @ \o [i \in 1..Len(FlattenSeq(ran.sent)) |->
                           [params |-> params, predicted |-> measured.predicted]]]
      under(acc, bucket, params) == add(acc, params, MeasureBucket(m, params, available),
                                        RunOf(PlanFor(o, bucket.slots), params))
      step(acc, bucket) == IF acc.err # "none" THEN acc
                           ELSE under(acc, bucket, ParamsFor(o, m, available, bucket))
      ended(swept) == IF swept.err = "none" /\ swept.samples = <<>>
                      THEN [swept EXCEPT !.err = "NothingMeasured"] ELSE swept
  IN ended(Through(step, [err |-> "none", samples |-> <<>>], Buckets(o)))

-----------------------------------------------------------------------------
(* The saved runs.  A directory entry: is its name an id, does it parse, and *)
(* when was it written.                                                      *)
IsWellFormed(entry) == entry.named
ParseRun(entry) == entry.parses

GetRun(directory, i) ==
  CASE ~IsWellFormed(directory[i]) -> "MalformedId"
    [] IsWellFormed(directory[i]) /\ ~ParseRun(directory[i]) -> "Read"
    [] OTHER -> "none"

ListRuns(directory) ==
  LET candidates == {i \in DOMAIN directory : IsWellFormed(directory[i])}
      sorted == SetToSortSeq(candidates, LAMBDA i, j : directory[i].at > directory[j].at)
      newest == SubSeq(sorted, 1, MinOf(LIST_LIMIT, Len(sorted)))
  IN SelectSeq(newest, LAMBDA i : ParseRun(directory[i]))

-----------------------------------------------------------------------------
(* What a benchmark promises. *)

(* Generations given an opening of their own share it with no other of the   *)
(* same scenario, so none of them finds its prompt in the prefix cache; and  *)
(* the cached scenario really repeats one prompt.                            *)
PromptsAreDistinct(plan, params) ==
  LET sent == FlattenSeq(RunOf(plan, params).sent)
  IN \A i, j \in DOMAIN sent :
       i # j /\ sent[i].scenario = sent[j].scenario =>
         (sent[i].prompt = sent[j].prompt
            <=> sent[i].scenario \in {"cached_prefill", "decode"})

(* The prompt that is used was counted at the length recorded for it, is     *)
(* within a fifth of what was asked for, is never longer than the ceiling    *)
(* allows, and nothing counted on the way was closer.                        *)
SizedIsCounted(target, counted) ==
  LET sized == SizedPrompt(target, counted)
  IN /\ sized.prompt.fillers \in 1..Fillers(Ceiling(target))
     /\ sized.prompt.tokens = counted[sized.prompt.fillers]
     /\ sized.err = "none" => Within(sized.prompt.tokens, target, 20)
     /\ \A n \in 0..(SIZING_ROUNDS - 1) :
          LET s == Sizing(target, counted)[n]
          IN ~s.done => Distance(sized.prompt.tokens, target)
                          <= Distance(counted[Fillers(s.words)], target)

(* A sweep that succeeds measured every bucket, each sample under parameters *)
(* the engine takes (a physical batch within the logical one) and with the   *)
(* exact terms of its own bucket, so that a fit subtracts the right ones.    *)
SweepIsWhole(o, m, available) ==
  \A swept \in {Sweep(o, m, available)} :
   LET pairs == {<<swept.samples[i].params.n_parallel, swept.samples[i].params.n_ubatch>> :
                  i \in DOMAIN swept.samples}
   IN swept.err = "none" =>
       /\ \A i \in DOMAIN Buckets(o) :
            <<MaxOf(Buckets(o)[i].slots, 1), Buckets(o)[i].ubatch>> \in pairs
       /\ \A i \in DOMAIN swept.samples :
            LET s == swept.samples[i]
            IN /\ s.params.n_ubatch <= s.params.n_batch
               /\ s.predicted[1].kv_cache = KvCacheBytes(m, s.params).kv.bytes
               /\ o.prompt_tokens < s.params.n_ctx

(* A listing is newest first, shows no run twice, and hides a readable run   *)
(* only behind LIST_LIMIT newer files.                                       *)
ListingIsNewest(directory) ==
  LET shown == ListRuns(directory)
      newer(i) == {j \in DOMAIN directory :
                     IsWellFormed(directory[j]) /\ directory[j].at > directory[i].at}
  IN /\ \A i, j \in DOMAIN shown : i < j => directory[shown[i]].at > directory[shown[j]].at
     /\ \A i \in DOMAIN directory :
          (\E n \in DOMAIN shown : shown[n] = i)
            <=> GetRun(directory, i) = "none" /\ Cardinality(newer(i)) < LIST_LIMIT

(* A broken stream yields no sample.  A rate is reported only from timings   *)
(* the engine gave, the last it gave, and never divides by zero; cores are   *)
(* reported only between two readings of a counter that did not run back.    *)
SampleIsMeasured(events, before, after, machine, cores) ==
  LET s == OneWith(events, before, after, machine)
      timings == {i \in DOMAIN events : events[i].kind = "timings"}
      rates == {PrefillTokensPerSecond(s), DecodeTokensPerSecond(s), CoresUsed(s, cores)} \ {<<>>}
  IN IF \E i \in DOMAIN events : events[i].kind = "error" THEN s.err = "Engine"
     ELSE /\ \A rate \in rates : rate[2] > 0
          /\ PrefillTokensPerSecond(s) # <<>> =>
               \E i \in timings : /\ \A j \in timings : j <= i
                                  /\ PrefillTokensPerSecond(s)[1] = events[i].prompt_n * 1000
          /\ CoresUsed(s, cores) # <<>> =>
               before # <<>> /\ after # <<>> /\ after[1].ticks >= before[1].ticks

(* What all_at_once's comment says of its prompts: no two generations        *)
(* anywhere in the run share a prefix.                                       *)
NoSharedPrefix(plan, params) ==
  LET sent == FlattenSeq(RunOf(plan, params).sent)
  IN \A i, j \in DOMAIN sent :
       i # j /\ sent[i].scenario = "concurrent_decode" => sent[i].prompt # sent[j].prompt
=============================================================================

-------------------------------- MODULE Enr --------------------------------
(***************************************************************************)
(* Node records: encode and decode of src/src/serde/enr.cpp, with the RLP  *)
(* codec they use.  The generator of a genesis directory writes records    *)
(* and every node reads them to find its peers.                            *)
(*                                                                         *)
(* Abstractions.  Bytes are numbers up to 255 and keep the lengths of the  *)
(* code, since RLP depends on them; names of fields are two bytes.  Base64 *)
(* and the cryptography are external: a signature is a function of key and *)
(* signed content.                                                         *)
(***************************************************************************)
EXTENDS Naturals, Sequences
LOCAL INSTANCE SequencesExt

CONSTANTS EnrRecords,  \* records to encode
          ByteStrings  \* byte strings to encode

VARIABLES enr,   \* the record: encoded by one node, decoded by another
          text,  \* the list that was encoded
          read   \* what decoding it gives

enVars == <<enr, text, read>>

MaxPrefix1 == 55
BytesPrefix == 128
ListPrefix == 192

-----------------------------------------------------------------------------
(* rlp::Encoder. *)

\* the bytes of a number, the highest first, without leading zeros
BigEndian(v) ==
  LET bytes[n \in 0 .. v] == IF n = 0 THEN << >> ELSE Append(bytes[n \div 256], n % 256)
  IN  bytes[v]

\* EncodeBuffer::bytesInternal
Prefix(base, n) ==
  IF n <= MaxPrefix1 THEN <<base + n>>
  ELSE <<base + MaxPrefix1 + Len(BigEndian(n))>> \o BigEndian(n)

EncodeUint(v) ==
  IF 0 < v /\ v < BytesPrefix THEN <<v>>
  ELSE <<BytesPrefix + Len(BigEndian(v))>> \o BigEndian(v)

EncodeBytes(b) ==
  IF Len(b) = 1 /\ b[1] < BytesPrefix THEN b ELSE Prefix(BytesPrefix, Len(b)) \o b

EncodeList(items) == Prefix(ListPrefix, Len(items)) \o items

-----------------------------------------------------------------------------
(* rlp::Decoder: each function takes the input and returns value and rest. *)

Invalid == [ok |-> FALSE, value |-> << >>, rest |-> << >>]

Take(input, n) ==
  IF n > Len(input) THEN Invalid
  ELSE [ok |-> TRUE, value |-> SubSeq(input, 1, n),
        rest |-> SubSeq(input, n + 1, Len(input))]

Number(be) == FoldLeft(LAMBDA v, x : v * 256 + x, 0, be)

\* Mutant: the longest string with a short prefix is taken for a long one.
BytesInternalBelow(base, input) ==
  IF input[1] < base THEN Invalid
  ELSE IF input[1] < base + MaxPrefix1 THEN Take(Tail(input), input[1] - base)
  ELSE LET size == Take(Tail(input), input[1] - base - MaxPrefix1)
       IN  IF size.ok THEN Take(size.rest, Number(size.value)) ELSE Invalid

BytesInternal(base, input) ==
  IF input[1] < base THEN Invalid
  ELSE IF input[1] <= base + MaxPrefix1 THEN Take(Tail(input), input[1] - base)
  ELSE LET size == Take(Tail(input), input[1] - base - MaxPrefix1)
       IN  IF size.ok THEN Take(size.rest, Number(size.value)) ELSE Invalid

DecodeList(input) ==
  IF input = << >> THEN Invalid ELSE BytesInternal(ListPrefix, input)

DecodeBytes(input) ==
  IF input = << >> \/ input[1] >= ListPrefix THEN Invalid
  ELSE IF input[1] < BytesPrefix THEN Take(input, 1)
  ELSE BytesInternal(BytesPrefix, input)

\* bytes_n: a string of exactly n bytes
DecodeArray(n, input) ==
  LET b == DecodeBytes(input) IN IF b.ok /\ Len(b.value) = n THEN b ELSE Invalid

\* uint: no more bytes than the type has
DecodeUint(width, input) ==
  LET b == DecodeBytes(input)
  IN  IF b.ok /\ Len(b.value) <= width
      THEN [b EXCEPT !.value = Number(b.value)] ELSE Invalid

DecodeBool(input) ==
  LET b == DecodeUint(1, input)
  IN  IF b.ok /\ b.value \in {0, 1} THEN [b EXCEPT !.value = IF b.value = 1 THEN "yes" ELSE "no"] ELSE Invalid

SkipItem(input) ==
  IF input[1] >= ListPrefix THEN DecodeList(input) ELSE DecodeBytes(input)

\* keyValue: names with the input their value begins at; emplace keeps the first
\* of two equal names
DecodeFields(input) ==
  LET suffix(n) == SubSeq(input, Len(input) - n + 1, Len(input))
      fields[n \in 0 .. Len(input)] ==
        IF n = 0 THEN [ok |-> TRUE, value |-> [k \in {} |-> << >>]]
        ELSE LET name == DecodeBytes(suffix(n))
                 value == IF name.ok /\ name.rest # << >> THEN SkipItem(name.rest)
                          ELSE Invalid
                 others == fields[Len(value.rest)]
             IN  IF ~value.ok \/ ~others.ok
                 THEN [ok |-> FALSE, value |-> [k \in {} |-> << >>]]
                 ELSE [ok |-> TRUE,
                       value |-> [k \in DOMAIN others.value \cup {name.value} |->
                                    IF k = name.value THEN name.rest ELSE others.value[k]]]
  IN  fields[Len(input)]

-----------------------------------------------------------------------------
(* Records. *)

None == "none"
Name(field) ==
  CASE field = "id" -> <<105, 100>> [] field = "v4" -> <<118, 52>>
    [] field = "ip" -> <<105, 112>> [] field = "is_aggregator" -> <<105, 115>>
    [] field = "quic" -> <<113, 117>> [] field = "secp256k1" -> <<115, 101>>

\* external: signCompact, a signature of 64 bytes
Sign(key, content) ==
  [i \in 1 .. 64 |-> (key[1 + (i % Len(key))] + content[1 + (i % Len(content))] + Len(content)) % 256]

Flag(r) ==
  IF r.aggregator = None THEN << >>
  ELSE EncodeBytes(Name("is_aggregator")) \o EncodeUint(IF r.aggregator = "yes" THEN 1 ELSE 0)

EncodeContent(r) ==
  EncodeUint(r.sequence)
    \o EncodeBytes(Name("id")) \o EncodeBytes(Name("v4"))
    \o EncodeBytes(Name("ip")) \o EncodeBytes(r.ip)
    \o Flag(r)
    \o EncodeBytes(Name("quic")) \o EncodeUint(r.port)
    \o EncodeBytes(Name("secp256k1")) \o EncodeBytes(r.key)

Encode(r) ==
  EncodeList(EncodeBytes(Sign(r.key, EncodeList(EncodeContent(r)))) \o EncodeContent(r))

Decode(input) ==
  LET list == DecodeList(input)
      signature == DecodeArray(64, list.value)
      sequence == DecodeUint(8, signature.rest)
      fields == DecodeFields(sequence.rest)
      \* a field that may be missing; one that is there must decode
      Field(field, decoded(_), missing) ==
        IF Name(field) \in DOMAIN fields.value THEN decoded(fields.value[Name(field)])
        ELSE missing
      none == [ok |-> TRUE, value |-> None]
      id == Field("id", DecodeBytes, Invalid)
      ip == Field("ip", LAMBDA f : DecodeArray(4, f), none)
      key == Field("secp256k1", LAMBDA f : DecodeArray(33, f), Invalid)
      port == Field("quic", LAMBDA f : DecodeUint(2, f), none)
      flag == Field("is_aggregator", DecodeBool, none)
  IN  IF /\ list.ok /\ signature.ok /\ sequence.ok /\ fields.ok
         /\ id.ok /\ id.value = Name("v4")
         /\ ip.ok /\ key.ok /\ port.ok /\ flag.ok
         /\ signature.value = Sign(key.value, EncodeList(signature.rest))
      THEN [sequence |-> sequence.value, ip |-> ip.value, port |-> port.value,
            key |-> key.value, aggregator |-> flag.value]
      ELSE Invalid

-----------------------------------------------------------------------------

enInit == enr \in EnrRecords /\ text = << >> /\ read = << >>

WriteRecord ==
  /\ text = << >>
  /\ text' = Encode(enr)
  /\ UNCHANGED <<enr, read>>

ReadRecord ==
  /\ text # << >> /\ read = << >>
  /\ read' = Decode(text)
  /\ UNCHANGED <<enr, text>>

enNext == WriteRecord \/ ReadRecord

-----------------------------------------------------------------------------
(* Properties. *)

\* A record that was encoded decodes to the same record, and its signature is
\* valid: decode rebuilds the signed content from what is left of the list.
RecordReadBack == read # << >> => read = enr

\* Strings and numbers of every form of RLP are read back, and nothing of what
\* follows them is taken: at the longest short string, at a byte below and above
\* 0x80, and at the empty string, which is also zero.
RlpReadBack ==
  text # << >> => \A b \in ByteStrings :
    /\ DecodeBytes(EncodeBytes(b) \o text) = [ok |-> TRUE, value |-> b, rest |-> text]
    /\ DecodeList(EncodeList(EncodeBytes(b)) \o text)
         = [ok |-> TRUE, value |-> EncodeBytes(b), rest |-> text]
    /\ LET v == Number(SubSeq(b, 1, IF Len(b) < 3 THEN Len(b) ELSE 3))
       IN  DecodeUint(3, EncodeUint(v) \o text) = [ok |-> TRUE, value |-> v, rest |-> text]
=============================================================================

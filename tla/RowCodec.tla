------------------------------ MODULE RowCodec ------------------------------
(***************************************************************************)
(* The stream event payload of Writer::send_event(key, value)             *)
(* (src/hecuba_core/src/Writer.cpp 238-282): the buffer it sizes from the *)
(* content sizes and null bitmaps of the two rows, and fills with the key *)
(* encoding at offset 0 and the value encoding after it.  The encoder and *)
(* get_content_sizes belong to TupleRowFactory, which is not under src/,  *)
(* and are the wire format of spec.md section 6: one 32-bit null-bitmap   *)
(* word per 32 columns (bit i set: column i is null and has no bytes),    *)
(* then the non-null columns packed in schema order.                      *)
(*                                                                         *)
(* A schema is the sequence of its columns' byte widths; a row is given   *)
(* by its set of null columns.  Every byte is a tuple naming the part     *)
(* (key or value) and what it encodes, so a byte in the wrong place, a    *)
(* gap or an overlap changes the payload.                                 *)
(***************************************************************************)
EXTENDS Integers, Sequences, SequencesExt

Junk == <<"junk", "junk", 0, {}>>   \* malloc'd memory nothing has written

(* Number of 32-bit bitmap words for n columns, as spec.md section 6      *)
(* defines it.                                                            *)
BitmapWords(n) == (n + 31) \div 32

(* TupleRowFactory::encode: bitmap bytes (byte j holds the null bits of   *)
(* columns 8(j-1)+1 .. 8j), then each non-null column's bytes.            *)
Encode(part, schema, nulls) ==
    [j \in 1..4 * BitmapWords(Len(schema)) |->
        <<part, "bitmap", j, {i \in nulls : (i - 1) \div 8 = j - 1}>>]
    \o FlattenSeq([i \in 1..Len(schema) |->
                     IF i \in nulls THEN << >>
                     ELSE [b \in 1..schema[i] |-> <<part, "column", i, {b}>>]])

(* TupleRowFactory::get_content_sizes: a null column has no bytes.        *)
ContentSizes(schema, nulls) ==
    [i \in 1..Len(schema) |-> IF i \in nulls THEN 0 ELSE schema[i]]

SumSizes(sizes) == FoldLeft(LAMBDA a, b : a + b, 0, sizes)

(* The wire format: key bitmap, key columns, value bitmap, value columns. *)
WireFormat(ks, kn, vs, vn) == Encode("key", ks, kn) \o Encode("value", vs, vn)

-----------------------------------------------------------------------------
(* Mutant: the bitmap size rounded down.                                  *)
NullValuesSizeFloor(n) == (n \div 32) * 4

(* keynullvalues_size / valuenullvalues_size:                             *)
(* std::ceil(((double)n_elem)/32)*sizeof(uint32_t); exact in a double for *)
(* any column count.                                                      *)
NullValuesSize(n) == (IF n % 32 = 0 THEN n \div 32 ELSE n \div 32 + 1) * 4

(* memcpy-like write of data into buf at a 0-based offset; bytes past    *)
(* the end of the allocation are a heap overflow.                         *)
WriteAt(buf, off, data) ==
    [bytes |-> [i \in 1..Len(buf.bytes) |->
                  IF i - off \in 1..Len(data) THEN data[i - off]
                                               ELSE buf.bytes[i]],
     overflow |-> buf.overflow \/ off + Len(data) > Len(buf.bytes)]

(* Writer::send_event on two TupleRow pointers: sum the content          *)
(* sizes, add both bitmap sizes, malloc row_size bytes, encode the key at *)
(* 0 and the value at key_size + keynullvalues_size, and publish row_size *)
(* bytes.                                                                 *)
EventPayload(ks, kn, vs, vn) ==
    LET keySize == SumSizes(ContentSizes(ks, kn))
        keyNull == NullValuesSize(Len(ks))
        rowSize == keySize + SumSizes(ContentSizes(vs, vn))
                   + keyNull + NullValuesSize(Len(vs))
        buf0 == [bytes |-> [i \in 1..rowSize |-> Junk], overflow |-> FALSE]
        buf1 == WriteAt(buf0, 0, Encode("key", ks, kn))
    IN WriteAt(buf1, keySize + keyNull, Encode("value", vs, vn))

====

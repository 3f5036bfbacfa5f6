----------------------------- MODULE RecordCodec -----------------------------
(***************************************************************************)
(* How records become cells and are read back (adabt-storage codec.rs), and *)
(* what a sequence of schema changes makes of the cells already stored     *)
(* (HeapStore::alter_schema): some changes rewrite every record, some only *)
(* change how the stored ones are read.  A collection may also be frozen   *)
(* into the schema its rows suggest (adabt-engine infer.rs), and the       *)
(* schema itself is written down and read back (adabt-storage catalog.rs). *)
(* The direct array of a Fixed collection (adabt-engine direct.rs) is a    *)
(* second reader of the layout.                                            *)
(*                                                                         *)
(* A buffer is a sequence of numbers, one per unit of layout: the header's *)
(* flags, a presence bitmap of BitsPerCell fields a cell, a cell for an    *)
(* integer, two for a short text (length, content), a cell per table entry *)
(* or count, two for a tagged value.  Integers have 2 * IntMax values.     *)
(***************************************************************************)
EXTENDS Integers, Sequences, FiniteSets, SequencesExt

CONSTANTS
    Ids, None,
    MaxName,        \* names are 1..MaxName, in the order records keep them
    Schemas,        \* the schemas a collection may be given
    Records,        \* the records offered to it
    IntMax, BitsPerCell

\* What the constants must satisfy; a module that gives them values assumes it.
CodecAssumption ==
    /\ MaxName \in Nat /\ IntMax \in Nat \ {0} /\ BitsPerCell \in Nat \ {0}
    /\ IsFiniteSet(Schemas) /\ IsFiniteSet(Records)

VARIABLES
    schema,     \* the collection's schema
    stored,     \* id -> its cells, or None
    array,      \* the direct array (id -> cells), or None
    truth,      \* ghost: id -> the record as it was last written or projected
    spoiled     \* ghost: rows written with an integer out of its field's range, or
                \* edited in place in one of the two ways that change what they say

codecvars == <<schema, stored, array, truth, spoiled>>

Names == 1..MaxName
Corruption == [t |-> "corruption", n |-> 0]
NoRecord == [f \in Names |-> None]
FieldNames(s) == {s.fields[i].name : i \in DOMAIN s.fields}
Present(rec) == {f \in Names : rec[f] # None}
InOrder(fs) == SelectSeq([f \in Names |-> f], LAMBDA f : f \in fs)
Slice(buf, at, n) == SubSeq(buf, at + 1, at + n)     \* from a zero-based offset

\* What a stored number means, however it is written.
Logical(v) == IF v # None /\ v.t \in {"i64", "u64"} THEN [t |-> "num", n |-> v.n] ELSE v
SameRecord(a, b) == \A f \in Names : Logical(a[f]) = Logical(b[f])

-----------------------------------------------------------------------------
\* Schemas

\* A char's slot is as wide as its longest text and its length.
CharCapacity == [char |-> 1, wide |-> 2, wider |-> 3]
Chars == DOMAIN CharCapacity

fixed_width(ty) == IF ty \in {"i64", "u64"} THEN 1 ELSE IF ty \in Chars THEN 2 ELSE 0
rigidity == [dynamic |-> 0, declared |-> 1, strict |-> 2, fixed |-> 3]
allows_extra_fields(s) == s.mode \in {"dynamic", "declared"}

accepts(ty, v) ==
    \/ ty = "i64" /\ v.t \in {"i64", "u64"}
    \/ ty = "u64" /\ (v.t = "u64" \/ (v.t = "i64" /\ v.n >= 0))
    \/ ty \in Chars \cup {"str"} /\ v.t = "str"

\* The texts are the empty one, 0, two of one unit, and one of two, which is too
\* wide for the slot of a char of one.
TextLen(v) == IF v.n = 0 THEN 0 ELSE IF v.n = 3 THEN 2 ELSE 1
Fits(ty, v) == accepts(ty, v) /\ (ty \in Chars => TextLen(v) <= CharCapacity[ty])

\* What Schema::new admits.
validate(s) ==
    /\ s.mode # "dynamic" => s.fields # <<>>
    /\ IsInjective([i \in DOMAIN s.fields |-> s.fields[i].name])
    /\ s.mode = "fixed" => \A i \in DOMAIN s.fields : fixed_width(s.fields[i].ty) > 0

\* An integer its field's cell can hold.
InRange(s, rec) ==
    \A i \in DOMAIN s.fields :
        LET v == rec[s.fields[i].name] IN
        (s.fields[i].ty = "i64" /\ v # None) => v.n < IntMax

validate_record(s, rec) ==
    /\ allows_extra_fields(s) \/ Present(rec) \subseteq FieldNames(s)
    /\ \A i \in DOMAIN s.fields :
         LET f == s.fields[i] IN
         IF rec[f.name] = None THEN f.nullable ELSE Fits(f.ty, rec[f.name])

project_onto_schema(s, rec) ==
    IF allows_extra_fields(s) THEN rec
    ELSE [f \in Names |-> IF f \in FieldNames(s) THEN rec[f] ELSE None]

bitmap_len(s) == (Len(s.fields) + BitsPerCell - 1) \div BitsPerCell

\* The rule without its last clause.
editable_past_bitmap(old, new) ==
    LET of == old.fields nf == new.fields IN
    /\ old.mode = new.mode
    /\ \/ /\ old.mode = "fixed"
          /\ \/ Len(nf) = Len(of) + 1 /\ Front(nf) = of /\ Last(nf).nullable
             \/ Len(of) = Len(nf) + 1 /\ Front(of) = nf
       \/ /\ old.mode = "strict"
          /\ Len(of) = Len(nf) + 1 /\ Front(of) = nf /\ fixed_width(Last(of).ty) = 0

schema_editable_in_place(old, new) ==
    LET of == old.fields nf == new.fields IN
    /\ old.mode = new.mode
    /\ \/ /\ old.mode = "fixed"
          /\ \/ /\ Len(nf) = Len(of) + 1 /\ Front(nf) = of
                /\ Last(nf).nullable /\ bitmap_len(new) = bitmap_len(old)
             \/ Len(of) = Len(nf) + 1 /\ Front(of) = nf
       \/ /\ old.mode = "strict"
          /\ Len(of) = Len(nf) + 1 /\ Front(of) = nf /\ fixed_width(Last(of).ty) = 0

-----------------------------------------------------------------------------
\* Values

\* An integer's cell keeps its low bits; a text's slot keeps its length beside its content.
write_fixed_slot(ty, v) ==
    IF ty \in Chars THEN <<TextLen(v), v.n>> ELSE <<v.n % (2 * IntMax)>>

read_fixed_field(ty, cells) ==
    LET bits == cells[1] % (2 * IntMax) IN
    IF ty = "u64" THEN [t |-> "u64", n |-> bits]
    ELSE IF ty = "i64" THEN [t |-> "i64", n |-> IF bits >= IntMax THEN bits - 2 * IntMax ELSE bits]
    ELSE IF cells[1] > CharCapacity[ty] THEN Corruption
    ELSE [t |-> "str", n |-> IF cells[1] = 0 THEN 0 ELSE cells[2]]

zigzag(n) == IF n >= 0 THEN 2 * n ELSE -2 * n - 1
unzigzag(z) == IF z % 2 = 0 THEN z \div 2 ELSE -((z + 1) \div 2)

write_tlv_value(v) ==
    IF v.t = "i64" THEN <<3, zigzag(v.n)>> ELSE IF v.t = "u64" THEN <<4, v.n>> ELSE <<6, v.n>>

read_tlv_value(cells) ==
    IF Len(cells) < 2 THEN Corruption
    ELSE IF cells[1] = 3 THEN [t |-> "i64", n |-> unzigzag(cells[2])]
    ELSE IF cells[1] = 4 THEN [t |-> "u64", n |-> cells[2]]
    ELSE IF cells[1] = 6 THEN [t |-> "str", n |-> cells[2]]
    ELSE Corruption

-----------------------------------------------------------------------------
\* Layout

Fixed(s) == SelectSeq([i \in DOMAIN s.fields |-> i], LAMBDA i : fixed_width(s.fields[i].ty) > 0)
Variable(s) == SelectSeq([i \in DOMAIN s.fields |-> i], LAMBDA i : fixed_width(s.fields[i].ty) = 0)
WidthBefore(s, i) ==
    FoldLeft(+, 0, [k \in 1..(i - 1) |-> fixed_width(s.fields[k].ty)])
fixed_offset(s, i) == WidthBefore(s, i)
fixed_region_len(s) == WidthBefore(s, Len(s.fields) + 1)
fixed_at(s) == 1 + bitmap_len(s)
table_at(s) == fixed_at(s) + fixed_region_len(s)

bit_get(buf, i) == (buf[2 + (i - 1) \div BitsPerCell] \div 2^((i - 1) % BitsPerCell)) % 2 = 1

Bitmap(s, rec) ==
    [c \in 1..bitmap_len(s) |->
        FoldLeft(+, 0, [b \in 1..BitsPerCell |->
            LET i == (c - 1) * BitsPerCell + b IN
            IF i \in DOMAIN s.fields /\ rec[s.fields[i].name] # None THEN 2^(b - 1) ELSE 0])]

Named(rec, fs) ==
    FlattenSeq([k \in DOMAIN InOrder(fs) |-> <<InOrder(fs)[k]>> \o write_tlv_value(rec[InOrder(fs)[k]])])

FixedRegion(s, rec) ==
    FlattenSeq([k \in DOMAIN Fixed(s) |->
        LET f == s.fields[Fixed(s)[k]] IN
        IF rec[f.name] # None THEN write_fixed_slot(f.ty, rec[f.name])
        ELSE [c \in 1..fixed_width(f.ty) |-> 0]])

Variables(s, rec) ==
    [k \in DOMAIN Variable(s) |->
        LET f == s.fields[Variable(s)[k]] IN
        IF rec[f.name] # None THEN write_tlv_value(rec[f.name]) ELSE <<>>]

\* Where each variable field starts, and where the last one ends.
Table(s, rec) ==
    LET vs == Variables(s, rec) IN
    [k \in 1..(Len(vs) + 1) |->
        table_at(s) + Len(vs) + 1 + Len(FlattenSeq(SubSeq(vs, 1, k - 1)))]

Overflow(s, rec) ==
    IF allows_extra_fields(s) THEN Present(rec) \ FieldNames(s) ELSE {}

encode(s, rec) ==
    IF s.mode = "dynamic" THEN <<0, Cardinality(Present(rec))>> \o Named(rec, Present(rec))
    ELSE LET extra == Overflow(s, rec)
             prefix == <<IF extra # {} THEN 1 ELSE 0>> \o Bitmap(s, rec) \o FixedRegion(s, rec)
         IN IF s.mode = "fixed" THEN prefix
            ELSE prefix \o Table(s, rec) \o FlattenSeq(Variables(s, rec))
                 \o (IF extra # {} THEN <<Cardinality(extra)>> \o Named(rec, extra) ELSE <<>>)

-----------------------------------------------------------------------------
\* Reading

\* The named values from an offset on, each a name and a tagged value.
ReadNamed(buf, at) ==
    LET n == buf[at + 1] IN
    [f \in Names |->
        LET ks == {k \in 1..n : Len(buf) >= at + 3 * k - 1 /\ buf[at + 3 * k - 1] = f} IN
        IF ks = {} THEN None
        ELSE read_tlv_value(Slice(buf, at + 3 * (CHOOSE k \in ks : TRUE) - 1, 2))]

Entry(s, buf, k) == buf[table_at(s) + k]
TableReads(s, buf) ==
    LET entries == Len(Variable(s)) + 1 IN
    /\ table_at(s) + entries <= Len(buf)
    /\ \A k \in 1..(entries - 1) : Entry(s, buf, k) <= Entry(s, buf, k + 1)
    /\ Entry(s, buf, entries) <= Len(buf)

\* One declared field of the layout, None when its bit is unset.
FixedField(s, buf, i) ==
    LET at == fixed_at(s) + fixed_offset(s, i)
        w == fixed_width(s.fields[i].ty)
    IN IF at + w > Len(buf) THEN Corruption ELSE read_fixed_field(s.fields[i].ty, Slice(buf, at, w))
VariableField(s, buf, i) ==
    LET k == CHOOSE k \in DOMAIN Variable(s) : Variable(s)[k] = i
        lo == Entry(s, buf, k)
        hi == Entry(s, buf, k + 1)
    IN IF lo > hi \/ hi > Len(buf) THEN Corruption ELSE read_tlv_value(Slice(buf, lo, hi - lo))

Declared(s, buf, f) ==
    LET i == CHOOSE i \in DOMAIN s.fields : s.fields[i].name = f IN
    IF ~bit_get(buf, i) THEN None
    ELSE IF fixed_width(s.fields[i].ty) > 0 THEN FixedField(s, buf, i)
    ELSE VariableField(s, buf, i)

\* A record, or Corruption.
Whole(rec) == IF \E f \in Names : rec[f] = Corruption THEN Corruption ELSE rec
decode(s, buf) ==
    IF s.mode = "dynamic" THEN Whole(ReadNamed(buf, 1))
    ELSE IF Len(buf) < fixed_at(s) \/ (s.mode # "fixed" /\ ~TableReads(s, buf)) THEN Corruption
    ELSE Whole([f \in Names |->
           IF f \in FieldNames(s) THEN Declared(s, buf, f)
           ELSE IF buf[1] = 1 /\ s.mode # "fixed"
                THEN ReadNamed(buf, Entry(s, buf, Len(Variable(s)) + 1))[f]
           ELSE None])

\* One field without the rest; a name the schema does not declare is not looked for.
peek_field(s, buf, f) ==
    IF s.mode = "dynamic" THEN ReadNamed(buf, 1)[f]
    ELSE IF f \notin FieldNames(s) THEN None
    ELSE IF Len(buf) < fixed_at(s) THEN Corruption
    ELSE LET i == CHOOSE i \in DOMAIN s.fields : s.fields[i].name = f IN
         IF /\ bit_get(buf, i) /\ fixed_width(s.fields[i].ty) = 0
            /\ table_at(s) + Len(Variable(s)) + 1 > Len(buf)
         THEN Corruption ELSE Declared(s, buf, f)

-----------------------------------------------------------------------------
\* A schema in the catalog

write_type(ty) ==
    IF ty \in Chars THEN <<4, CharCapacity[ty]>>
    ELSE IF ty = "str" THEN <<6, 0>> ELSE IF ty = "u64" THEN <<2>> ELSE <<1>>

encode_schema(s) ==
    <<rigidity[s.mode], Len(s.fields)>>
    \o FlattenSeq([i \in DOMAIN s.fields |->
           LET f == s.fields[i] IN <<f.name, IF f.nullable THEN 1 ELSE 0>> \o write_type(f.ty)])

\* The type at a position, and the position after it.
read_type(cells, at) ==
    IF cells[at] = 4
    THEN [ty |-> CHOOSE ty \in Chars : CharCapacity[ty] = cells[at + 1], next |-> at + 2]
    ELSE IF cells[at] = 6 THEN [ty |-> "str", next |-> at + 2]
    ELSE [ty |-> IF cells[at] = 2 THEN "u64" ELSE "i64", next |-> at + 1]

decode_schema(cells) ==
    LET one(r, i) ==
            LET read == read_type(cells, r.at + 2) IN
            [at |-> read.next,
             fields |-> Append(r.fields, [name |-> cells[r.at], ty |-> read.ty,
                                          nullable |-> cells[r.at + 1] = 1])]
    IN [mode |-> CHOOSE mode \in DOMAIN rigidity : rigidity[mode] = cells[1],
        fields |-> FoldLeft(one, [at |-> 3, fields |-> <<>>], [i \in 1..cells[2] |-> i]).fields]

-----------------------------------------------------------------------------
\* The collection

physical_record_size(s) == fixed_at(s) + fixed_region_len(s)

Rows == {id \in Ids : stored[id] # None}
Row(id) == decode(schema, stored[id])

\* put_encoded and remove.
ArrayPut(id, buf) ==
    array' = IF array = None THEN None ELSE [array EXCEPT ![id] = buf]

put(id, rec) ==
    /\ validate_record(schema, rec)
    /\ stored' = [stored EXCEPT ![id] = encode(schema, rec)]
    /\ ArrayPut(id, encode(schema, rec))
    /\ truth' = [truth EXCEPT ![id] = rec]
    /\ spoiled' = IF InRange(schema, rec) THEN spoiled \ {id} ELSE spoiled \cup {id}
    /\ UNCHANGED schema

delete(id) ==
    /\ stored[id] # None
    /\ stored' = [stored EXCEPT ![id] = None]
    /\ ArrayPut(id, None)
    /\ truth' = [truth EXCEPT ![id] = NoRecord]
    /\ spoiled' = spoiled \ {id}
    /\ UNCHANGED schema

\* A catalog edit: the stored cells stay.
alter_in_place(new) ==
    /\ schema_editable_in_place(schema, new)
    /\ schema' = new /\ array' = None
    /\ truth' = [id \in Ids |-> project_onto_schema(new, truth[id])]
    /\ spoiled' =
         IF Len(new.fields) < Len(schema.fields)
         THEN IF bitmap_len(new) < bitmap_len(schema) THEN Rows ELSE spoiled
         ELSE spoiled \cup {id \in Rows : bit_get(stored[id], Len(new.fields))}
    /\ UNCHANGED stored

\* Every row projected, checked, and encoded anew.
alter_by_rewriting(new) ==
    /\ ~schema_editable_in_place(schema, new)
    /\ \A id \in Rows : Row(id) # Corruption /\ validate_record(new, project_onto_schema(new, Row(id)))
    /\ schema' = new /\ array' = None
    /\ stored' = [id \in Ids |->
           IF id \in Rows THEN encode(new, project_onto_schema(new, Row(id))) ELSE None]
    /\ truth' = [id \in Ids |-> project_onto_schema(new, truth[id])]
    /\ spoiled' = spoiled \cup {id \in Rows : ~InRange(new, project_onto_schema(new, Row(id)))}

\* The one type all values seen in a field have; None when they disagree.
Headroom == 1
width_for(content) == CHOOSE ty \in Chars : CharCapacity[ty] = content
settled_type(values) ==
    LET kinds == {v.t : v \in values} IN
    IF kinds = {"u64"} THEN "u64"
    ELSE IF kinds \subseteq {"i64", "u64"} THEN "i64"
    ELSE IF kinds = {"str"} THEN width_for(Headroom + Max({TextLen(v) : v \in values}))
    ELSE None

\* The most rigid schema some records support.
infer(records) ==
    LET seen == UNION {Present(rec) : rec \in records}
        ty == [f \in seen |-> settled_type({rec[f] : rec \in records} \ {None})]
        frozen == InOrder({f \in seen : ty[f] # None})
        fields == [k \in DOMAIN frozen |->
            [name |-> frozen[k], ty |-> ty[frozen[k]],
             nullable |-> \E rec \in records : rec[frozen[k]] = None]]
    IN [mode |-> IF fields = <<>> THEN "dynamic"
                 ELSE IF Len(frozen) = Cardinality(seen) THEN "fixed" ELSE "declared",
        fields |-> fields]

\* Only ever towards more rigidity.
freeze_schema ==
    LET records == {Row(id) : id \in Rows}
        inferred == infer(records)
    IN /\ Corruption \notin records
       /\ rigidity[inferred.mode] > rigidity[schema.mode]
       /\ alter_by_rewriting(inferred)

\* The catalog's schema is read back, and what is built on demand is gone.
reopen ==
    /\ schema' = decode_schema(encode_schema(schema))
    /\ array' = None
    /\ UNCHANGED <<stored, truth, spoiled>>

\* DirectArray::rebuild, from the rows.
build_array ==
    /\ schema.mode = "fixed" /\ array = None
    /\ \A id \in Rows : Row(id) # Corruption
    /\ array' = [id \in Ids |-> IF id \in Rows THEN encode(schema, Row(id)) ELSE None]
    /\ UNCHANGED <<schema, stored, truth, spoiled>>

\* DirectArray::field_at: an address, from the schema alone.
field_at(id, f) ==
    IF array[id] = None \/ f \notin FieldNames(schema) THEN None
    ELSE Declared(schema, array[id], f)

\* The storage engine's reads of some of a record's fields, and the executor's filter
\* over them.
get_projected(id, fs) ==
    [f \in Names |-> IF f \in fs THEN peek_field(schema, stored[id], f) ELSE None]
filter_by_peek(f, v) == {id \in Rows : peek_field(schema, stored[id], f) = v}
filter(f, v) == {id \in Rows : Row(id)[f] = v}

CodecInit ==
    /\ schema \in Schemas
    /\ stored = [id \in Ids |-> None] /\ array = None
    /\ truth = [id \in Ids |-> NoRecord] /\ spoiled = {}

CodecNext ==
    \/ \E id \in Ids, rec \in Records : put(id, rec)
    \/ \E id \in Ids : delete(id)
    \/ \E new \in Schemas : new # schema /\ (alter_in_place(new) \/ alter_by_rewriting(new))
    \/ freeze_schema
    \/ reopen
    \/ build_array

CodecSpec == CodecInit /\ [][CodecNext]_codecvars

-----------------------------------------------------------------------------
\* Properties

\* The schema is one Schema::new admits, cells are numbers, a Fixed collection's records all have the one size its schema
\* gives (RecordCodec::physical_record_size, which the direct array's stride is), and
\* only a Fixed collection has an array.
CodecTypeOK ==
    /\ validate(schema) /\ spoiled \subseteq Ids
    /\ \A id \in Ids : stored[id] = None \/ stored[id] \in Seq(Nat)
    /\ array # None =>
         /\ schema.mode = "fixed"
         /\ \A id \in Ids : array[id] = None \/ Len(array[id]) = physical_record_size(schema)

\* A record reads back as it was written or as the last schema change left it,
\* whichever mixture of in-place edits and rewrites lies between (RecordCodec::encode,
\* decode_with_header, HeapStore::alter_schema).
RecordsReadBack ==
    \A id \in Rows \ spoiled : Row(id) # Corruption /\ SameRecord(Row(id), truth[id])

\* What the schema demands of a record, every stored row satisfies, including rows that
\* were stored before the schema demanded it (Schema::validate_record).
RowsFitSchema ==
    \A id \in Rows \ spoiled :
        Row(id) # Corruption /\ validate_record(schema, project_onto_schema(schema, Row(id)))

\* Reading some fields agrees with decoding the record, for every declared name, and for
\* every name where all are declared (RecordCodec::peek_field and peek_fields, which
\* filters and projections use in place of decode).
PeekMatchesDecode ==
    \A id \in Rows \ spoiled :
        \A fs \in SUBSET (IF schema.mode = "declared" THEN FieldNames(schema) ELSE Names) :
            get_projected(id, fs) = [f \in Names |-> IF f \in fs THEN Row(id)[f] ELSE None]

\* The array answers as the rows do, through schema edits (DirectArray::field_at, get).
ArrayMatchesRows ==
    array # None =>
        \A id \in Ids :
            /\ (array[id] = None) = (stored[id] = None)
            /\ id \in Rows \ spoiled =>
                 /\ SameRecord(decode(schema, array[id]), Row(id))
                 /\ \A f \in Names : field_at(id, f) = Row(id)[f]

\* Inference is conservative: the schema it concludes from the rows rejects none of them
\* and takes no field from any, so freezing is refused for its mode alone, and what it
\* demands of a row survives the catalog (infer.rs, infer; catalog.rs, decode_schema).
InferenceIsConservative ==
    LET records == {Row(id) : id \in Rows}
        inferred == infer(records)
    IN Corruption \notin records =>
         /\ validate(inferred)
         /\ decode_schema(encode_schema(inferred)) = inferred
         /\ \A rec \in records : /\ validate_record(inferred, rec)
                                 /\ project_onto_schema(inferred, rec) = rec

\* What every way to read a stored record promises, in one invariant.
CodecInvariant ==
    /\ CodecTypeOK /\ RecordsReadBack /\ RowsFitSchema /\ PeekMatchesDecode
    /\ ArrayMatchesRows /\ InferenceIsConservative

\* codec.rs 671: the edits made in place are those under which "every record already on
\* disk under `old` still decodes correctly under `new`".  Dropping the field whose bit
\* was alone in the last byte of the bitmap moves the fields; appending a field after
\* one was dropped in place shows the dropped one's data under the new name.
EditsDecodeInPlace ==
    [][\A new \in Schemas : alter_in_place(new) =>
          \A id \in Rows \ spoiled :
              /\ decode(new, stored[id]) # Corruption
              /\ SameRecord(decode(new, stored[id]), project_onto_schema(new, Row(id)))]_codecvars

\* exec.rs 733: a filter decided by peeking keeps the rows the decoded one would, since
\* "peeking is defined to agree with decoding".  An undeclared field of a Declared
\* collection is decoded and not peeked.
FiltersAgree ==
    spoiled = {} => \A f \in Names : \A v \in {Row(id)[f] : id \in Rows} \ {None} :
        filter_by_peek(f, v) = filter(f, v)
=============================================================================

------------------------------ MODULE RlpStream ------------------------------
(***************************************************************************)
(* The calls on an RlpStream (Rlp), in any order that does not panic.        *)
(***************************************************************************)
EXTENDS Rlp

CONSTANTS Values,     \* the byte strings that are appended
          MaxBuffer   \* nothing more is appended to a buffer of this length

VARIABLES
    stream,   \* the RlpStream
    written   \* what was appended to it: the trees at the top, then those of
              \* each open list, with the number of items it was begun with

streamVars == <<stream, written>>

Trees == {[data |-> v] : v \in Values}
         \union {StructTree(s) : s \in {<<>>} \union {<<[data |-> v]>> : v \in Values}}
Level(max) == [max |-> max, items |-> <<>>]

RECURSIVE Recorded(_, _)
Recorded(levels, trees) ==
  LET items == Last(levels).items \o trees
  IN  IF Len(items) = Last(levels).max THEN Recorded(Front(levels), <<[items |-> items]>>)
      ELSE [levels EXCEPT ![Len(levels)].items = items]

HasRoom == Len(stream.buffer) < MaxBuffer

Append1(tree) ==
  /\ HasRoom
  /\ stream' = Appended(stream, tree)
  /\ written' = Recorded(written, <<tree>>)

AppendEmptyData ==
  /\ HasRoom
  /\ stream' = AppendedEmpty(stream)
  /\ written' = Recorded(written, <<[data |-> <<>>]>>)

BeginList(len) ==
  /\ HasRoom
  /\ stream' = Begun(stream, len)
  /\ written' = IF len = 0 THEN Recorded(written, <<[items |-> <<>>]>>)
                ELSE Append(written, Level(len))

BeginUnboundedList ==
  /\ HasRoom
  /\ stream' = Opened(stream, Unbounded)
  /\ written' = Append(written, Level(Unbounded))

\* Panics when no list is open, and when the last was begun with a length.
CompleteUnboundedList ==
  /\ stream.lists # <<>> /\ Last(stream.lists).max = Unbounded
  /\ stream' = Completed(stream)
  /\ written' = Recorded(Front(written), <<[items |-> Last(written).items]>>)

\* append_raw, and append_raw_checked, which refuses what seems too long.
AppendRaw(trees) ==
  LET bytes == FlattenSeq([i \in DOMAIN trees |-> Encoding(trees[i])]) IN
  /\ HasRoom /\ ~Overfills(stream, Len(trees))
  /\ EstimateSize(stream, Len(bytes)) <= 2 * MaxBuffer
  /\ stream' = AppendedRaw(stream, bytes, Len(trees))
  /\ written' = Recorded(written, trees)

\* clear leaves `finished_list'.
Clear ==
  /\ stream.buffer # <<>>
  /\ stream' = Cleared(stream)
  /\ written' = <<Level(Unbounded)>>

StreamInit == stream = NewStream /\ written = <<Level(Unbounded)>>

StreamNext ==
  \/ \E tree \in Trees : Append1(tree)
  \/ AppendEmptyData
  \/ \E len \in 0 .. 2 : BeginList(len)
  \/ BeginUnboundedList
  \/ CompleteUnboundedList
  \/ \E s, t \in Values : AppendRaw(<<[data |-> s], [data |-> t]>>)
  \/ Clear

-----------------------------------------------------------------------------

IsFinished == stream.lists = <<>>

\* A finished stream holds the encodings of what was appended to it, in order,
\* whatever lists were open on the way, and a stream is finished when no list
\* that was begun lacks an item.  With one list open, len() is the size the
\* stream will have.
StreamEncodes ==
  /\ Len(written) = Len(stream.lists) + 1
  /\ IsFinished => stream.buffer = FlattenSeq([i \in DOMAIN written[1].items |->
                                                 Encoding(written[1].items[i])])
  /\ Len(stream.lists) = 1 => EstimateSize(stream, 0) = Len(Popped(stream).buffer)

\* The list of a finished stream is read back as it was written, item by item in
\* any order of the indices, whatever `at' has cached, or as a structure with the
\* first of its items for fields, but not with more fields than items; and what
\* compress makes of it, common encodings replaced, decompress restores.
ReadsBack ==
  IsFinished /\ Len(written[1].items) = 1 =>
    LET tree == written[1].items[1]
        view == NewView(stream.buffer)
        fields == IF IsData(tree) THEN <<>> ELSE tree.items
        kinds == [i \in DOMAIN fields |-> IF IsData(fields[i]) THEN "value" ELSE "list"]
        Plain(field) == IsData(field) \/ \A i \in DOMAIN field.items : IsData(field.items[i])
        Content(field) == IF IsData(field) THEN field.data
                          ELSE [i \in DOMAIN field.items |-> field.items[i].data]
        common == <<Encoding([data |-> <<0, 0, 0>>]), Encoding([data |-> <<Single>>])>>
    IN  /\ Decoded(stream.buffer) = Ok(tree)
        /\ \A i, j, k \in 0 .. 2 :
             At(At(At(view, i).view, j).view, k).result =
               IF ~IsData(tree) /\ k < Len(tree.items) THEN Ok(Encoding(tree.items[k + 1]))
               ELSE At(view, k).result
        /\ (\A i \in DOMAIN fields : Plain(fields[i])) =>
             \A n \in 0 .. Len(fields) :
               DecodedStruct(stream.buffer, SubSeq(kinds, 1, n))
                 = Ok([i \in 1 .. n |-> Content(fields[i])])
        /\ ~IsOk(DecodedStruct(stream.buffer, Append(kinds, "value")))
        /\ Decompressed(common, Compressed(common, stream.buffer)) = stream.buffer
        /\ SimpleDecompressed(common, Compressed(common, stream.buffer)) = stream.buffer

\* Both: an RLP stream carries what is appended to it.
StreamRoundTrips == StreamEncodes /\ ReadsBack

=============================================================================

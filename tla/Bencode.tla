------------------------------- MODULE Bencode -------------------------------
(***************************************************************************)
(* Reading bencoded text and writing it again (src/bencode_parser.cpp,     *)
(* src/bencode_encoder.cpp).  The info_hash of a torrent is the SHA1 of    *)
(* what the encoder makes of the dictionary the parser has read, so that   *)
(* it is right only if that is the text of the file.  There are two        *)
(* parsers: one of a stream, for the torrent, one of a string in memory,   *)
(* for the tracker's answer.  The recursion of parse is a stack here.      *)
(*                                                                         *)
(* The text holds no blanks and no plus sign, and its numbers are small.   *)
(***************************************************************************)
EXTENDS Integers, Sequences, SequencesExt

CONSTANTS
  Canonical,  \* texts with numbers in their shortest form and sorted keys, none
              \* of which has a NUL in it
  Others      \* other texts

\* The characters, in the order in which strings compare.
Alphabet == <<"NUL", "-", "0", "1", "2", "3", "4", "5", "6", "7", "8", "9",
              ":", "a", "b", "d", "e", "i", "l">>
Code(c) == CHOOSE i \in 1 .. Len(Alphabet) : Alphabet[i] = c
Digits == {Alphabet[i] : i \in 3 .. 12}
DigitOf(c) == Code(c) - 3

VARIABLES
  reader,  \* "stream" or "pointer"
  input,   \* the text
  canonical,  \* it is in canonical form
  pos,     \* the next character
  good,    \* the stream is not in a failed state
  pc,      \* "parse", "loop" (of a list or a dictionary), "done"; "crashed"
           \* by a null pointer, "endless" in a loop that reads nothing,
           \* "outside" of the text
  stack,   \* lists and dictionaries being read, the innermost last
  value,   \* what the outermost parse returned, if it has
  first    \* what it returned for the text that was encoded, if one was

vars == <<reader, input, canonical, pos, good, pc, stack, value, first>>

String(s) == [kind |-> "string", str |-> s]
Number(n) == [kind |-> "int", number |-> n]
Compound(k, e) == [kind |-> k, entries |-> e]
Null == [kind |-> "null"]

-----------------------------------------------------------------------------
(* The encoder. *)

RECURSIVE to_string(_)
to_string(n) ==
  IF n < 0 THEN <<"-">> \o to_string(-n)
  ELSE IF n < 10 THEN <<Alphabet[n + 3]>>
  ELSE Append(to_string(n \div 10), Alphabet[(n % 10) + 3])

\* What of a string is before its first NUL.
c_str(s) ==
  IF Contains(s, "NUL")
    THEN SubSeq(s, 1, SelectInSeq(s, LAMBDA c : c = "NUL") - 1)
    ELSE s

RECURSIVE crawl(_)
Entry(k, e) ==
  IF k = "list" THEN crawl(e)
  ELSE to_string(Len(e.key)) \o <<":">> \o c_str(e.key) \o crawl(e.value)
Entries(k, es) == FlattenSeq([i \in 1 .. Len(es) |-> Entry(k, es[i])])
crawl(v) ==
  CASE v.kind = "string" -> to_string(Len(v.str)) \o <<":">> \o v.str
    [] v.kind = "int" -> <<"i">> \o to_string(v.number) \o <<"e">>
    [] v.kind = "list" -> <<"l">> \o Entries("list", v.entries) \o <<"e">>
    [] v.kind = "dict" -> <<"d">> \o Entries("dict", v.entries) \o <<"e">>

\* v and the values in it.
RECURSIVE Parts(_)
Parts(v) ==
  {v} \cup
  CASE v.kind = "list" -> UNION {Parts(v.entries[i]) : i \in DOMAIN v.entries}
    [] v.kind = "dict" -> UNION {Parts(v.entries[i].value) : i \in DOMAIN v.entries}
    [] OTHER -> {}

HasNull(v) == \E p \in Parts(v) : p.kind = "null"
HasNulInKey(v) ==
  \E p \in Parts(v) : p.kind = "dict" /\ \E i \in DOMAIN p.entries :
                         Contains(p.entries[i].key, "NUL")

-----------------------------------------------------------------------------
(* The dictionary: a std::multimap. *)

Less(s, t) ==
  \E k \in 0 .. Len(s) :
    /\ k < Len(t)
    /\ SubSeq(s, 1, k) = SubSeq(t, 1, k)
    /\ k = Len(s) \/ (k < Len(s) /\ Code(s[k + 1]) < Code(t[k + 1]))

\* Mutants: in the order of the text reversed; before those with the same key.
insert_in_front(es, key, v) == <<[key |-> key, value |-> v]>> \o es

insert_before_equals(es, key, v) ==
  InsertAt(es, 1 + Len(SelectSeq(es, LAMBDA e : Less(e.key, key))),
           [key |-> key, value |-> v])

\* After those with the same key.
insert_to_dict(es, key, v) ==
  InsertAt(es, 1 + Len(SelectSeq(es, LAMBDA e : ~Less(key, e.key))),
           [key |-> key, value |-> v])

-----------------------------------------------------------------------------
(* The parsers. *)

AtEnd == ~good \/ pos > Len(input)
Char == IF AtEnd THEN "NUL" ELSE input[pos]

\* Where the digits from p on end.
DigitsEnd(p) ==
  CHOOSE q \in p .. Len(input) + 1 :
    /\ q = Len(input) + 1 \/ input[q] \notin Digits
    /\ \A i \in p .. q - 1 : input[i] \in Digits

\* What an int that nothing was read into may hold.
Uninitialised == {0, 12}

NumberOf(s) == FoldLeft(LAMBDA n, c : 10 * n + DigitOf(c), 0, s)

\* parse returns v to the list or dictionary it was called for, or to its
\* caller outside.  A key that is no string is a null pointer.
Returns(v, frames) ==
  IF frames = <<>>
    THEN /\ value' = {v}
         /\ pc' = "done"
         /\ stack' = frames
    ELSE
      LET top == Last(frames)
          rest == Front(frames)
      IN
      \/ /\ top.kind = "list"
         /\ stack' = Append(rest, [top EXCEPT !.entries = Append(@, v)])
         /\ pc' = "loop"
         /\ UNCHANGED value
      \/ /\ top.kind = "dict" /\ top.key = {}
         /\ IF v.kind = "string"
              THEN /\ stack' = Append(rest, [top EXCEPT !.key = {v.str}])
                   /\ pc' = "parse"
              ELSE stack' = frames /\ pc' = "crashed"
         /\ UNCHANGED value
      \/ /\ top.kind = "dict"
         /\ \E key \in top.key :
              stack' = Append(rest, [top EXCEPT
                         !.entries = insert_to_dict(@, key, v), !.key = {}])
         /\ pc' = "loop"
         /\ UNCHANGED value

Unused == UNCHANGED <<reader, input, canonical, first>>

\* The string of len characters at p, of which the stream may have too few.
ReturnsString(p, len) ==
  LET upto == IF p + len - 1 <= Len(input) THEN p + len - 1 ELSE Len(input)
      there == SubSeq(input, p, upto)
  IN IF Len(there) = len /\ p <= Len(input) + 1
       THEN pos' = p + len /\ Returns(String(there), stack) /\ UNCHANGED good
     ELSE IF reader = "stream"
       THEN /\ pos' = Len(input) + 1
            /\ good' = FALSE
            /\ Returns(String(there \o [i \in 1 .. len - Len(there) |-> "NUL"]),
                       stack)
       ELSE pc' = "outside" /\ UNCHANGED <<pos, good, stack, value>>

\* Mutant: the colon is taken for the first character.
parse_string_with_colon ==
  /\ pc = "parse"
  /\ Char \in Digits
  /\ LET q == DigitsEnd(pos)
     IN ReturnsString(q, NumberOf(SubSeq(input, pos, q - 1)))
  /\ Unused

parse_string ==
  /\ pc = "parse"
  /\ Char \in Digits
  /\ LET q == DigitsEnd(pos)
     IN ReturnsString(q + 1, NumberOf(SubSeq(input, pos, q - 1)))
  /\ Unused

\* At its end the stream leaves the number as it was, uninitialised; elsewhere
\* without digits it fails and gives 0, and strtol has read nothing.  The stream
\* also fails when nothing is behind the digits; the pointer is moved on.
parse_int ==
  /\ pc = "parse"
  /\ Char = "i"
  /\ LET negative == pos < Len(input) /\ input[pos + 1] = "-"
         from == IF negative THEN pos + 2 ELSE pos + 1
         to == DigitsEnd(from)
         n == NumberOf(SubSeq(input, from, to - 1))
     IN \/ /\ to > from
           /\ pos' = IF reader = "stream" /\ to > Len(input) THEN to ELSE to + 1
           /\ good' = (reader # "stream" \/ to <= Len(input))
           /\ Returns(Number(IF negative THEN -n ELSE n), stack)
        \/ /\ to = from
           /\ pos' = IF reader = "stream" THEN to ELSE pos + 2
           /\ good' = (reader # "stream")
           /\ \E k \in IF reader = "stream" /\ pos = Len(input)
                      THEN Uninitialised ELSE {0} : Returns(Number(k), stack)
  /\ Unused

parse_compound ==
  /\ pc = "parse"
  /\ Char \in {"l", "d"}
  /\ stack' = Append(stack, [kind |-> IF Char = "l" THEN "list" ELSE "dict",
                             entries |-> <<>>, key |-> {}])
  /\ pos' = pos + 1
  /\ pc' = "loop"
  /\ UNCHANGED <<good, value>>
  /\ Unused

\* The character is in the text, or the NUL or EOF behind it.  The stream stays
\* there; the pointer may get past it.
InText == pos <= Len(input) + 1

\* "just return something": value_, a null pointer.  The stream has moved on,
\* unless it is at its end; the pointer has not.
parse_default ==
  /\ pc = "parse"
  /\ InText
  /\ Char \notin Digits \cup {"i", "l", "d"}
  /\ IF stack # <<>> /\ Last(stack).kind = "list" /\ (AtEnd \/ reader = "pointer")
       THEN pc' = "endless" /\ UNCHANGED <<pos, stack, value>>
       ELSE /\ pos' = IF AtEnd \/ reader = "pointer" THEN pos ELSE pos + 1
            /\ Returns(Null, stack)
  /\ UNCHANGED good
  /\ Unused

\* The loops of a list and of a dictionary.
loop_goes_on ==
  /\ pc = "loop"
  /\ InText
  /\ Char # "e"
  /\ pc' = "parse"
  /\ UNCHANGED <<pos, good, stack, value>>
  /\ Unused

loop_ends ==
  /\ pc = "loop"
  /\ Char = "e"
  /\ pos' = pos + 1
  /\ Returns(Compound(Last(stack).kind, Last(stack).entries), Front(stack))
  /\ UNCHANGED good
  /\ Unused

\* The character behind the one that ends the string.
looks_outside ==
  /\ pc \in {"parse", "loop"}
  /\ reader = "pointer"
  /\ ~InText
  /\ pc' = "outside"
  /\ UNCHANGED <<pos, good, stack, value>>
  /\ Unused

\* The encoder writes what was read ("encode nothing" of a null pointer), and
\* that is read.
encode ==
  /\ pc = "done"
  /\ first = {}
  /\ \E v \in value :
       \/ v = Null /\ input' = <<>>
       \/ ~HasNull(v) /\ input' = crawl(v)
  /\ first' = value
  /\ pos' = 1
  /\ good' = TRUE
  /\ pc' = "parse"
  /\ stack' = <<>>
  /\ value' = {}
  /\ UNCHANGED <<reader, canonical>>

\* It calls crawl of every element, null pointers as well.
encode_crashes ==
  /\ pc = "done"
  /\ first = {}
  /\ \E v \in value : v # Null /\ HasNull(v)
  /\ first' = value
  /\ pc' = "crashed"
  /\ UNCHANGED <<reader, input, canonical, pos, good, stack, value>>

Init ==
  /\ reader \in {"stream", "pointer"}
  /\ \/ canonical = TRUE /\ input \in Canonical
     \/ canonical = FALSE /\ input \in Others
  /\ pos = 1
  /\ good = TRUE
  /\ pc = "parse"
  /\ stack = <<>>
  /\ value = {}
  /\ first = {}

Next ==
  \/ parse_string \/ parse_int \/ parse_compound \/ parse_default
  \/ loop_goes_on \/ loop_ends \/ looks_outside
  \/ encode \/ encode_crashes

Spec == Init /\ [][Next]_vars

FairSpec == Spec /\ WF_vars(Next)

-----------------------------------------------------------------------------
\* What the encoder would write of a list or dictionary read so far.
Begun(frame) ==
  <<IF frame.kind = "list" THEN "l" ELSE "d">>
    \o Entries(frame.kind, frame.entries)
    \o (IF frame.key = {} THEN <<>>
        ELSE crawl(String(CHOOSE key \in frame.key : TRUE)))

Written ==
  FlattenSeq([i \in 1 .. Len(stack) |-> Begun(stack[i])])
    \o (IF value = {} THEN <<>> ELSE crawl(CHOOSE v \in value : TRUE))

\* At every moment the encoder would write of what has been read exactly the
\* text it was read from, whichever of the two parsers reads a text in
\* canonical form; so the info_hash of such a torrent is that of its file.
WritesWhatWasRead ==
  canonical => /\ pc \in {"parse", "loop", "done"}
               /\ Written = SubSeq(input, 1, pos - 1)
               /\ pc = "done" => pos = Len(input) + 1

\* Whatever text a value was read from, keys in any order or twice, numbers
\* with zeros in front, cut off anywhere, what the encoder writes of it is read
\* as the same value, by a reader that neither dies, nor goes on for ever, nor
\* leaves the text; unless a null pointer is in the value, of which the encoder
\* dies, or a NUL in a key, which is written up to there.
SameWhenReadAgain ==
  pc \in {"done", "crashed", "endless", "outside"} =>
    \A v \in first :
      \/ value = first /\ pc = "done"
      \/ v # Null /\ HasNull(v) /\ pc = "crashed"
      \/ HasNulInKey(v)

\* Parsers and encoder undo one another: the text of a canonical value comes
\* back, and the value of any text, with the two exceptions above.
RoundTrip == WritesWhatWasRead /\ SameWhenReadAgain

\* The parser comes to the end of a text in canonical form.
CanonicalIsRead == canonical ~> pc = "done"
=============================================================================

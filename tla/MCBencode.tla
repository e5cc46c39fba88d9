----------------------------- MODULE MCBencode -----------------------------
(* Values of the constants of Bencode for TLC. *)
EXTENDS Bencode, FiniteSetsExt

\* All texts of up to MaxGarbage characters of a few.
MaxGarbage == 5
Garbage == SeqOf({"0", "1", "-", ":", "d", "e", "i", "l"}, MaxGarbage) \ {<<>>}

Ints == {<<"i", "0", "e">>, <<"i", "-", "1", "e">>, <<"i", "1", "0", "e">>}
Keys == << <<"0", ":">>, <<"1", ":", "a">>, <<"2", ":", "a", "b">>,
           <<"1", ":", "e">>, <<"1", ":", "i">> >>
Ten == <<"1", "0", ":", "d", "e", "a", "b", "i", "1", "e", "l", ":", "0">>
Atoms == Ints \cup {Keys[i] : i \in 1 .. 4} \cup {Ten}

Lists(vs) ==
  {<<"l", "e">>} \cup {<<"l">> \o v \o <<"e">> : v \in vs}
    \cup {<<"l">> \o v \o w \o <<"e">> : v, w \in vs}
Dicts(vs) ==
  {<<"d", "e">>} \cup {<<"d">> \o Keys[i] \o v \o <<"e">> : i \in 1 .. 5, v \in vs}
    \cup UNION {{<<"d">> \o Keys[i] \o v \o Keys[j] \o w \o <<"e">> :
                   j \in i + 1 .. 5, v, w \in vs} : i \in 1 .. 5}
Few == {<<"i", "0", "e">>, <<"1", ":", "e">>, <<"l", "e">>,
        <<"d", "1", ":", "a", "i", "0", "e", "e">>}

MCCanonical == Atoms \cup Lists(Atoms) \cup Dicts(Atoms) \cup Lists(Few)
                 \cup Dicts(Few)
                 \cup Lists({<<"l">> \o v \o <<"e">> : v \in Few})

\* Keys twice, keys in the wrong order, a key with a NUL (of which the encoder
\* writes d1:0:e).
MCOthers ==
  Garbage \cup
  {<<"d">> \o Keys[i] \o v \o Keys[j] \o w \o <<"e">> :
     i \in {2, 3}, j \in {1, 2}, v, w \in {<<"i", "0", "e">>, <<"l", "e">>}}
  \cup {<<"d", "1", ":", "NUL", "0", ":", "e">>}
=============================================================================

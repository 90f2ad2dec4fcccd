--------------------------- MODULE MCScannedText ----------------------------
(***************************************************************************)
(* Instances of ScannedText: every small expression over two ranges, and   *)
(* the rules of the language over texts made of fragments that meet every  *)
(* rule.                                                                   *)
(***************************************************************************)
EXTENDS ScannedText

SmallRanges == {{"a"}, {"b", "c"}}
SmallAlphabet == {"a", "b", "c"}

(* Fragments of programs, complete or cut short.                           *)
Starts == {<<"i","f">>, <<"0",".">>, <<"\"">>, <<"\n">>, <<"t","r","u","e">>, <<"=">>, <<" ">>,
           <<"\"", "\n", "\"">>}
Fragments ==
  Starts \cup {<<"x">>, <<"_">>, <<"0">>, <<"<">>, <<":">>, <<"-">>, <<"f","o">>, <<"r">>, <<";">>}

LongTexts ==
  {x \o y : x, y \in Fragments} \cup {x \o y \o z : x \in Starts, y, z \in Fragments}

ShortTexts == UNION {[1 .. n -> {"a", "b"}] : n \in 1 .. 3}

TextsFor(rules) == IF Len(rules) > MaxRules THEN LongTexts ELSE ShortTexts

(* The sort may leave rules of one priority in this order or its reverse.  *)
Reversed ==
  SubSeq(LanguageRules, 1, 3) \o Reverse(SubSeq(LanguageRules, 4, Len(LanguageRules)))

SmallRuleLists == {<< >>, LanguageRules, Reversed}

=============================================================================

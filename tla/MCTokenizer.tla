------------------------------ MODULE MCTokenizer -----------------------------
(***************************************************************************)
(* The tokenizer on every short text over some small alphabets.            *)
(***************************************************************************)
EXTENDS Tokenizer

UpTo(n, alphabet) == UNION {[1..k -> alphabet] : k \in 0..n}

\* A line comment, if there is one, ends.
Ends(t) == t # << >> /\ t[Len(t)] = NL
Slashes(t) == \E i \in 1..Len(t) - 1 : t[i] = "/" /\ t[i + 1] = "/"
Closed(texts) == {t \in texts : Slashes(t) => Ends(t)}

Operators == UpTo(4, {"=", ">", "a", NL}) \cup UpTo(6, {"=", ">"})
Dots == UpTo(4, {".", "1", "e", " "}) \cup UpTo(6, {"1", "e"})
Lines == {t \o <<NL, NL, "a">> : t \in UpTo(2, {"1", "a", "=", "quote", "tick", " "})}
Radices == UpTo(3, {"0", "x", "b", "o", "1", "_"})
Comments == Closed(UpTo(4, {"/", "*", "a", NL}) \cup UpTo(6, {"/", "*"}))
Strings == UpTo(5, {"quote", "back", "tick"})
Slashed == {t \in UpTo(4, {"/", "back", "g", "="}) \cup UpTo(6, {"/", "g"}) : ~Slashes(t)}
Classes ==
  {<<">", ">", ">", "=", "a">>, <<NL, ">", ">", ">", "a">>,
   <<"/", "[", "back", "]", "]", "/", "?">>, <<"/", "[", "back">>, <<"?", "#", "(", "!", "=">>}
  \cup Closed({<<"/", "[">> \o t \o end :
                  t \in UpTo(3, {"a", "]", "/"}),
                  end \in {<< >>, <<"/", "g">>, <<NL, "a">>, <<NL, "/", "a">>}})
  \cup Closed({<<"/", c, "[">> \o t \o end :
                  c \in {"a", "back"}, t \in UpTo(2, {"]", "/", "back"}),
                  end \in {<<"a">>, <<NL, "a">>}})

ClosedTexts ==
  Operators \cup Dots \cup Lines \cup Radices \cup Comments \cup Strings \cup Slashed \cup Classes

\* Comments up to the end of the text.
OpenTexts == UpTo(3, {"/", "a"})
===============================================================================

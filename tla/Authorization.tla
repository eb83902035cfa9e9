---------------------------- MODULE Authorization ---------------------------
(***************************************************************************)
(* What the registry lets a page name (authorize.cpp).  Texts are          *)
(* sequences of characters.  A plugin of the registry has a key for some   *)
(* kinds of names; the entries of a key are masks for documents, each with *)
(* masks for the names that are allowed there.                             *)
(***************************************************************************)
EXTENDS Integers, SequencesExt

CONSTANTS Lower,     \* tolower, for every character of a value
          NoKey      \* a plugin has no key of this kind

Text == Seq(DOMAIN Lower)
Mask == Seq(DOMAIN Lower \cup {"?", "*"})
Key == Seq([mask : Mask, values : Seq(Mask)])

Lowered(value) == [k \in DOMAIN value |-> Lower[value[k]]]

\* The zero that ends the mask is not compared.
PrefixMatch(mask, value) ==
  LET text == Append(Lowered(value), "nul")
      match[i \in 1 .. Len(mask) + 1] ==
        [j \in Nat \ {0} |->
           IF i > Len(mask) THEN j <= Len(text)
           ELSE CASE mask[i] = "?" -> match[i + 1][j + 1]
                  [] mask[i] = "*" -> \E k \in j .. Len(text) : match[i + 1][k]
                  [] OTHER -> j < Len(text) /\ mask[i] = text[j] /\ match[i + 1][j + 1]]
  IN  match[1][1]

\* WildcardMatch reads the mask from position i and the value from position j,
\* both with their terminating zero: a "?" takes any character without looking
\* at the end of the value, a "*" tries every rest of it, and the zero of the
\* mask must meet that of the value.  Only the value is lowered.
WildcardMatch(mask, value) ==
  LET text == Append(Lowered(value), "nul")
      match[i \in 1 .. Len(mask) + 1] ==
        [j \in Nat \ {0} |->
           IF i > Len(mask) THEN j = Len(text)
           ELSE CASE mask[i] = "?" -> match[i + 1][j + 1]
                  [] mask[i] = "*" -> \E k \in j .. Len(text) : match[i + 1][k]
                  [] OTHER -> j < Len(text) /\ mask[i] = text[j] /\ match[i + 1][j + 1]]
  IN  match[1][1]

\* FindKey: the first plugin, of the user and then of the machine, that has a
\* key of this kind; later ones are not looked at.
FindKey(registry, kind) ==
  LET j == SelectInSeq(registry, LAMBDA plugin : plugin[kind] # NoKey)
  IN  IF j = 0 THEN NoKey ELSE registry[j][kind]

\* TestExplicitAuthorization.
TestExplicitAuthorization(registry, kind, document, name) ==
  LET key == FindKey(registry, kind)
  IN  /\ key # NoKey
      /\ \E e \in DOMAIN key :
           /\ WildcardMatch(key[e].mask, document)
           /\ \E v \in DOMAIN key[e].values : WildcardMatch(key[e].values[v], name)

-----------------------------------------------------------------------------
\* The reference for WildcardMatch: a text is covered by a mask when it can be
\* cut into one piece for each character of the mask, of any length for a "*",
\* of length one otherwise.
Covers(mask, text) ==
  \E cut \in [0 .. Len(mask) -> 0 .. Len(text)] :
    /\ cut[0] = 0
    /\ cut[Len(mask)] = Len(text)
    /\ \A k \in 1 .. Len(mask) :
         /\ cut[k - 1] <= cut[k]
         /\ mask[k] # "*" => /\ cut[k] = cut[k - 1] + 1
                             /\ mask[k] \in {"?", text[cut[k]]}

\* A name the registry allows in a document.
Allowed(registry, kind, document, name) ==
  \E p \in DOMAIN registry :
    /\ registry[p][kind] # NoKey
    /\ \A q \in 1 .. p - 1 : registry[q][kind] = NoKey
    /\ \E e \in DOMAIN registry[p][kind] :
         /\ Covers(registry[p][kind][e].mask, Lowered(document))
         /\ \E v \in DOMAIN registry[p][kind][e].values :
              Covers(registry[p][kind][e].values[v], Lowered(name))
=============================================================================

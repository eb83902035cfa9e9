--------------------------- MODULE MCControlChoice --------------------------
(***************************************************************************)
(* ControlChoice for TLC: two classes and the null class, named by class   *)
(* ids and program ids of up to two characters; every mask of up to two    *)
(* characters, every list of trusted locations with one entry of up to     *)
(* three.                                                                  *)
(***************************************************************************)
EXTENDS ControlChoice

LowerCase == [c \in {"a", "A", "b"} |-> IF c = "A" THEN "a" ELSE c]

Texts == [
  one |-> <<"a">>, One |-> <<"A">>, program |-> <<"a", "b">>, two |-> <<"b", "A">>,
  null |-> <<"b">>, none |-> <<>>]

\* The others are program ids, or nothing.
Ids == {Texts.one, Texts.One, Texts.null}

TextClass ==
  [t \in {Texts.one, Texts.One, Texts.program, Texts.two, Texts.null, Texts.none} |->
     CASE t \in {Texts.one, Texts.One, Texts.program} -> "c1"
       [] t = Texts.two -> "c2"
       [] t = Texts.null -> NullClass
       [] OTHER -> NoClass]

\* Addresses on a host of the same text; "A" cannot be read, "AA" is a file.
Addresses ==
  (BoundedSeq({"a", "b"}, 3) \ {<<>>}) \cup {<<"A">>, <<"A", "A">>, <<"A", "b">>}

Cracked ==
  [u \in Addresses |->
     CASE u = <<"A">> -> NoParse
       [] u = <<"A", "A">> -> [scheme |-> "file", host |-> <<>>]
       [] OTHER -> [scheme |-> "http", host |-> u]]

Localhost == <<"b", "b">>

Page == <<"A", "b">>

\* Class ids and program ids in lists of up to three; code bases in lists of two.
ArgumentLists ==
  BoundedSeq([kind : {"clsid", "progid"}, value : DOMAIN TextClass]
               \cup [kind : {"codebase"}, value : {<<"b", "b">>, <<"a">>}], 2)
    \cup {<<[kind |-> "clsid", value |-> x], [kind |-> "progid", value |-> y],
            [kind |-> "clsid", value |-> z]>> :
            x \in {Texts.one, Texts.two}, y \in {Texts.one, Texts.two}, z \in DOMAIN TextClass}

CodeBases == {<<[kind |-> "codebase", value |-> x], [kind |-> "codebase", value |-> y]>> :
                x \in Addresses, y \in {<<"A">>, <<"a", "b">>}}

AllArguments == ArgumentLists \cup CodeBases

Masks == BoundedSeq({"a", "b", "?", "*"}, 2)

Everything == <<[mask |-> <<"*">>, values |-> << <<"*">> >>]>>

AllowAll == <<[clsid |-> Everything, progid |-> Everything, codebase |-> Everything]>>

\* Any mask for names under one for the page; and two plugins of which the
\* first has a key for class ids only, under any mask for the page.
RegistrySet ==
  {<<[clsid |-> key, progid |-> Everything, codebase |-> Everything]>> :
     key \in {<<[mask |-> <<"a", "?">>, values |-> <<m, <<"b", "*">> >>]>> : m \in Masks}}
    \cup
  {<<[clsid |-> <<[mask |-> m, values |-> << <<"*">> >>]>>, progid |-> NoKey, codebase |-> NoKey],
     [clsid |-> Everything, progid |-> Everything, codebase |-> Everything]>> : m \in Masks}

Shipped(registry, accept) ==
  [registry |-> registry, NO_REGISTRY_AUTHORIZE |-> FALSE, TrustedLocations |-> <<>>,
   WellKnown |-> <<>>, AcceptOnlyWellKnown |-> accept, TrustWellKnown |-> TRUE,
   TrustLocalhost |-> TRUE]

Entries == {<<first>> \o rest : first \in {"*", "a", "b"}, rest \in BoundedSeq({"a", "b"}, 2)}

\* The shipped build under each registry; builds that trust one location, with
\* the registry or locked to their sites; and with lists of names.
InstallationSet ==
  {Shipped(registry, accept) : registry \in RegistrySet, accept \in BOOLEAN}
    \cup
  {[Shipped(AllowAll, FALSE) EXCEPT !.TrustedLocations = <<entry>>, !.TrustLocalhost = trust,
                                    !.NO_REGISTRY_AUTHORIZE = lock] :
     entry \in Entries, trust \in BOOLEAN, lock \in BOOLEAN}
    \cup
  {[Shipped(AllowAll, accept) EXCEPT !.NO_REGISTRY_AUTHORIZE = TRUE, !.WellKnown = list,
                                     !.TrustWellKnown = trust] :
     accept \in BOOLEAN, trust \in BOOLEAN, list \in {<<>>, <<Texts.one>>, <<Texts.two, Texts.One>>}}

Killed == {{}, {"c1"}, {"c2"}}

Pages == {Page, <<"a", "b">>, NoAddress}
=============================================================================

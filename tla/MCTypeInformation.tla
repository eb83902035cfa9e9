-------------------------- MODULE MCTypeInformation -------------------------
(***************************************************************************)
(* TypeInformation for TLC: a class and a dispatch interface over two      *)
(* levels of bases.                                                        *)
(***************************************************************************)
EXTENDS TypeInformation, SequencesExt

Of(t, flags) == [info |-> t, flags |-> flags]
Member(id, kind) == [memid |-> id, invkind |-> kind]
Only(funcs, bases) == [funcs |-> funcs, vars |-> <<>>, bases |-> bases]

Empty == Only(<<>>, <<>>)
Method == Only(<<Member(1, "func")>>, <<>>)
Getter == Only(<<Member(1, "get"), Member(1, "put")>>, <<>>)
Variable == [funcs |-> <<Member(2, "func")>>, vars |-> <<1>>, bases |-> <<>>]

\* Every class with up to two implemented types.
SinkLibraries ==
  {<<Only(<<>>, implemented), Method, Empty, Empty>> :
     implemented \in BoundedSeq({Of(t, flags) : t \in {3, 4}, flags \in SUBSET {"default", "source"}}, 2)}

\* Every dispatch interface with up to two bases, of which the first may have the
\* other as its own.
MemberLibraries ==
  {<<Empty, [two EXCEPT !.bases = bases], [three EXCEPT !.bases = below], four>> :
     two \in {Empty, Method, Getter, Variable},
     three \in {Empty, Method, Variable}, four \in {Empty, Method, Getter, Variable},
     bases \in BoundedSeq({Of(3, {}), Of(4, {})}, 2), below \in {<<>>, <<Of(4, {})>>}}

AllLibraries == SinkLibraries \cup MemberLibraries
=============================================================================

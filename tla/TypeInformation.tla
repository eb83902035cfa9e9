--------------------------- MODULE TypeInformation --------------------------
(***************************************************************************)
(* What the plugin reads from the type information of a control: the       *)
(* interface of its events, when the sink subscribes                       *)
(* (common/ControlEventSink.cpp), and later the members a page names       *)
(* (scriptable.h).  Any call of the type information may fail, and every   *)
(* TYPEATTR that is taken has to be given back.                            *)
(***************************************************************************)
EXTENDS Integers, Sequences

CONSTANTS Infos,      \* the type informations of the control, numbered so that
                      \* each refers to higher ones only
          Class,      \* that of its class, from IProvideClassInfo
          Dispatch,   \* that of its dispatch interface
          Libraries,  \* what they may say: the functions, the variables and
                      \* the implemented types of each
          Ids,        \* dispatch ids
          NoInfo,     \* a NULL type information
          NoMember    \* the dispatch id -1

Kinds == {"func", "get", "put", "putref"}
Flags == {"default", "source", "restricted"}

Information == [funcs : Seq([memid : Ids, invkind : Kinds]),
                vars : Seq(Ids),
                bases : Seq([info : Infos, flags : SUBSET Flags])]

ASSUME InformationAssumption ==
  /\ Infos \subseteq Nat
  /\ {Class, Dispatch} \subseteq Infos
  /\ NoInfo \notin Infos
  /\ NoMember \notin Ids
  /\ \A library \in Libraries :
       /\ DOMAIN library = Infos
       /\ \A t \in Infos :
            /\ library[t] \in Information
            /\ \A j \in DOMAIN library[t].bases : library[t].bases[j].info > t

VARIABLES library,    \* what the type informations say
          requested,  \* events of NPP_New is not empty
          stage,      \* "created" (the control exists), "scanning" (inside
                      \* GetEventSinkIID), "found" (behind it), "running",
                      \* "failed", or "looking" (inside ResolveName)
          at,         \* i of GetEventSinkIID
          typeInfo,   \* the type information it found
          m_spEventSinkTypeInfo,
          invKind,    \* the kinds of member a page asks for
          frames,     \* the active calls of find_member, innermost last
          found,
          sought,     \* the id the control has for the name
          result,     \* what ResolveName returned last
          held,       \* the type informations whose TYPEATTR is taken
          failed      \* history: a call inside ResolveName failed

sinkVars == <<requested, at, typeInfo, m_spEventSinkTypeInfo>>
memberVars == <<invKind, frames, found, sought, result, failed>>
vars == <<library, stage, held, sinkVars, memberVars>>

\* One call of find_member and where its loops are.
Frame == [info : Infos, pass : {"funcs", "vars", "bases"}, i : Nat \ {0}]

TypeOK ==
  /\ library \in Libraries
  /\ requested \in BOOLEAN
  /\ stage \in {"created", "scanning", "found", "running", "failed", "looking"}
  /\ at \in Nat \ {0}
  /\ {typeInfo, m_spEventSinkTypeInfo} \subseteq Infos \cup {NoInfo}
  /\ invKind \subseteq Kinds
  /\ frames \in Seq(Frame)
  /\ found \in BOOLEAN
  /\ sought \in Ids \cup {NoMember}
  /\ result \in Ids \cup {NoMember}
  /\ held \subseteq Infos
  /\ failed \in BOOLEAN

Init ==
  /\ library \in Libraries
  /\ requested \in BOOLEAN
  /\ stage = "created"
  /\ at = 1
  /\ typeInfo = NoInfo /\ m_spEventSinkTypeInfo = NoInfo
  /\ invKind = {}
  /\ frames = <<>>
  /\ found = FALSE
  /\ sought = NoMember /\ result = NoMember
  /\ held = {}
  /\ failed = FALSE

-----------------------------------------------------------------------------
(***************************************************************************)
(* SubscribeToEvents, and what CreateControl and NPP_New make of it.       *)
(***************************************************************************)

\* GetEventSinkIID takes the type information of the class, if there is any.
StartScan ==
  /\ stage = "created"
  /\ \/ stage' = "scanning" /\ held' = held \cup {Class}
     \/ stage' = "found" /\ UNCHANGED held
  /\ UNCHANGED <<library, sinkVars, memberVars>>

Implemented == library[Class].bases[at]

\* Any outgoing interface is taken.
MutantIsDefaultSource(flags) == "source" \in flags

\* The flags are compared as a whole.
IsDefaultSource(flags) == flags = {"default", "source"}

\* Another implemented type; or the flags of this one cannot be had.
SkipType ==
  /\ stage = "scanning"
  /\ at <= Len(library[Class].bases)
  /\ at' = at + 1
  /\ UNCHANGED <<library, stage, held, requested, typeInfo, m_spEventSinkTypeInfo, memberVars>>

\* The default source ends the loop, also when its own type information or its
\* TYPEATTR cannot be had.
TakeType ==
  /\ stage = "scanning"
  /\ at <= Len(library[Class].bases)
  /\ IsDefaultSource(Implemented.flags)
  /\ typeInfo' \in {Implemented.info, NoInfo}
  /\ stage' = "found"
  /\ held' = held \ {Class}
  /\ UNCHANGED <<library, requested, at, m_spEventSinkTypeInfo, memberVars>>

EndScan ==
  /\ stage = "scanning"
  /\ at > Len(library[Class].bases)
  /\ stage' = "found"
  /\ held' = held \ {Class}
  /\ UNCHANGED <<library, sinkVars, memberVars>>

\* The rest of SubscribeToEvents, whose connection point may refuse, and of
\* CreateControl, which fails without a subscription if events were requested.
\* NPP_New then asks m_spEventSinkTypeInfo, unchecked, for each of the events.
Subscribe ==
  /\ stage = "found"
  /\ \/ /\ typeInfo # NoInfo
        /\ m_spEventSinkTypeInfo' = typeInfo
        /\ stage' = "running"
     \/ /\ stage' = IF requested THEN "failed" ELSE "running"
        /\ UNCHANGED m_spEventSinkTypeInfo
  /\ UNCHANGED <<library, held, requested, at, typeInfo, memberVars>>

-----------------------------------------------------------------------------
(***************************************************************************)
(* ResolveName, for HasMethod, Invoke, HasProperty, GetProperty and        *)
(* SetProperty of a wrapper.                                               *)
(***************************************************************************)

\* What the five operations ask for.
Asked == {{"func"}, {"get", "put"}, {"get"}, {"put"}}

Top == frames[Len(frames)]
Call(t) == Append(frames, [info |-> t, pass |-> "funcs", i |-> 1])
Advance(pass, i) ==
  frames' = [frames EXCEPT ![Len(frames)].pass = pass, ![Len(frames)].i = i]

\* A page names a member.  If the control has an id for it and a type
\* information, find_member starts with its dispatch interface.
ResolveName(id, kinds) ==
  /\ stage = "running"
  /\ invKind' = kinds
  /\ sought' = id
  /\ result' = NoMember
  /\ found' = FALSE
  /\ \/ /\ stage' = "looking"
        /\ frames' = Call(Dispatch)
        /\ held' = held \cup {Dispatch}
        /\ failed' = FALSE
     \/ /\ failed' = TRUE
        /\ UNCHANGED <<stage, frames, held>>
  /\ UNCHANGED <<library, sinkVars>>

InPass(pass) == stage = "looking" /\ ~found /\ Top.pass = pass

\* One round of the loop over functions.
LookAtFunction ==
  /\ InPass("funcs")
  /\ Top.i <= Len(library[Top.info].funcs)
  /\ LET function == library[Top.info].funcs[Top.i]
     IN  \/ /\ found' = (function.memid = sought /\ function.invkind \in invKind)
            /\ UNCHANGED failed
         \/ /\ failed' = TRUE
            /\ UNCHANGED found
  /\ Advance("funcs", Top.i + 1)
  /\ UNCHANGED <<library, stage, held, sinkVars, invKind, sought, result>>

\* Variables are looked at for a method too.
MutantEndFunctions ==
  /\ InPass("funcs")
  /\ Top.i > Len(library[Top.info].funcs)
  /\ Advance("vars", 1)
  /\ UNCHANGED <<library, stage, held, sinkVars, invKind, found, sought, result, failed>>

\* Variables are not looked at for a method.
EndFunctions ==
  /\ InPass("funcs")
  /\ Top.i > Len(library[Top.info].funcs)
  /\ Advance(IF invKind \subseteq {"func"} THEN "bases" ELSE "vars", 1)
  /\ UNCHANGED <<library, stage, held, sinkVars, invKind, found, sought, result, failed>>

\* One round of the loop over variables; a variable can be read and written.
LookAtVariable ==
  /\ InPass("vars")
  /\ Top.i <= Len(library[Top.info].vars)
  /\ \/ /\ found' = (library[Top.info].vars[Top.i] = sought)
        /\ UNCHANGED failed
     \/ /\ failed' = TRUE
        /\ UNCHANGED found
  /\ Advance("vars", Top.i + 1)
  /\ UNCHANGED <<library, stage, held, sinkVars, invKind, sought, result>>

EndVariables ==
  /\ InPass("vars")
  /\ Top.i > Len(library[Top.info].vars)
  /\ Advance("bases", 1)
  /\ UNCHANGED <<library, stage, held, sinkVars, invKind, found, sought, result, failed>>

\* Each round of the loop over bases asks for the first.
Base == library[Top.info].bases[1].info

\* The TYPEATTR of a base is taken, and find_member calls itself; or one of the
\* three calls fails, and the loop goes on.
SearchBase ==
  /\ InPass("bases")
  /\ Top.i <= Len(library[Top.info].bases)
  /\ \/ /\ frames' = Call(Base)
        /\ held' = held \cup {Base}
        /\ UNCHANGED failed
     \/ /\ failed' = TRUE
        /\ Advance("bases", Top.i + 1)
        /\ UNCHANGED held
  /\ UNCHANGED <<library, stage, sinkVars, invKind, found, sought, result>>

\* A search that was successful leaves at once.
MutantEndCall ==
  /\ stage = "looking"
  /\ \/ found
     \/ Top.pass = "bases" /\ Top.i > Len(library[Top.info].bases)
  /\ IF Len(frames) > 1 /\ ~found
       THEN /\ frames' = LET outer == SubSeq(frames, 1, Len(frames) - 1)
                         IN  [outer EXCEPT ![Len(outer)].i = @ + 1]
            /\ held' = held \ {Top.info}
            /\ UNCHANGED <<stage, result>>
       ELSE /\ frames' = <<>>
            /\ held' = held \ {Top.info}
            /\ stage' = "running"
            /\ result' = IF found THEN sought ELSE NoMember
  /\ UNCHANGED <<library, sinkVars, invKind, found, sought, failed>>

\* find_member returns, and its caller gives the TYPEATTR back: the loop of
\* another find_member, or ResolveName.
EndCall ==
  /\ stage = "looking"
  /\ \/ found
     \/ Top.pass = "bases" /\ Top.i > Len(library[Top.info].bases)
  /\ held' = held \ {Top.info}
  /\ IF Len(frames) > 1
       THEN /\ frames' = LET outer == SubSeq(frames, 1, Len(frames) - 1)
                         IN  [outer EXCEPT ![Len(outer)].i = @ + 1]
            /\ UNCHANGED <<stage, result>>
       ELSE /\ frames' = <<>>
            /\ stage' = "running"
            /\ result' = IF found THEN sought ELSE NoMember
  /\ UNCHANGED <<library, sinkVars, invKind, found, sought, failed>>

Next ==
  \/ StartScan \/ SkipType \/ TakeType \/ EndScan \/ Subscribe
  \/ \E id \in Ids, kinds \in Asked : ResolveName(id, kinds)
  \/ LookAtFunction \/ EndFunctions \/ LookAtVariable \/ EndVariables
  \/ SearchBase \/ EndCall

Spec == Init /\ [][Next]_vars

-----------------------------------------------------------------------------
\* What is reached from t through bases with these positions: the least set that
\* has t and such bases of its members.
Reached(t, positions) ==
  {u \in Infos : \A C \in SUBSET Infos :
     /\ t \in C
     /\ \A s \in C : \A j \in DOMAIN library[s].bases \cap positions : library[s].bases[j].info \in C
     => u \in C}

\* The first base, its first base, and so on; and all bases, all of theirs, and so on.
FirstChain(t) == Reached(t, {1})
Hierarchy(t) == Reached(t, Nat)

\* A type information has a member that can be used in one of these ways.
Offers(t, id, kinds) ==
  \/ \E j \in DOMAIN library[t].funcs :
       library[t].funcs[j].memid = id /\ library[t].funcs[j].invkind \in kinds
  \/ /\ kinds # {"func"}
     /\ \E j \in DOMAIN library[t].vars : library[t].vars[j] = id

\* A name resolves to its id when any interface of the hierarchy has the member in
\* a way that was asked for, as find_member says of itself (scriptable.h:51-53), and
\* only then, unless a call fails on the way.  There is one exception: each round of
\* its loop asks for base 0 (scriptable.h:106), so that a member is passed over which
\* can be reached through a base other than the first only.
MembersResolve ==
  (stage = "running" /\ sought # NoMember) =>
    LET offering == {t \in Hierarchy(Dispatch) : Offers(t, sought, invKind)}
        passedOver == offering # {} /\ offering \cap FirstChain(Dispatch) = {}
    IN  /\ result \in {sought, NoMember}
        /\ result = sought => offering # {} /\ ~passedOver
        /\ offering # {} /\ ~failed => result = sought \/ passedOver

\* A TYPEATTR is taken exactly for the class while its implemented types are
\* scanned, and for each type an active call of find_member looks at: no way out
\* of the loops and of the recursion forgets one or gives one back twice.
AttributesBalanced ==
  held = IF stage = "scanning" THEN {Class}
                               ELSE {frames[k].info : k \in DOMAIN frames}

\* Whenever the plugin goes on with events that the page asked for, the sink has
\* the type information their names are looked up in without a check
\* (axhost.cpp:478), and it never has another than that of a default source.
SinkKnowsEvents ==
  /\ (stage \in {"running", "looking"} /\ requested) => m_spEventSinkTypeInfo # NoInfo
  /\ m_spEventSinkTypeInfo # NoInfo =>
       \E j \in DOMAIN library[Class].bases :
         /\ library[Class].bases[j].info = m_spEventSinkTypeInfo
         /\ {"default", "source"} = library[Class].bases[j].flags
=============================================================================

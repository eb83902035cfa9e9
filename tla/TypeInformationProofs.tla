------------------------ MODULE TypeInformationProofs -----------------------
(***************************************************************************)
(* Proofs about TypeInformation, for any type informations, however deep   *)
(* they refer to each other.                                               *)
(***************************************************************************)
EXTENDS TypeInformation, TLAPS

\* An element of a sequence.
LEMMA ElementOf ==
  ASSUME NEW S, NEW s \in Seq(S), NEW k \in 1 .. Len(s)
  PROVE  s[k] \in S
OBVIOUS

\* An index is the last or comes before it.
LEMMA LastIndex ==
  ASSUME NEW n \in Nat, NEW k \in 1 .. n
  PROVE  n \in 1 .. n /\ (k = n \/ k < n)
OBVIOUS

\* Without the last index.
LEMMA FrontIndex ==
  ASSUME NEW n \in Nat \ {0}
  PROVE  /\ \A k \in 1 .. n : k = n \/ k \in 1 .. n - 1
         /\ 1 .. n - 1 \subseteq 1 .. n
OBVIOUS

\* A sequence in which one element is replaced.
LEMMA ReplaceOne ==
  ASSUME NEW S, NEW s \in Seq(S), NEW k \in 1 .. Len(s), NEW e \in S
  PROVE  LET r == [s EXCEPT ![k] = e]
         IN  /\ r \in Seq(S)
             /\ Len(r) = Len(s)
             /\ DOMAIN r = 1 .. Len(s)
             /\ r[k] = e
             /\ \A j \in 1 .. Len(s) : j # k => r[j] = s[j]
OBVIOUS

\* A sequence without its last element.
LEMMA FrontOf ==
  ASSUME NEW S, NEW s \in Seq(S), Len(s) > 1
  PROVE  LET r == SubSeq(s, 1, Len(s) - 1)
         IN  /\ r \in Seq(S)
             /\ Len(r) = Len(s) - 1
             /\ \A j \in 1 .. Len(s) - 1 : r[j] = s[j]
OBVIOUS

\* What is said of one type in a library.
LEMMA LibraryFact ==
  ASSUME NEW lib \in Libraries, NEW t \in Infos
  PROVE  /\ Len(lib[t].funcs) \in Nat
         /\ Len(lib[t].vars) \in Nat
         /\ Len(lib[t].bases) \in Nat
         /\ \A j \in 1 .. Len(lib[t].bases) :
              lib[t].bases[j].info \in Infos /\ lib[t].bases[j].info > t
<1>1. lib[t] \in Information /\ \A j \in DOMAIN lib[t].bases : lib[t].bases[j].info > t
  BY InformationAssumption
<1>2. lib[t].bases \in Seq([info : Infos, flags : SUBSET Flags])
  BY <1>1 DEF Information
<1>3. lib[t].funcs \in Seq([memid : Ids, invkind : Kinds]) /\ lib[t].vars \in Seq(Ids)
  BY <1>1 DEF Information
<1>4. ASSUME NEW j \in 1 .. Len(lib[t].bases)
      PROVE  lib[t].bases[j].info \in Infos /\ lib[t].bases[j].info > t
  <2> DEFINE S == [info : Infos, flags : SUBSET Flags]
             b == lib[t].bases
  <2>1. b \in Seq(S)
    BY <1>2
  <2> HIDE DEF S, b
  <2>2. b[j] \in S /\ j \in DOMAIN b
    BY <2>1, <1>4, ElementOf DEF b
  <2>3. b[j].info \in Infos
    BY <2>2 DEF S
  <2>4. QED BY <1>1, <2>2, <2>3 DEF b
<1>5. Len(lib[t].funcs) \in Nat /\ Len(lib[t].vars) \in Nat /\ Len(lib[t].bases) \in Nat
  BY <1>2, <1>3
<1>6. QED BY <1>4, <1>5

\* A type with a base has a first one.
LEMMA FirstOf ==
  ASSUME NEW lib \in Libraries, NEW t \in Infos
  PROVE  /\ lib[t].bases # <<>> => 1 \in 1 .. Len(lib[t].bases)
         /\ lib[t].bases = <<>> \/ lib[t].bases[1].info \in Infos
         /\ DOMAIN lib[t].bases = 1 .. Len(lib[t].bases)
         /\ DOMAIN lib[t].funcs = 1 .. Len(lib[t].funcs)
         /\ DOMAIN lib[t].vars = 1 .. Len(lib[t].vars)
<1>1. lib[t] \in Information
  BY InformationAssumption
<1>2. PICK S : lib[t].bases \in Seq(S)
  BY <1>1 DEF Information
<1>3. lib[t].bases # <<>> => 1 \in 1 .. Len(lib[t].bases)
  BY <1>2
<1>4. /\ lib[t].funcs \in Seq([memid : Ids, invkind : Kinds]) /\ lib[t].vars \in Seq(Ids)
  BY <1>1 DEF Information
<1> QED BY <1>2, <1>3, <1>4, LibraryFact

\* The chain of first bases: a type, and the chain of its first base.
LEMMA ChainFact ==
  ASSUME library \in Libraries, NEW t \in Infos
  PROVE  FirstChain(t) = {t} \cup IF library[t].bases = <<>> THEN {} ELSE FirstChain(library[t].bases[1].info)
<1> DEFINE first == library[t].bases[1].info
           D == {t} \cup IF library[t].bases = <<>> THEN {} ELSE FirstChain(first)
           Closed(C) == \A s \in C : library[s].bases # <<>> => library[s].bases[1].info \in C
<1>1. ASSUME NEW s \in Infos
      PROVE  FirstChain(s) = {u \in Infos : \A C \in SUBSET Infos : s \in C /\ Closed(C) => u \in C}
  <2>1. ASSUME NEW C \in SUBSET Infos
        PROVE  Closed(C) <=> \A v \in C : \A j \in DOMAIN library[v].bases \cap {1} : library[v].bases[j].info \in C
    <3>1. ASSUME NEW v \in C
          PROVE  DOMAIN library[v].bases \cap {1} = IF library[v].bases = <<>> THEN {} ELSE {1}
      <4>1. v \in Infos
        BY <3>1
      <4>2. DOMAIN library[v].bases = 1 .. Len(library[v].bases)
        BY <4>1, FirstOf
      <4>3. library[v].bases # <<>> => 1 \in 1 .. Len(library[v].bases)
        BY <4>1, FirstOf
      <4>4. library[v].bases = <<>> => 1 \notin DOMAIN library[v].bases
        BY <4>2
      <4> QED BY <4>2, <4>3, <4>4
    <3> QED BY <3>1
  <2> QED BY <2>1 DEF FirstChain, Reached
<1>2. library[t].bases = <<>> \/ first \in Infos
  BY FirstOf
<1>3. D \in SUBSET Infos /\ t \in D
  BY <1>1, <1>2
<1>4. Closed(D)
  <2>1. ASSUME NEW u \in D, library[u].bases # <<>> PROVE library[u].bases[1].info \in D
    <3>0. library[u].bases[1].info \in Infos
      BY <1>3, <2>1, FirstOf
    <3>1. CASE u = t
      BY <1>1, <1>2, <2>1, <3>1
    <3>2. CASE u # t
      BY <1>1, <1>2, <2>1, <3>0, <3>2
    <3> QED BY <3>1, <3>2
  <2> QED BY <2>1
<1>5. FirstChain(t) \subseteq D
  <2>1. FirstChain(t) = {u \in Infos : \A C \in SUBSET Infos : t \in C /\ Closed(C) => u \in C}
    BY <1>1
  <2> HIDE DEF D, Closed
  <2> QED BY <1>3, <1>4, <2>1
<1>6. D \subseteq FirstChain(t)
  <2>1. ASSUME NEW C \in SUBSET Infos, t \in C, Closed(C), NEW u \in D PROVE u \in C
    <3>1. CASE u = t
      BY <2>1, <3>1
    <3>2. CASE u # t
      <4>1. library[t].bases # <<>> /\ u \in FirstChain(first)
        BY <2>1, <3>2
      <4>2. first \in C
        BY <2>1, <4>1
      <4> QED BY <1>1, <1>2, <2>1, <4>1, <4>2
    <3> QED BY <3>1, <3>2
  <2> QED BY <1>1, <1>3, <2>1
<1> QED BY <1>5, <1>6

\* The chain of first bases is a part of the hierarchy.
LEMMA ChainInHierarchy ==
  ASSUME NEW t \in Infos
  PROVE  FirstChain(t) \subseteq Hierarchy(t)
<1>1. ASSUME NEW u \in FirstChain(t), NEW C \in SUBSET Infos, t \in C,
             \A s \in C : \A j \in DOMAIN library[s].bases \cap Nat : library[s].bases[j].info \in C
      PROVE  u \in C
  <2>1. \A s \in C : \A j \in DOMAIN library[s].bases \cap {1} : library[s].bases[j].info \in C
    BY <1>1
  <2> QED BY <1>1, <2>1 DEF FirstChain, Reached
<1> QED BY <1>1 DEF FirstChain, Hierarchy, Reached

\* A call that goes on to its next round.
LEMMA NextRound ==
  ASSUME NEW f \in Frame
  PROVE  /\ [f EXCEPT !.i = @ + 1] \in Frame
         /\ [f EXCEPT !.i = @ + 1].info = f.info
BY DEF Frame

\* What the two halves of the module keep besides their types: the scan of the
\* class knows only default sources, and the calls of find_member go from each
\* type to one with a higher number, so that no two look at the same.
SinkInv ==
  /\ SinkKnowsEvents
  /\ stage \in {"created", "scanning"} => typeInfo = NoInfo
  /\ stage \in {"created", "scanning", "found"} => m_spEventSinkTypeInfo = NoInfo
  /\ typeInfo # NoInfo => \E j \in DOMAIN library[Class].bases :
       /\ library[Class].bases[j].info = typeInfo
       /\ {"default", "source"} = library[Class].bases[j].flags

FramesInv ==
  /\ frames # <<>> <=> stage = "looking"
  /\ \A j, k \in 1 .. Len(frames) : j < k => frames[j].info < frames[k].info

TypeInv == TypeOK /\ SinkInv /\ FramesInv /\ AttributesBalanced

LEMMA TypeInit == Init => TypeInv
<1> SUFFICES ASSUME Init PROVE TypeInv
  OBVIOUS
<1>1. TypeOK
  <2>1. <<>> \in Seq(Frame) /\ 1 \in Nat \ {0}
    OBVIOUS
  <2>2. QED BY <2>1 DEF Init, TypeOK
<1>2. SinkInv
  BY DEF Init, SinkInv, SinkKnowsEvents
<1>3. FramesInv /\ AttributesBalanced
  BY DEF Init, FramesInv, AttributesBalanced
<1>4. QED BY <1>1, <1>2, <1>3 DEF TypeInv

-----------------------------------------------------------------------------
(***************************************************************************)
(* The three ways in which the calls of find_member change.                *)
(***************************************************************************)

\* A loop goes on: the calls look at the same types as before.
LEMMA AdvanceKeeps ==
  ASSUME TypeOK, FramesInv, AttributesBalanced, stage = "looking", stage' = stage, held' = held,
         NEW pass \in {"funcs", "vars", "bases"}, NEW n \in Nat \ {0}, Advance(pass, n)
  PROVE  frames' \in Seq(Frame) /\ FramesInv' /\ AttributesBalanced'
<1>1. frames \in Seq(Frame) /\ Len(frames) \in Nat \ {0} /\ Len(frames) \in DOMAIN frames
      /\ \A k \in DOMAIN frames : frames[k] \in Frame
  BY DEF TypeOK, FramesInv
<1>2. [frames[Len(frames)] EXCEPT !.pass = pass, !.i = n] \in Frame
  BY <1>1 DEF Frame
<1>3. frames' = [frames EXCEPT ![Len(frames)] = [@ EXCEPT !.pass = pass, !.i = n]]
  BY <1>1 DEF Advance, Frame
<1>4. /\ frames' \in Seq(Frame)
      /\ Len(frames') = Len(frames)
      /\ DOMAIN frames' = DOMAIN frames
  BY <1>1, <1>2, <1>3
<1>5. \A k \in DOMAIN frames : frames'[k].info = frames[k].info
  BY <1>1, <1>3 DEF Frame
<1>6. {frames'[k].info : k \in DOMAIN frames'} = {frames[k].info : k \in DOMAIN frames}
  BY <1>4, <1>5
<1>7. FramesInv'
  BY <1>1, <1>4, <1>5 DEF FramesInv
<1>8. QED BY <1>4, <1>6, <1>7 DEF AttributesBalanced

\* A call for a type of a higher number than the innermost one, if there is any.
LEMMA CallKeeps ==
  ASSUME TypeOK, FramesInv, AttributesBalanced, stage' = "looking", stage # "scanning",
         NEW t \in Infos, frames = <<>> \/ t > Top.info,
         frames' = Call(t), held' = held \cup {t}
  PROVE  frames' \in Seq(Frame) /\ FramesInv' /\ AttributesBalanced'
<1> DEFINE new == [info |-> t, pass |-> "funcs", i |-> 1]
<1>1. frames \in Seq(Frame) /\ Len(frames) \in Nat /\ DOMAIN frames = 1 .. Len(frames)
  BY DEF TypeOK
<1>2. new \in Frame /\ new.info = t
  BY DEF Frame
<1>3. /\ frames' \in Seq(Frame)
      /\ Len(frames') = Len(frames) + 1
      /\ DOMAIN frames' = 1 .. Len(frames) + 1
      /\ \A k \in 1 .. Len(frames) : frames'[k] = frames[k]
      /\ frames'[Len(frames) + 1] = new
  BY <1>1, <1>2 DEF Call
<1>4. \A k \in 1 .. Len(frames) : frames[k].info \in Nat /\ frames[k].info <= Top.info
  <2>1. ASSUME NEW k \in 1 .. Len(frames) PROVE frames[k] \in Frame /\ frames[k].info \in Nat
    <3>1. frames[k] \in Frame
      BY <1>1, ElementOf
    <3>2. QED BY <3>1, InformationAssumption DEF Frame
  <2>2. ASSUME NEW k \in 1 .. Len(frames) PROVE k = Len(frames) \/ frames[k].info < Top.info
    <3>1. (k = Len(frames) \/ k < Len(frames)) /\ Len(frames) \in 1 .. Len(frames)
      BY <1>1, LastIndex
    <3>2. QED BY <3>1 DEF FramesInv, Top
  <2>3. ASSUME NEW k \in 1 .. Len(frames) PROVE Top.info \in Nat
    <3>1. Len(frames) \in 1 .. Len(frames)
      BY <1>1, LastIndex
    <3>2. QED BY <2>1, <3>1 DEF Top
  <2>4. ASSUME NEW k \in 1 .. Len(frames) PROVE frames[k].info <= Top.info
    <3>1. CASE k = Len(frames)
      BY <2>1, <2>3, <3>1 DEF Top
    <3>2. CASE frames[k].info < Top.info
      BY <2>1, <2>3, <3>2
    <3>3. QED BY <2>2, <3>1, <3>2
  <2>5. QED BY <2>1, <2>4
<1>5. t \in Nat
  BY InformationAssumption
<1>6. \A k \in 1 .. Len(frames) : frames[k].info < t
  <2> SUFFICES ASSUME NEW k \in 1 .. Len(frames) PROVE frames[k].info < t
    OBVIOUS
  <2>1. frames # <<>>
    <3>1. 1 \in DOMAIN frames
      BY <1>1
    <3>2. QED BY <3>1
  <2>2. t > Top.info /\ frames[k].info \in Nat /\ frames[k].info <= Top.info
    BY <1>4, <2>1
  <2>3. Top.info \in Nat
    <3>1. Len(frames) \in 1 .. Len(frames)
      BY <1>1, LastIndex
    <3>2. QED BY <1>4, <3>1 DEF Top
  <2>4. QED BY <1>5, <2>2, <2>3
<1>7. FramesInv'
  BY <1>1, <1>2, <1>3, <1>6 DEF FramesInv
<1>8. {frames'[k].info : k \in DOMAIN frames'} = {frames[k].info : k \in DOMAIN frames} \cup {t}
  BY <1>1, <1>2, <1>3
<1>9. QED BY <1>3, <1>7, <1>8 DEF AttributesBalanced

\* The innermost call returns.
LEMMA EndCallKeeps ==
  ASSUME TypeOK, FramesInv, AttributesBalanced, EndCall
  PROVE  frames' \in Seq(Frame) /\ FramesInv' /\ AttributesBalanced'
<1> DEFINE n == Len(frames)
           outer == SubSeq(frames, 1, n - 1)
<1>1. /\ frames \in Seq(Frame) /\ n \in Nat \ {0} /\ DOMAIN frames = 1 .. n
      /\ stage = "looking" /\ held = {frames[k].info : k \in 1 .. n}
      /\ held' = held \ {frames[n].info}
  BY DEF TypeOK, FramesInv, AttributesBalanced, EndCall, Top
<1>2. \A k \in 1 .. n : frames[k] \in Frame /\ frames[k].info \in Nat
  <2>1. \A k \in 1 .. n : frames[k] \in Frame
    BY <1>1, ElementOf
  <2>2. QED BY <2>1, InformationAssumption DEF Frame
<1>3. held' = {frames[k].info : k \in 1 .. n - 1}
  <2>1. \A k \in 1 .. n - 1 : frames[k].info # frames[n].info
    BY <1>1, <1>2 DEF FramesInv
  <2>2. \A k \in 1 .. n : k = n \/ k \in 1 .. n - 1
    BY <1>1, FrontIndex
  <2>3. 1 .. n - 1 \subseteq 1 .. n
    BY <1>1, FrontIndex
  <2>4. QED BY <1>1, <2>1, <2>2, <2>3
<1>4. CASE n > 1
  <2> DEFINE e == [outer[n - 1] EXCEPT !.i = @ + 1]
  <2>1. /\ outer \in Seq(Frame) /\ Len(outer) = n - 1
        /\ \A k \in 1 .. n - 1 : outer[k] = frames[k]
    BY <1>1, <1>4, FrontOf
  <2>a. n - 1 \in 1 .. n - 1
    BY <1>1, <1>4
  <2>3. outer[n - 1] \in Frame /\ e \in Frame /\ e.info = outer[n - 1].info
    <3>1. outer[n - 1] \in Frame
      BY <2>1, <2>a, ElementOf
    <3>2. QED BY <3>1, NextRound
  <2>2. frames' = [outer EXCEPT ![n - 1] = e]
    <3>1. frames' = [outer EXCEPT ![Len(outer)].i = @ + 1]
      BY <1>4 DEF EndCall
    <3>2. QED BY <2>1, <3>1
  <2> HIDE DEF outer, e
  <2>4. /\ frames' \in Seq(Frame) /\ Len(frames') = n - 1 /\ DOMAIN frames' = 1 .. n - 1
        /\ frames'[n - 1] = e
        /\ \A k \in 1 .. n - 1 : k # n - 1 => frames'[k] = outer[k]
    BY <2>1, <2>2, <2>3, <2>a, ReplaceOne
  <2>5. \A k \in 1 .. n - 1 : frames'[k].info = frames[k].info
    BY <2>1, <2>3, <2>4
  <2>6. {frames'[k].info : k \in DOMAIN frames'} = {frames[k].info : k \in 1 .. n - 1}
    BY <2>4, <2>5
  <2>7. stage' = stage
    BY <1>4 DEF EndCall
  <2>8. FramesInv'
    <3>1. frames' # <<>>
      <4>1. n - 1 \in DOMAIN frames'
        BY <2>4, <2>a
      <4>2. QED BY <4>1
    <3>2. ASSUME NEW j \in 1 .. Len(frames'), NEW k \in 1 .. Len(frames'), j < k
          PROVE  frames'[j].info < frames'[k].info
      <4>1. j \in 1 .. n - 1 /\ k \in 1 .. n - 1 /\ j \in 1 .. n /\ k \in 1 .. n
        BY <1>1, <2>4, <3>2, FrontIndex
      <4>2. frames[j].info < frames[k].info
        BY <3>2, <4>1 DEF FramesInv
      <4>3. QED BY <2>5, <4>1, <4>2
    <3>3. QED BY <1>1, <2>7, <3>1, <3>2 DEF FramesInv
  <2>9. QED BY <1>1, <1>3, <2>4, <2>6, <2>7, <2>8 DEF AttributesBalanced
<1>5. CASE n = 1
  <2>1. frames' = <<>> /\ stage' = "running" /\ held' = {}
    BY <1>3, <1>5 DEF EndCall
  <2>2. QED BY <2>1 DEF FramesInv, AttributesBalanced
<1>6. QED BY <1>1, <1>4, <1>5

-----------------------------------------------------------------------------
LEMMA TypeStep == TypeInv /\ [Next]_vars => TypeInv'
<1> SUFFICES ASSUME TypeInv, [Next]_vars PROVE TypeInv'
  OBVIOUS
<1> USE DEF TypeInv
<1>0. library \in Libraries /\ Class \in Infos /\ Dispatch \in Infos /\ NoInfo \notin Infos
  BY InformationAssumption DEF TypeOK
<1>1. CASE UNCHANGED vars
  BY <1>1 DEF vars, sinkVars, memberVars, TypeOK, SinkInv, SinkKnowsEvents, FramesInv, AttributesBalanced
<1>2. CASE StartScan
  BY <1>0, <1>2 DEF StartScan, sinkVars, memberVars, TypeOK, SinkInv, SinkKnowsEvents, FramesInv, AttributesBalanced
<1>3. CASE SkipType
  BY <1>0, <1>3 DEF SkipType, memberVars, TypeOK, SinkInv, SinkKnowsEvents, FramesInv, AttributesBalanced
<1>4. CASE TakeType
  <2>1. at \in 1 .. Len(library[Class].bases) /\ Implemented.info \in Infos
    BY <1>0, <1>4, LibraryFact DEF TakeType, TypeOK, Implemented
  <2>2. at \in DOMAIN library[Class].bases
    BY <1>0, <2>1, InformationAssumption DEF Information
  <2>3. SinkInv'
    BY <1>4, <2>2 DEF TakeType, Implemented, IsDefaultSource, memberVars, SinkInv, SinkKnowsEvents
  <2>4. frames = <<>>
    BY <1>4 DEF TakeType, FramesInv
  <2>5. QED BY <1>0, <1>4, <2>1, <2>3, <2>4 DEF TakeType, memberVars, TypeOK, FramesInv, AttributesBalanced
<1>5. CASE EndScan
  BY <1>0, <1>5 DEF EndScan, sinkVars, memberVars, TypeOK, SinkInv, SinkKnowsEvents, FramesInv, AttributesBalanced
<1>6. CASE Subscribe
  BY <1>0, <1>6 DEF Subscribe, memberVars, TypeOK, SinkInv, SinkKnowsEvents, FramesInv, AttributesBalanced
<1>7. ASSUME NEW id \in Ids, NEW kinds \in Asked, ResolveName(id, kinds) PROVE TypeInv'
  <2>1. frames = <<>> /\ stage = "running"
    BY <1>7 DEF ResolveName, FramesInv
  <2>2. frames' \in Seq(Frame) /\ FramesInv' /\ AttributesBalanced' /\ held' \subseteq Infos
    <3>1. CASE stage' = "looking" /\ frames' = Call(Dispatch) /\ held' = held \cup {Dispatch}
      BY <1>0, <2>1, <3>1, CallKeeps DEF TypeOK
    <3>2. CASE UNCHANGED <<frames, held>> /\ stage' = "running"
      BY <2>1, <3>2 DEF TypeOK, FramesInv, AttributesBalanced
    <3>3. QED BY <1>7, <2>1, <3>1, <3>2 DEF ResolveName
  <2>3. SinkInv'
    BY <1>7 DEF ResolveName, sinkVars, SinkInv, SinkKnowsEvents
  <2>4. QED BY <1>7, <2>2, <2>3 DEF ResolveName, sinkVars, Asked, Kinds, TypeOK
<1> DEFINE Keeps == frames' \in Seq(Frame) /\ FramesInv' /\ AttributesBalanced'
<1> USE DEF InPass
<1>a. stage = "looking" => Top \in Frame /\ Top.i + 1 \in Nat \ {0} /\ Top.info \in Infos
  <2>1. frames \in Seq(Frame) /\ (stage = "looking" => Len(frames) \in 1 .. Len(frames))
    BY DEF TypeOK, FramesInv
  <2>2. stage = "looking" => Top \in Frame
    BY <2>1, ElementOf DEF Top
  <2>3. QED BY <2>2 DEF Frame
<1>8. CASE LookAtFunction
  <2>1. Keeps
    BY <1>8, <1>a, AdvanceKeeps DEF LookAtFunction
  <2>2. QED BY <1>8, <2>1 DEF LookAtFunction, sinkVars, TypeOK, SinkInv, SinkKnowsEvents
<1>9. CASE EndFunctions
  <2>1. Keeps
    BY <1>9, <1>a, AdvanceKeeps DEF EndFunctions
  <2>2. QED BY <1>9, <2>1 DEF EndFunctions, sinkVars, TypeOK, SinkInv, SinkKnowsEvents
<1>10. CASE LookAtVariable
  <2>1. Keeps
    BY <1>10, <1>a, AdvanceKeeps DEF LookAtVariable
  <2>2. QED BY <1>10, <2>1 DEF LookAtVariable, sinkVars, TypeOK, SinkInv, SinkKnowsEvents
<1>11. CASE EndVariables
  <2>1. Keeps
    BY <1>11, <1>a, AdvanceKeeps DEF EndVariables
  <2>2. QED BY <1>11, <2>1 DEF EndVariables, sinkVars, TypeOK, SinkInv, SinkKnowsEvents
<1>12. CASE SearchBase
  <2>1. stage = "looking" /\ stage' = stage
    BY <1>12 DEF SearchBase
  <2>2. Base \in Infos /\ Base > Top.info
    <3>1. 1 \in 1 .. Len(library[Top.info].bases)
      BY <1>0, <1>a, <1>12, <2>1, LibraryFact DEF SearchBase, Frame
    <3>2. QED BY <1>0, <1>a, <2>1, <3>1, LibraryFact DEF Base
  <2>3. Keeps /\ held' \subseteq Infos
    <3>1. CASE frames' = Call(Base) /\ held' = held \cup {Base}
      BY <2>1, <2>2, <3>1, CallKeeps DEF TypeOK
    <3>2. CASE Advance("bases", Top.i + 1) /\ UNCHANGED held
      BY <1>a, <2>1, <3>2, AdvanceKeeps DEF TypeOK
    <3>3. QED BY <1>12, <3>1, <3>2 DEF SearchBase
  <2>4. QED BY <1>12, <2>1, <2>3 DEF SearchBase, sinkVars, TypeOK, SinkInv, SinkKnowsEvents
<1>13. CASE EndCall
  <2>1. Keeps
    BY <1>13, EndCallKeeps
  <2>2. stage' \in {"looking", "running"} /\ stage = "looking" /\ held' \subseteq Infos
    BY <1>13 DEF EndCall, TypeOK
  <2>3. result' \in Ids \cup {NoMember}
    BY <1>13 DEF EndCall, TypeOK
  <2>4. QED BY <1>13, <2>1, <2>2, <2>3 DEF EndCall, sinkVars, TypeOK, SinkInv, SinkKnowsEvents
<1>14. QED BY <1>1, <1>2, <1>3, <1>4, <1>5, <1>6, <1>7, <1>8, <1>9, <1>10, <1>11, <1>12, <1>13 DEF Next

-----------------------------------------------------------------------------
(***************************************************************************)
(* What a search has seen.                                                 *)
(***************************************************************************)

FirstBase(t) == library[t].bases[1].info

\* No function, or variable, with a number below i can be used.
NoFunction(t, i) ==
  \A j \in DOMAIN library[t].funcs :
    j < i => ~(library[t].funcs[j].memid = sought /\ library[t].funcs[j].invkind \in invKind)

NoVariable(t, i) == \A j \in DOMAIN library[t].vars : j < i => library[t].vars[j] # sought

\* No type on the chain of t has the member.
NotBelow(t) == \A s \in FirstChain(t) : ~Offers(s, sought, invKind)

AllFunctions(t) == Len(library[t].funcs) + 1
AllVariables(t) == Len(library[t].vars) + 1

\* What a call that is still active has looked at in vain.
Vain(t, pass, i) ==
  /\ NoFunction(t, IF pass = "funcs" THEN i ELSE AllFunctions(t))
  /\ pass = "vars" => NoVariable(t, i)
  /\ pass = "bases" /\ invKind # {"func"} => NoVariable(t, AllVariables(t))
  /\ pass = "bases" /\ i > 1 => library[t].bases # <<>> /\ NotBelow(FirstBase(t))

\* The active calls go down the chain of first bases, and each but the innermost
\* waits for the search of its first base.
OnChain ==
  /\ frames[1].info = Dispatch
  /\ \A k \in 1 .. Len(frames) : FirstChain(frames[k].info) \subseteq FirstChain(Dispatch)
  /\ \A k \in 1 .. Len(frames) - 1 :
       /\ frames[k].pass = "bases"
       /\ library[frames[k].info].bases # <<>>
       /\ frames[k + 1].info = FirstBase(frames[k].info)

\* Variables are looked at only for a property.
ForProperty == Top.pass = "vars" => invKind # {"func"}

Offered == \E t \in FirstChain(Dispatch) : Offers(t, sought, invKind)

\* The result in terms of that chain alone.
ResolvesFirstChain ==
  (stage = "running" /\ sought # NoMember) =>
    /\ result \in {sought, NoMember}
    /\ result = sought => Offered
    /\ Offered /\ ~failed => result = sought

SearchInv ==
  /\ stage \in {"created", "scanning", "found", "failed"} => sought = NoMember
  /\ stage = "running" => ResolvesFirstChain
  /\ stage = "looking" =>
       /\ sought # NoMember /\ result = NoMember /\ invKind \in Asked
       /\ OnChain /\ ForProperty
       /\ found => Offered
       /\ ~failed /\ ~found =>
            \A k \in 1 .. Len(frames) : Vain(frames[k].info, frames[k].pass, frames[k].i)

\* The library stays, and what is said of it only.
LEMMA SameLibrary ==
  ASSUME UNCHANGED <<library, sought, invKind>>
  PROVE  /\ \A t : FirstChain(t)' = FirstChain(t) /\ FirstBase(t)' = FirstBase(t)
         /\ \A t, pass, i : Vain(t, pass, i)' <=> Vain(t, pass, i)
         /\ Offered' <=> Offered
<1>1. \A t : FirstChain(t)' = FirstChain(t) /\ FirstBase(t)' = FirstBase(t)
  BY DEF FirstChain, FirstBase, Reached
<1>2. \A t : Offers(t, sought, invKind)' <=> Offers(t, sought, invKind)
  BY DEF Offers
<1>3. \A t : NotBelow(t)' <=> NotBelow(t)
  BY <1>1, <1>2 DEF NotBelow
<1>4. \A t, i : NoFunction(t, i)' <=> NoFunction(t, i)
  BY DEF NoFunction
<1>5. \A t, i : NoVariable(t, i)' <=> NoVariable(t, i)
  BY DEF NoVariable
<1>6. \A t : AllFunctions(t)' = AllFunctions(t) /\ AllVariables(t)' = AllVariables(t)
  BY DEF AllFunctions, AllVariables
<1>7. \A t, pass, i : Vain(t, pass, i)' <=> Vain(t, pass, i)
  BY <1>1, <1>3, <1>4, <1>5, <1>6 DEF Vain
<1>8. Offered' <=> Offered
  BY <1>1, <1>2 DEF Offered
<1> QED BY <1>1, <1>7, <1>8

\* What one round of a loop changes in the calls.
LEMMA AdvanceFact ==
  ASSUME TypeOK, FramesInv, stage = "looking",
         NEW pass \in {"funcs", "vars", "bases"}, NEW n \in Nat \ {0}, Advance(pass, n)
  PROVE  /\ Len(frames) \in 1 .. Len(frames) /\ Len(frames') = Len(frames)
         /\ \A k \in 1 .. Len(frames) - 1 : k \in 1 .. Len(frames) /\ frames'[k] = frames[k]
         /\ frames'[Len(frames)].info = Top.info
         /\ frames'[Len(frames)].pass = pass /\ frames'[Len(frames)].i = n
<1>1. frames \in Seq(Frame) /\ Len(frames) \in Nat \ {0} /\ Len(frames) \in DOMAIN frames
      /\ Top \in Frame
  BY DEF TypeOK, FramesInv, Top
<1> DEFINE e == [Top EXCEPT !.pass = pass, !.i = n]
<1>2. e \in Frame /\ e.info = Top.info /\ e.pass = pass /\ e.i = n
  BY <1>1 DEF Frame
<1>3. frames' = [frames EXCEPT ![Len(frames)] = e]
  BY <1>1 DEF Advance, Frame, Top
<1> HIDE DEF e
<1>4. /\ Len(frames') = Len(frames) /\ frames'[Len(frames)] = e
      /\ \A k \in 1 .. Len(frames) : k # Len(frames) => frames'[k] = frames[k]
  BY <1>1, <1>2, <1>3, ReplaceOne
<1> QED BY <1>1, <1>2, <1>4

\* A call and a return, in the same way.
LEMMA CallFact ==
  ASSUME TypeOK, NEW t \in Infos, frames' = Call(t)
  PROVE  /\ Len(frames) \in Nat /\ Len(frames') = Len(frames) + 1
         /\ \A k \in 1 .. Len(frames) : frames'[k] = frames[k]
         /\ frames'[Len(frames) + 1].info = t
         /\ frames'[Len(frames) + 1].pass = "funcs" /\ frames'[Len(frames) + 1].i = 1
<1> DEFINE new == [info |-> t, pass |-> "funcs", i |-> 1]
<1>1. frames \in Seq(Frame) /\ Len(frames) \in Nat
  BY DEF TypeOK
<1>2. new \in Frame /\ new.info = t /\ new.pass = "funcs" /\ new.i = 1
  BY DEF Frame
<1>3. frames' = Append(frames, new)
  BY DEF Call
<1> HIDE DEF new
<1> QED BY <1>1, <1>2, <1>3

LEMMA ReturnFact ==
  ASSUME TypeOK, FramesInv, EndCall, Len(frames) > 1
  PROVE  LET n == Len(frames)
         IN  /\ n \in Nat /\ n - 1 \in 1 .. n /\ n \in 1 .. n /\ Len(frames') = n - 1
             /\ \A k \in 1 .. n - 1 : k # n - 1 => frames'[k] = frames[k]
             /\ frames'[n - 1].info = frames[n - 1].info
             /\ frames'[n - 1].pass = frames[n - 1].pass
             /\ frames'[n - 1].i = frames[n - 1].i + 1
             /\ frames[n - 1] \in Frame
<1> DEFINE n == Len(frames)
           outer == SubSeq(frames, 1, n - 1)
           e == [outer[n - 1] EXCEPT !.i = @ + 1]
<1>1. frames \in Seq(Frame) /\ n \in Nat /\ n - 1 \in 1 .. n - 1 /\ n - 1 \in 1 .. n /\ n \in 1 .. n
  BY DEF TypeOK
<1>2. /\ outer \in Seq(Frame) /\ Len(outer) = n - 1
      /\ \A k \in 1 .. n - 1 : outer[k] = frames[k]
  BY <1>1, FrontOf
<1>3. frames[n - 1] \in Frame /\ outer[n - 1] = frames[n - 1]
  BY <1>1, <1>2, ElementOf
<1>4. e \in Frame /\ e.info = frames[n - 1].info /\ e.pass = frames[n - 1].pass /\ e.i = frames[n - 1].i + 1
  BY <1>3 DEF Frame
<1>5. frames' = [outer EXCEPT ![n - 1] = e]
  <2>1. frames' = [outer EXCEPT ![Len(outer)].i = @ + 1]
    BY DEF EndCall
  <2> QED BY <1>2, <2>1
<1> HIDE DEF outer, e
<1>6. /\ Len(frames') = n - 1 /\ frames'[n - 1] = e
      /\ \A k \in 1 .. n - 1 : k # n - 1 => frames'[k] = outer[k]
  BY <1>1, <1>2, <1>3, <1>4, <1>5, ReplaceOne
<1> QED BY <1>1, <1>2, <1>3, <1>4, <1>6

\* A chain is a type and the chain of its first base.
LEMMA ChainSteps ==
  ASSUME TypeOK, NEW t \in Infos
  PROVE  /\ t \in FirstChain(t)
         /\ library[t].bases # <<>> => FirstBase(t) \in Infos /\ FirstChain(FirstBase(t)) \subseteq FirstChain(t)
         /\ \A s \in FirstChain(t) : s = t \/ (library[t].bases # <<>> /\ s \in FirstChain(FirstBase(t)))
BY ChainFact, FirstOf DEF TypeOK, FirstBase

LEMMA AdvanceSearches ==
  ASSUME TypeOK, FramesInv, SearchInv, stage = "looking", ~found,
         UNCHANGED <<library, stage, sought, invKind, result>>,
         NEW pass \in {"funcs", "vars", "bases"}, NEW n \in Nat \ {0}, Advance(pass, n),
         found' => Offered,
         failed => failed',
         pass = "vars" => invKind # {"func"},
         ~failed' /\ ~found' => Vain(Top.info, pass, n)
  PROVE  SearchInv'
<1>1. PICK last : last = Len(frames)
  OBVIOUS
<1>2. /\ last \in 1 .. last /\ Len(frames') = last
      /\ \A k \in 1 .. last - 1 : k \in 1 .. last /\ frames'[k] = frames[k]
      /\ frames'[last].info = Top.info /\ frames'[last].pass = pass /\ frames'[last].i = n
      /\ Top = frames[last]
  BY <1>1, AdvanceFact DEF Top
<1>3. \A k \in 1 .. last : k = last \/ k \in 1 .. last - 1
  BY <1>2
<1>4. /\ \A t : FirstChain(t)' = FirstChain(t) /\ FirstBase(t)' = FirstBase(t)
      /\ \A t, p, i : Vain(t, p, i)' <=> Vain(t, p, i)
      /\ Offered' <=> Offered
  BY SameLibrary
<1>5. \A k \in 1 .. last : frames'[k].info = frames[k].info
  BY <1>2, <1>3
<1>6. OnChain'
  <2>1. \A k \in 1 .. last - 1 : k + 1 \in 1 .. last
    BY <1>2
  <2>2. 1 \in 1 .. last
    BY <1>2
  <2>3. OnChain
    BY DEF SearchInv
  <2> QED BY <1>1, <1>2, <1>4, <1>5, <2>1, <2>2, <2>3 DEF OnChain
<1>7. ASSUME ~failed', ~found', NEW k \in 1 .. last
      PROVE  Vain(frames'[k].info, frames'[k].pass, frames'[k].i)
  <2>1. CASE k = last
    BY <1>2, <1>7, <2>1
  <2>2. CASE k \in 1 .. last - 1
    BY <1>1, <1>2, <1>7, <2>2 DEF SearchInv
  <2> QED BY <1>3, <2>1, <2>2
<1>8. ~failed' /\ ~found' => \A k \in 1 .. Len(frames') : Vain(frames[k].info, frames[k].pass, frames[k].i)'
  <2>1. \A t, p, i : Vain(t, p, i) => Vain(t, p, i)'
    BY <1>4
  <2>2. SUFFICES ASSUME ~failed', ~found', NEW k \in 1 .. last
                 PROVE  Vain(frames[k].info, frames[k].pass, frames[k].i)'
    BY <1>2
  <2>3. PICK t, p, i : t = frames'[k].info /\ p = frames'[k].pass /\ i = frames'[k].i
    OBVIOUS
  <2>4. Vain(t, p, i)'
    BY <1>7, <2>1, <2>2, <2>3
  <2> QED BY <2>3, <2>4
<1>9. ForProperty'
  BY <1>1, <1>2 DEF ForProperty, Top
<1> QED BY <1>4, <1>6, <1>8, <1>9 DEF SearchInv

\* find_member begins with a type, of which it has seen nothing.
LEMMA CallSearches ==
  ASSUME TypeOK, stage' = "looking", library' = library, NEW t \in Infos, frames' = Call(t),
         sought' # NoMember, result' = NoMember, invKind' \in Asked, ~found',
         \/ frames = <<>> /\ t = Dispatch
         \/ /\ FramesInv /\ SearchInv /\ stage = "looking" /\ ~found
            /\ UNCHANGED <<sought, invKind, failed>>
            /\ Top.pass = "bases" /\ library[Top.info].bases # <<>> /\ t = FirstBase(Top.info)
  PROVE  SearchInv'
<1>1. PICK size : size = Len(frames)
  OBVIOUS
<1>2. /\ size \in Nat /\ Len(frames') = size + 1
      /\ \A k \in 1 .. size : frames'[k] = frames[k]
      /\ frames'[size + 1].info = t /\ frames'[size + 1].pass = "funcs" /\ frames'[size + 1].i = 1
  BY <1>1, CallFact
<1>3. \A k \in 1 .. size + 1 : k = size + 1 \/ k \in 1 .. size
  BY <1>2
<1>4. \A s : FirstChain(s)' = FirstChain(s) /\ FirstBase(s)' = FirstBase(s)
  BY DEF FirstChain, FirstBase, Reached
<1>5. Vain(t, "funcs", 1)'
  <2>1. \A j \in DOMAIN library[t].funcs : ~(j < 1)
    BY FirstOf, LibraryFact DEF TypeOK
  <2> QED BY <2>1 DEF Vain, NoFunction
<1>8. ForProperty'
  BY <1>1, <1>2 DEF ForProperty, Top
<1>6. CASE frames = <<>> /\ t = Dispatch
  <2>1. size = 0
    BY <1>1, <1>6
  <2>2. OnChain'
    BY <1>2, <1>4, <1>6, <2>1 DEF OnChain
  <2>3. \A k \in 1 .. Len(frames') : Vain(frames[k].info, frames[k].pass, frames[k].i)'
    <3>1. ASSUME NEW k \in 1 .. Len(frames') PROVE Vain(frames[k].info, frames[k].pass, frames[k].i)'
      <4>1. k = 1 /\ frames'[k].info = t /\ frames'[k].pass = "funcs" /\ frames'[k].i = 1
        BY <1>2, <2>1
      <4> QED BY <1>5, <4>1 DEF Vain, NoFunction
    <3> QED BY <3>1
  <2> QED BY <1>8, <2>2, <2>3 DEF SearchInv
<1>7. CASE /\ FramesInv /\ SearchInv /\ stage = "looking" /\ ~found
           /\ UNCHANGED <<sought, invKind, failed>>
           /\ Top.pass = "bases" /\ library[Top.info].bases # <<>> /\ t = FirstBase(Top.info)
  <2>1. size \in 1 .. size /\ Top = frames[size] /\ Top \in Frame /\ Top.info \in Infos
    <3>1. frames \in Seq(Frame) /\ frames # <<>>
      BY <1>7 DEF FramesInv, TypeOK
    <3>2. size \in 1 .. size
      BY <1>1, <3>1
    <3>3. Top = frames[size] /\ Top \in Frame
      BY <1>1, <3>1, <3>2, ElementOf DEF Top
    <3> QED BY <3>2, <3>3 DEF Frame
  <2>2. OnChain
    BY <1>7 DEF SearchInv
  <2>3. FirstChain(t) \subseteq FirstChain(Dispatch)
    BY <1>1, <1>7, <2>1, <2>2, ChainSteps DEF OnChain
  <2>4. OnChain'
    <3>1. frames'[1].info = Dispatch
      <4>1. 1 \in 1 .. size
        BY <2>1
      <4> QED BY <1>2, <2>2, <4>1 DEF OnChain
    <3>2. \A k \in 1 .. size + 1 : FirstChain(frames'[k].info) \subseteq FirstChain(Dispatch)
      BY <1>1, <1>2, <1>3, <2>2, <2>3 DEF OnChain
    <3>3. ASSUME NEW k \in 1 .. size
          PROVE  /\ frames'[k].pass = "bases"
                 /\ library[frames'[k].info].bases # <<>>
                 /\ frames'[k + 1].info = FirstBase(frames'[k].info)
      <4>1. CASE k = size
        BY <1>2, <1>7, <2>1, <4>1
      <4>2. CASE k # size
        <5>1. k \in 1 .. size - 1 /\ k + 1 \in 1 .. size
          BY <1>2, <4>2
        <5> QED BY <1>1, <1>2, <2>2, <5>1 DEF OnChain
      <4> QED BY <4>1, <4>2
    <3> QED BY <1>2, <1>4, <3>1, <3>2, <3>3 DEF OnChain
  <2>5. ASSUME ~failed', NEW k \in 1 .. Len(frames')
        PROVE  Vain(frames[k].info, frames[k].pass, frames[k].i)'
    <3>1. PICK u, p, i : u = frames'[k].info /\ p = frames'[k].pass /\ i = frames'[k].i
      OBVIOUS
    <3>2. CASE k = size + 1
      <4>1. u = t /\ p = "funcs" /\ i = 1
        BY <1>2, <3>1, <3>2
      <4> QED BY <1>5, <3>1, <4>1 DEF Vain, NoFunction
    <3>3. CASE k \in 1 .. size
      <4>1. Vain(u, p, i)
        BY <1>1, <1>2, <1>7, <2>5, <3>1, <3>3 DEF SearchInv
      <4>2. Vain(u, p, i)'
        BY <1>7, <4>1, SameLibrary
      <4> QED BY <3>1, <4>2
    <3> QED BY <1>2, <1>3, <3>2, <3>3
  <2> QED BY <1>8, <2>4, <2>5 DEF SearchInv
<1> QED BY <1>6, <1>7

\* A type whose three loops have ended has the member nowhere on its chain.
LEMMA LoopsEnded ==
  ASSUME TypeOK, invKind \in Asked, NEW t \in Infos, NEW i \in Nat \ {0},
         Vain(t, "bases", i), i > Len(library[t].bases)
  PROVE  NotBelow(t)
<1>1. ~Offers(t, sought, invKind)
  BY FirstOf, LibraryFact DEF TypeOK, Vain, NoFunction, NoVariable, AllFunctions, AllVariables, Offers
<1>2. library[t].bases # <<>> => NotBelow(FirstBase(t))
  <2>1. ASSUME library[t].bases # <<>> PROVE i > 1
    <3>1. Len(library[t].bases) \in Nat /\ 1 \in 1 .. Len(library[t].bases)
      BY <2>1, FirstOf, LibraryFact DEF TypeOK
    <3> QED BY <3>1
  <2> QED BY <2>1 DEF Vain
<1> QED BY <1>1, <1>2, ChainSteps DEF NotBelow

\* find_member returns, with what it has found or to a caller that goes on.
LEMMA EndCallSearches ==
  ASSUME TypeOK, FramesInv, SearchInv, EndCall
  PROVE  SearchInv'
<1>1. /\ stage = "looking" /\ UNCHANGED <<library, sinkVars, invKind, found, sought, failed>>
      /\ found \/ (Top.pass = "bases" /\ Top.i > Len(library[Top.info].bases))
  BY DEF EndCall
<1>2. PICK n : n = Len(frames)
  OBVIOUS
<1>3. n \in 1 .. n /\ Top = frames[n] /\ Top \in Frame /\ Top.info \in Infos /\ Top.i \in Nat \ {0}
  <2>1. frames \in Seq(Frame) /\ frames # <<>>
    BY <1>1 DEF FramesInv, TypeOK
  <2>2. n \in 1 .. n
    BY <1>2, <2>1
  <2>3. Top = frames[n] /\ Top \in Frame
    BY <1>2, <2>1, <2>2, ElementOf DEF Top
  <2> QED BY <2>2, <2>3 DEF Frame
<1>4. OnChain /\ invKind \in Asked /\ sought # NoMember /\ (found => Offered)
  BY <1>1 DEF SearchInv
<1>5. ASSUME ~failed, ~found PROVE NotBelow(Top.info)
  <2>1. Vain(Top.info, "bases", Top.i)
    BY <1>1, <1>2, <1>3, <1>5 DEF SearchInv
  <2> QED BY <1>1, <1>3, <1>4, <1>5, <2>1, LoopsEnded
<1>6. /\ \A t : FirstChain(t)' = FirstChain(t) /\ FirstBase(t)' = FirstBase(t)
      /\ \A t, p, i : Vain(t, p, i)' <=> Vain(t, p, i)
      /\ Offered' <=> Offered
  BY <1>1, SameLibrary
<1>7. CASE n > 1
  <2>1. PICK m : m = n - 1
    OBVIOUS
  <2>2. /\ n \in Nat /\ m \in 1 .. n /\ m \in 1 .. m /\ n = m + 1 /\ Len(frames') = m
        /\ \A k \in 1 .. m : k # m => frames'[k] = frames[k]
        /\ frames'[m].info = frames[m].info /\ frames'[m].pass = frames[m].pass
        /\ frames'[m].i = frames[m].i + 1 /\ frames[m] \in Frame
    <3>1. n \in Nat /\ m \in 1 .. m /\ n = m + 1
      BY <1>2, <1>3, <1>7, <2>1
    <3> QED BY <1>2, <1>7, <2>1, <3>1, ReturnFact
  <2>3. stage' = "looking" /\ result' = NoMember
    BY <1>1, <1>2, <1>7 DEF EndCall, SearchInv
  <2>4. \A k \in 1 .. m : k \in 1 .. n /\ frames'[k].info = frames[k].info /\ frames'[k].pass = frames[k].pass
    BY <2>2
  <2>5. frames[m].pass = "bases" /\ library[frames[m].info].bases # <<>> /\ Top.info = FirstBase(frames[m].info)
    BY <1>2, <1>3, <1>4, <2>1, <2>2 DEF OnChain
  <2>6. OnChain'
    <3>1. 1 \in 1 .. m /\ \A k \in 1 .. m - 1 : k \in 1 .. m /\ k + 1 \in 1 .. m /\ k \in 1 .. n - 1
      BY <2>1, <2>2
    <3> QED BY <1>1, <1>2, <1>4, <1>6, <2>2, <2>4, <3>1 DEF OnChain
  <2>7. ASSUME ~failed, ~found, NEW k \in 1 .. m
        PROVE  Vain(frames[k].info, frames[k].pass, frames[k].i)'
    <3>1. PICK u, p, i : u = frames'[k].info /\ p = frames'[k].pass /\ i = frames'[k].i
      OBVIOUS
    <3>2. Vain(u, p, frames[k].i) /\ frames[k].i \in Nat
      <4>1. frames \in Seq(Frame) /\ k \in 1 .. Len(frames)
        BY <1>2, <2>4 DEF TypeOK
      <4>2. frames[k] \in Frame
        BY <4>1, ElementOf
      <4>3. frames[k].i \in Nat
        BY <4>2 DEF Frame
      <4> QED BY <1>1, <2>4, <2>7, <3>1, <4>1, <4>3 DEF SearchInv
    <3>3. CASE k = m
      <4>1. p = "bases" /\ i = frames[m].i + 1 /\ library[u].bases # <<>> /\ NotBelow(FirstBase(u))
        BY <1>5, <2>2, <2>5, <2>7, <3>1, <3>3
      <4>2. Vain(u, p, i)
        BY <3>2, <4>1 DEF Vain
      <4> QED BY <1>6, <3>1, <4>2
    <3>4. CASE k # m
      <4>1. Vain(u, p, i)
        BY <2>2, <3>1, <3>2, <3>4
      <4> QED BY <1>6, <3>1, <4>1
    <3> QED BY <3>3, <3>4
  <2>8. ForProperty'
    BY <2>2, <2>5 DEF ForProperty, Top
  <2> QED BY <1>1, <1>4, <1>6, <2>2, <2>3, <2>6, <2>7, <2>8 DEF SearchInv
<1>8. CASE ~(n > 1)
  <2>1. n = 1 /\ stage' = "running" /\ result' = IF found THEN sought ELSE NoMember
    BY <1>2, <1>3, <1>8 DEF EndCall
  <2>2. Top.info = Dispatch
    BY <1>3, <1>4, <2>1 DEF OnChain
  <2>3. ~failed /\ ~found => ~Offered
    BY <1>5, <2>2 DEF NotBelow, Offered
  <2>4. ResolvesFirstChain'
    <3>1. /\ result' \in {sought, NoMember}
          /\ result' = sought => Offered'
          /\ Offered' /\ ~failed => result' = sought
      BY <1>4, <1>6, <2>1, <2>3
    <3> QED BY <1>1, <3>1 DEF ResolvesFirstChain, Offered
  <2> QED BY <2>1, <2>4 DEF SearchInv
<1> QED BY <1>7, <1>8

LEMMA SearchStep == TypeInv /\ SearchInv /\ [Next]_vars => SearchInv'
<1> SUFFICES ASSUME TypeInv, SearchInv, [Next]_vars PROVE SearchInv'
  OBVIOUS
<1>0. TypeOK /\ FramesInv /\ library \in Libraries /\ Dispatch \in Infos
  BY InformationAssumption DEF TypeInv, TypeOK
<1>1. ASSUME UNCHANGED <<library, memberVars>>,
             \/ stage' = stage
             \/ stage' \in {"scanning", "found", "running", "failed"} /\ sought = NoMember
      PROVE  SearchInv'
  <2> DEFINE Resolved == /\ result \in {sought, NoMember}
                         /\ result = sought => Offered
                         /\ Offered /\ ~failed => result = sought
  <2>1. OnChain' <=> OnChain
    BY <1>1, SameLibrary DEF memberVars, OnChain
  <2>2. ResolvesFirstChain' <=> (stage' = "running" /\ sought # NoMember => Resolved)
    <3>1. Offered' <=> Offered
      BY <1>1, SameLibrary DEF memberVars
    <3>2. /\ result' = result /\ sought' = sought /\ failed' = failed
      BY <1>1 DEF memberVars
    <3> QED BY <3>1, <3>2 DEF ResolvesFirstChain, Offered
  <2>3. ResolvesFirstChain <=> (stage = "running" /\ sought # NoMember => Resolved)
    BY DEF ResolvesFirstChain, Offered
  <2>4. (\A k \in 1 .. Len(frames) : Vain(frames[k].info, frames[k].pass, frames[k].i)) =>
        (\A k \in 1 .. Len(frames) : Vain(frames[k].info, frames[k].pass, frames[k].i))'
    <3>1. ASSUME NEW k \in 1 .. Len(frames), Vain(frames[k].info, frames[k].pass, frames[k].i)
          PROVE  Vain(frames[k].info, frames[k].pass, frames[k].i)'
      <4>1. PICK u, p, i : u = frames[k].info /\ p = frames[k].pass /\ i = frames[k].i
        OBVIOUS
      <4>2. Vain(u, p, i)'
        BY <1>1, <3>1, <4>1, SameLibrary DEF memberVars
      <4> QED BY <1>1, <4>1, <4>2 DEF memberVars
    <3> QED BY <1>1, <3>1 DEF memberVars
  <2>5. Offered => Offered'
    BY <1>1, SameLibrary DEF memberVars
  <2>6. ForProperty' <=> ForProperty
    BY <1>1 DEF memberVars, ForProperty, Top
  <2>7. /\ sought' = sought /\ result' = result /\ invKind' = invKind /\ failed' = failed /\ found' = found
        /\ frames' = frames
    BY <1>1 DEF memberVars
  <2>8. CASE stage' = stage
    <3>1. stage \in {"created", "scanning", "found", "failed"} => sought = NoMember
      BY DEF SearchInv
    <3>2. stage = "running" => ResolvesFirstChain'
      BY <2>2, <2>3, <2>8 DEF SearchInv
    <3>3. ASSUME stage = "looking"
          PROVE  /\ sought # NoMember /\ result = NoMember /\ invKind \in Asked
                 /\ OnChain' /\ ForProperty' /\ (found => Offered')
                 /\ ~failed /\ ~found =>
                      (\A k \in 1 .. Len(frames) : Vain(frames[k].info, frames[k].pass, frames[k].i))'
      BY <2>1, <2>4, <2>5, <2>6, <3>3 DEF SearchInv
    <3> QED BY <2>7, <2>8, <3>1, <3>2, <3>3 DEF SearchInv
  <2>9. CASE stage' \in {"scanning", "found", "running", "failed"} /\ sought = NoMember
    BY <2>2, <2>7, <2>9 DEF SearchInv
  <2> QED BY <1>1, <2>8, <2>9
<1>2. CASE UNCHANGED vars
  BY <1>1, <1>2 DEF vars
<1>3. CASE StartScan \/ SkipType \/ TakeType \/ EndScan \/ Subscribe
  BY <1>1, <1>3 DEF StartScan, SkipType, TakeType, EndScan, Subscribe, SearchInv
<1>4. ASSUME NEW id \in Ids, NEW kinds \in Asked, ResolveName(id, kinds) PROVE SearchInv'
  <2>1. /\ stage = "running" /\ invKind' = kinds /\ sought' = id /\ result' = NoMember /\ found' = FALSE
        /\ library' = library /\ id # NoMember
    BY <1>4, InformationAssumption DEF ResolveName
  <2>2. CASE stage' = "looking" /\ frames' = Call(Dispatch)
    <3>1. frames = <<>>
      BY <1>0, <2>1 DEF FramesInv
    <3> QED BY <1>0, <2>1, <2>2, <3>1, CallSearches
  <2>3. CASE stage' = stage /\ failed' = TRUE
    <3>1. ResolvesFirstChain'
      BY <2>1, <2>3 DEF ResolvesFirstChain
    <3> QED BY <2>1, <2>3, <3>1 DEF SearchInv
  <2> QED BY <1>4, <2>2, <2>3 DEF ResolveName
<1>5. ASSUME stage = "looking"
      PROVE  /\ Top \in Frame /\ Top.i + 1 \in Nat \ {0} /\ Top.info \in Infos
             /\ FirstChain(Top.info) \subseteq FirstChain(Dispatch) /\ invKind \in Asked
             /\ ~failed /\ ~found => Vain(Top.info, Top.pass, Top.i)
  <2>1. frames \in Seq(Frame) /\ Len(frames) \in 1 .. Len(frames)
    BY <1>0, <1>5 DEF TypeOK, FramesInv
  <2>2. Top \in Frame
    BY <2>1, ElementOf DEF Top
  <2>3. Top.i + 1 \in Nat \ {0} /\ Top.info \in Infos
    BY <2>2 DEF Frame
  <2>4. PICK k \in 1 .. Len(frames) : k = Len(frames) /\ Top = frames[k]
    BY <2>1 DEF Top
  <2>5. FirstChain(Top.info) \subseteq FirstChain(Dispatch)
    BY <1>5, <2>4 DEF SearchInv, OnChain
  <2>6. invKind \in Asked
    BY <1>5 DEF SearchInv
  <2>7. ~failed /\ ~found => Vain(Top.info, Top.pass, Top.i)
    BY <1>5, <2>4 DEF SearchInv
  <2> QED BY <2>2, <2>3, <2>5, <2>6, <2>7
\* One who is found on the way is offered.
<1>6. ASSUME stage = "looking", Offers(Top.info, sought, invKind) PROVE Offered
  BY <1>0, <1>5, <1>6, ChainSteps DEF Offered
<1>7. CASE LookAtFunction
  <2>1. /\ stage = "looking" /\ ~found /\ Top.pass = "funcs" /\ Top.i <= Len(library[Top.info].funcs)
        /\ Advance("funcs", Top.i + 1)
        /\ UNCHANGED <<library, stage, held, sinkVars, invKind, sought, result>>
    BY <1>7 DEF LookAtFunction, InPass
  <2>2. DOMAIN library[Top.info].funcs = 1 .. Len(library[Top.info].funcs) /\ Top.i \in DOMAIN library[Top.info].funcs
    <3>1. Len(library[Top.info].funcs) \in Nat /\ Top.i \in Nat \ {0}
      BY <1>0, <1>5, <2>1, LibraryFact DEF Frame
    <3> QED BY <1>0, <1>5, <2>1, <3>1, FirstOf
  <2>3. PICK function : function = library[Top.info].funcs[Top.i]
    OBVIOUS
  <2>4. \/ found' = (function.memid = sought /\ function.invkind \in invKind) /\ failed' = failed
        \/ failed' = TRUE /\ found' = found
    BY <1>7, <2>3 DEF LookAtFunction
  <2>5. found' => Offered
    BY <1>6, <2>1, <2>2, <2>3, <2>4 DEF Offers
  <2>6. ~failed' /\ ~found' => Vain(Top.info, "funcs", Top.i + 1)
    <3>1. SUFFICES ASSUME ~failed', ~found' PROVE NoFunction(Top.info, Top.i + 1)
      BY DEF Vain
    <3>2. NoFunction(Top.info, Top.i) /\ ~(function.memid = sought /\ function.invkind \in invKind)
      BY <1>5, <2>1, <2>4, <3>1 DEF Vain
    <3>3. \A j \in DOMAIN library[Top.info].funcs : j < Top.i + 1 => j < Top.i \/ j = Top.i
      BY <2>2
    <3> QED BY <2>3, <3>2, <3>3 DEF NoFunction
  <2>7. failed => failed'
    BY <2>4
  <2> QED BY <1>0, <1>5, <2>1, <2>5, <2>6, <2>7, AdvanceSearches
<1>8. CASE EndFunctions
  <2>1. /\ stage = "looking" /\ ~found /\ Top.pass = "funcs" /\ Top.i > Len(library[Top.info].funcs)
        /\ Advance(IF invKind \subseteq {"func"} THEN "bases" ELSE "vars", 1)
        /\ UNCHANGED <<library, stage, held, sinkVars, invKind, found, sought, result, failed>>
    BY <1>8 DEF EndFunctions, InPass
  <2>2. PICK pass \in {"funcs", "vars", "bases"} : pass = IF invKind \subseteq {"func"} THEN "bases" ELSE "vars"
    OBVIOUS
  <2>3. ~failed /\ ~found => Vain(Top.info, pass, 1)
    <3>1. SUFFICES ASSUME ~failed, ~found PROVE Vain(Top.info, pass, 1)
      OBVIOUS
    <3>2. NoFunction(Top.info, AllFunctions(Top.info))
      <4>1. NoFunction(Top.info, Top.i)
        BY <1>5, <2>1, <3>1 DEF Vain
      <4>2. DOMAIN library[Top.info].funcs = 1 .. Len(library[Top.info].funcs) /\ Len(library[Top.info].funcs) \in Nat
        BY <1>0, <1>5, <2>1, FirstOf, LibraryFact
      <4>3. Top.i \in Nat
        BY <1>5, <2>1 DEF Frame
      <4> QED BY <2>1, <4>1, <4>2, <4>3 DEF NoFunction
    <3>3. pass = "bases" => invKind = {"func"}
      BY <1>5, <2>1, <2>2 DEF Asked
    <3>4. \A j \in DOMAIN library[Top.info].vars : ~(j < 1)
      <4>1. DOMAIN library[Top.info].vars = 1 .. Len(library[Top.info].vars) /\ Len(library[Top.info].vars) \in Nat
        BY <1>0, <1>5, <2>1, FirstOf, LibraryFact
      <4> QED BY <4>1
    <3> QED BY <2>2, <3>2, <3>3, <3>4 DEF Vain, NoVariable
  <2>4. Advance(pass, 1) /\ 1 \in Nat \ {0}
    BY <2>1, <2>2
  <2>5. pass = "vars" => invKind # {"func"}
    BY <2>2
  <2>6. found' => Offered
    BY <2>1
  <2> QED BY <1>0, <2>1, <2>3, <2>4, <2>5, <2>6, AdvanceSearches
<1>9. CASE LookAtVariable
  <2>1. /\ stage = "looking" /\ ~found /\ Top.pass = "vars" /\ Top.i <= Len(library[Top.info].vars)
        /\ Advance("vars", Top.i + 1)
        /\ UNCHANGED <<library, stage, held, sinkVars, invKind, sought, result>>
        /\ \/ found' = (library[Top.info].vars[Top.i] = sought) /\ failed' = failed
           \/ failed' = TRUE /\ found' = found
    BY <1>9 DEF LookAtVariable, InPass
  <2>2. DOMAIN library[Top.info].vars = 1 .. Len(library[Top.info].vars) /\ Top.i \in DOMAIN library[Top.info].vars
    <3>1. Len(library[Top.info].vars) \in Nat /\ Top.i \in Nat \ {0}
      BY <1>0, <1>5, <2>1, LibraryFact DEF Frame
    <3> QED BY <1>0, <1>5, <2>1, <3>1, FirstOf
  <2>3. found' => Offered
    <3>1. ASSUME found' PROVE Offered
      <4>1. library[Top.info].vars[Top.i] = sought
        BY <2>1, <3>1
      <4>2. invKind # {"func"}
        BY <2>1 DEF SearchInv, ForProperty
      <4> QED BY <1>6, <2>1, <2>2, <4>1, <4>2 DEF Offers
    <3> QED BY <3>1
  <2>4. ~failed' /\ ~found' => Vain(Top.info, "vars", Top.i + 1)
    <3>1. SUFFICES ASSUME ~failed', ~found' PROVE Vain(Top.info, "vars", Top.i + 1)
      OBVIOUS
    <3>2. Vain(Top.info, "vars", Top.i)
      <4>1. ~failed
        BY <2>1, <3>1
      <4> QED BY <1>5, <2>1, <4>1
    <3>4. library[Top.info].vars[Top.i] # sought
      BY <2>1, <3>1
    <3>3. \A j \in DOMAIN library[Top.info].vars : j < Top.i + 1 => j < Top.i \/ j = Top.i
      BY <2>2
    <3> QED BY <3>2, <3>3, <3>4 DEF Vain, NoVariable
  <2>5. failed => failed'
    BY <2>1
  <2>6. invKind # {"func"}
    BY <2>1 DEF SearchInv, ForProperty
  <2> QED BY <1>0, <1>5, <2>1, <2>3, <2>4, <2>5, <2>6, AdvanceSearches
<1>10. CASE EndVariables
  <2>1. /\ stage = "looking" /\ ~found /\ Top.pass = "vars" /\ Top.i > Len(library[Top.info].vars)
        /\ Advance("bases", 1) /\ 1 \in Nat \ {0}
        /\ UNCHANGED <<library, stage, held, sinkVars, invKind, found, sought, result, failed>>
    BY <1>10 DEF EndVariables, InPass
  <2>2. ~failed /\ ~found => Vain(Top.info, "bases", 1)
    <3>1. SUFFICES ASSUME ~failed, ~found PROVE Vain(Top.info, "bases", 1)
      OBVIOUS
    <3>2. Vain(Top.info, "vars", Top.i)
      BY <1>5, <2>1, <3>1
    <3>3. NoVariable(Top.info, AllVariables(Top.info))
      <4>1. DOMAIN library[Top.info].vars = 1 .. Len(library[Top.info].vars) /\ Len(library[Top.info].vars) \in Nat
        BY <1>0, <1>5, <2>1, FirstOf, LibraryFact
      <4>2. Top.i \in Nat
        BY <1>5, <2>1 DEF Frame
      <4> QED BY <2>1, <3>2, <4>1, <4>2 DEF Vain, NoVariable
    <3> QED BY <3>2, <3>3 DEF Vain
  <2> QED BY <1>0, <2>1, <2>2, AdvanceSearches
<1>11. CASE SearchBase
  <2>1. /\ stage = "looking" /\ ~found /\ Top.pass = "bases" /\ Top.i <= Len(library[Top.info].bases)
        /\ UNCHANGED <<library, stage, sinkVars, invKind, found, sought, result>>
        /\ \/ frames' = Call(Base) /\ failed' = failed
           \/ failed' = TRUE /\ Advance("bases", Top.i + 1)
    BY <1>11 DEF SearchBase, InPass
  <2>2. library[Top.info].bases # <<>> /\ Base = FirstBase(Top.info) /\ Base \in Infos
    <3>1. Top.i \in Nat \ {0}
      BY <1>5, <2>1 DEF Frame
    <3>2. library[Top.info].bases # <<>>
      BY <2>1, <3>1
    <3>3. Base = FirstBase(Top.info)
      BY DEF Base, FirstBase
    <3> QED BY <1>0, <1>5, <2>1, <3>2, <3>3, ChainSteps
  <2>3. CASE frames' = Call(Base) /\ failed' = failed
    <3>1. sought' # NoMember /\ result' = NoMember /\ invKind' \in Asked
      BY <2>1 DEF SearchInv
    <3> QED BY <1>0, <2>1, <2>2, <2>3, <3>1, CallSearches
  <2>4. CASE failed' = TRUE /\ Advance("bases", Top.i + 1)
    BY <1>0, <1>5, <2>1, <2>4, AdvanceSearches
  <2> QED BY <2>1, <2>3, <2>4
<1>12. CASE EndCall
  BY <1>0, <1>12, EndCallSearches
<1> QED BY <1>2, <1>3, <1>4, <1>7, <1>8, <1>9, <1>10, <1>11, <1>12 DEF Next

-----------------------------------------------------------------------------
\* The invariant holds for all libraries, names and failures.
THEOREM Searching == Spec => []TypeInv
BY TypeInit, TypeStep, PTL DEF Spec

\* Each call of the search stands at a type, in a pass and at a member it has, and
\* the result is an id or none.
THEOREM SearchTyping == Spec => []TypeOK
<1>1. TypeInv => TypeOK BY DEF TypeInv
<1>2. QED BY Searching, <1>1, PTL

\* However deep the search goes, and wherever it is left, each TYPEATTR it took is
\* given back by the call that took it, and by no other.
THEOREM AttributesReturned == Spec => []AttributesBalanced
<1>1. TypeInv => AttributesBalanced BY DEF TypeInv
<1>2. QED BY Searching, <1>1, PTL

\* NPP_New never looks up an event without the type information of a default
\* source, whatever failed while the sink subscribed.
THEOREM EventsKnown == Spec => []SinkKnowsEvents
<1>1. TypeInv => SinkKnowsEvents BY DEF TypeInv, SinkInv
<1>2. QED BY Searching, <1>1, PTL

\* A name resolves to its id when any interface of the hierarchy has the member,
\* unless a call fails or only types behind a base other than the first have it; and
\* it resolves to nothing else, for all libraries, names and failures.
THEOREM MembersFound == Spec => []MembersResolve
<1>1. Init => SearchInv
  BY DEF Init, SearchInv
<1>2. SearchInv => MembersResolve
  <2> SUFFICES ASSUME ResolvesFirstChain PROVE MembersResolve
    BY DEF SearchInv, ResolvesFirstChain, MembersResolve
  <2> DEFINE offering == {t \in Hierarchy(Dispatch) : Offers(t, sought, invKind)}
  <2>1. FirstChain(Dispatch) \subseteq Hierarchy(Dispatch)
    BY ChainInHierarchy, InformationAssumption
  <2>2. Offered <=> offering \cap FirstChain(Dispatch) # {}
    BY <2>1 DEF Offered
  <2> HIDE DEF offering
  <2>3. (stage = "running" /\ sought # NoMember) =>
          /\ result \in {sought, NoMember}
          /\ result = sought => offering # {} /\ offering \cap FirstChain(Dispatch) # {}
          /\ offering # {} /\ ~failed => result = sought \/ offering \cap FirstChain(Dispatch) = {}
    BY <2>2 DEF ResolvesFirstChain
  <2> QED BY <2>3 DEF MembersResolve, offering
<1> QED BY <1>1, <1>2, SearchStep, Searching, PTL DEF Spec
=============================================================================

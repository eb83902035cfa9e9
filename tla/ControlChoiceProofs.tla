-------------------------- MODULE ControlChoiceProofs -------------------------
(***************************************************************************)
(* Proofs about ControlChoice, for any lists of arguments, any registry    *)
(* and both builds.                                                        *)
(***************************************************************************)
EXTENDS ControlChoice, SequenceTheorems, WellFoundedInduction, TLAPS

\* How far the two loops are, and what the host cannot have been told yet.
StageInv ==
  /\ arguments \in Arguments
  /\ stage \in {"authorizing", "choosing", "refused", "invalid", "created"}
  /\ i \in 1 .. Len(arguments) + 1
  /\ policy \in {"none", "kept", "dropped"}
  /\ stage \in {"authorizing", "refused"} => ClsID = NullClass /\ ~isKnown
  /\ policy # "none" => stage = "created"

\* The last usable argument decides already while the loop goes on.
DecidesInv ==
  ClsID # NullClass =>
    \A j \in Passed("clsid") \cup Passed("progid") :
      \/ Refused(arguments[j])
      \/ Named(arguments[j]) = NoClass
      \/ \E k \in Naming : k >= j

\* A passed argument explains isKnown; and where only well known classes are
\* accepted, the present one was named as such.
KnownArgument(j) ==
  /\ IsWellKnown(arguments[j].value)
  /\ arguments[j].kind = "clsid" \/ installation.AcceptOnlyWellKnown

KnownInv ==
  /\ isKnown => \E j \in Passed("clsid") \cup Passed("progid") : KnownArgument(j)
  /\ policy = "dropped" => isKnown
  /\ installation.AcceptOnlyWellKnown /\ ClsID # NullClass =>
       \E j \in Naming : IsWellKnown(arguments[j].value)

ChoiceInv == StageInv /\ ClassIsVerified /\ DecidesInv /\ KnownInv

LEMMA ChoiceInit == Init => ChoiceInv
<1> SUFFICES ASSUME Init PROVE ChoiceInv
  OBVIOUS
<1>1. Len(arguments) \in Nat
  BY ChoiceAssumption DEF Init
<1>2. i \in 1 .. Len(arguments) + 1
  BY <1>1 DEF Init
<1> QED BY <1>2 DEF Init, ChoiceInv, StageInv, ClassIsVerified, DecidesInv, KnownInv

-----------------------------------------------------------------------------
(***************************************************************************)
(* What one more argument changes.                                         *)
(***************************************************************************)

\* The argument the loop is at is passed; the others stay as they were.
LEMMA PassedGrows ==
  ASSUME StageInv, InLoop("choosing"), i' = i + 1, UNCHANGED inputVars, NEW kind
  PROVE  /\ Passed(kind) \subseteq Passed(kind)'
         /\ Argument.kind = kind => i \in Passed(kind)'
         /\ \A j \in Passed(kind)' : j \in Passed(kind) \/ (j = i /\ Argument.kind = kind)
         /\ \A j \in Passed(kind) : j \in Nat /\ j < i
         /\ i \in Nat
<1>1. Len(arguments) \in Nat
  BY ChoiceAssumption DEF StageInv
<1>2. i \in Nat /\ 1 <= i /\ UNCHANGED arguments
  BY <1>1 DEF StageInv, inputVars
<1>3. 1 .. i' - 1 = 1 .. i
  BY <1>2
<1>4. \A j \in 1 .. i : j \in 1 .. i - 1 \/ j = i
  BY <1>2
<1>5. i \in 1 .. i /\ 1 .. i - 1 \subseteq 1 .. i
  BY <1>2
<1>6. \A j \in 1 .. i - 1 : j \in Nat /\ j < i
  BY <1>2
<1> QED BY <1>2, <1>3, <1>4, <1>5, <1>6 DEF Passed, Argument

\* The loop goes on.
LEMMA StageGrows ==
  ASSUME StageInv, InLoop("choosing"), i' = i + 1, UNCHANGED <<inputVars, stage, policy>>
  PROVE  StageInv'
<1>1. Len(arguments) \in Nat
  BY ChoiceAssumption DEF StageInv
<1>2. i' \in 1 .. Len(arguments) + 1
  BY <1>1 DEF StageInv, InLoop
<1> QED BY <1>2 DEF StageInv, InLoop, inputVars

\* An argument that cannot be used leaves the class as it is, or forgets it.
LEMMA ArgumentUnused ==
  ASSUME ChoiceInv, InLoop("choosing"), i' = i + 1, UNCHANGED <<inputVars, stage, policy>>,
         ClsID' \in {ClsID, NullClass},
         isKnown' => isKnown \/ (Argument.kind \in {"clsid", "progid"} /\ KnownArgument(i)),
         isKnown => isKnown',
         \/ Argument.kind = "codebase"
         \/ Refused(Argument)
         \/ Named(Argument) = NoClass
  PROVE  ChoiceInv'
<1>1. StageInv'
  BY StageGrows DEF ChoiceInv
<1>2. /\ arguments' = arguments /\ installation' = installation /\ killed' = killed
      /\ \A t : IsWellKnown(t)' <=> IsWellKnown(t)
      /\ \A a : Refused(a)' <=> Refused(a)
  BY DEF inputVars, IsWellKnown, Lowered, Refused, HasKillBit
<1> DEFINE P == Passed("clsid") \cup Passed("progid")
<1>3. /\ P \subseteq P'
      /\ \A j \in P' : j \in P \/ (j = i /\ Argument.kind \in {"clsid", "progid"})
      /\ Argument.kind \in {"clsid", "progid"} => i \in P'
  BY PassedGrows DEF ChoiceInv
<1>4. ClsID' # NullClass => ClsID' = ClsID /\ Naming \subseteq Naming'
  BY <1>2, <1>3 DEF Naming
<1>5. ClassIsVerified'
  BY <1>2, <1>4 DEF ChoiceInv, ClassIsVerified
<1>6. DecidesInv'
  <2> SUFFICES ASSUME ClsID' # NullClass, NEW j \in P'
               PROVE  \/ Refused(arguments[j])
                      \/ Named(arguments[j]) = NoClass
                      \/ \E k \in Naming' : k >= j
    BY <1>2 DEF DecidesInv
  <2>1. CASE j \in P
    BY <1>4, <2>1 DEF ChoiceInv, DecidesInv
  <2>2. CASE j = i /\ Argument.kind \in {"clsid", "progid"}
    BY <2>2 DEF Argument
  <2> QED BY <1>3, <2>1, <2>2
<1>7. KnownInv'
  <2>1. isKnown' => \E j \in P' : KnownArgument(j)'
    <3>1. \A j : KnownArgument(j)' <=> KnownArgument(j)
      BY <1>2 DEF KnownArgument
    <3> QED BY <1>3, <3>1 DEF ChoiceInv, KnownInv
  <2>2. policy' = "dropped" => isKnown'
    BY DEF ChoiceInv, KnownInv
  <2>3. installation'.AcceptOnlyWellKnown /\ ClsID' # NullClass =>
          \E j \in Naming' : IsWellKnown(arguments[j].value)'
    BY <1>2, <1>4 DEF ChoiceInv, KnownInv
  <2> QED BY <2>1, <2>2, <2>3 DEF KnownInv
<1> QED BY <1>1, <1>5, <1>6, <1>7 DEF ChoiceInv

\* An argument that is used names the class from now on.
LEMMA ArgumentUsed ==
  ASSUME ChoiceInv, InLoop("choosing"), i' = i + 1, UNCHANGED <<inputVars, stage, policy>>,
         Argument.kind \in {"clsid", "progid"},
         ClsID' = Named(Argument), ~Refused(Argument),
         isKnown' => isKnown \/ KnownArgument(i),
         isKnown => isKnown'
  PROVE  ChoiceInv'
<1>1. StageInv'
  BY StageGrows DEF ChoiceInv
<1>2. /\ arguments' = arguments /\ installation' = installation /\ killed' = killed
      /\ \A t : IsWellKnown(t)' <=> IsWellKnown(t)
      /\ \A a : Refused(a)' <=> Refused(a)
  BY DEF inputVars, IsWellKnown, Lowered, Refused, HasKillBit
<1> DEFINE P == Passed("clsid") \cup Passed("progid")
<1>3. /\ P \subseteq P'
      /\ \A j \in P' : j \in Nat /\ j <= i
      /\ i \in P' /\ i \in Nat
  BY PassedGrows DEF ChoiceInv
<1>4. i \in Naming'
  BY <1>2, <1>3 DEF Naming, Argument
<1>5. ClassIsVerified'
  <2>1. ClsID' \in killed => Argument.kind = "clsid" /\ Argument.value \notin ClassIds
    BY DEF Refused, HasKillBit
  <2> QED BY <1>2, <1>4, <2>1 DEF InLoop, ClassIsVerified, Argument
<1>6. DecidesInv'
  <2>1. \A j \in P' : \E k \in Naming' : k >= j
    BY <1>3, <1>4
  <2> QED BY <2>1 DEF DecidesInv
<1>7. KnownInv'
  <2>1. isKnown' => \E j \in P' : KnownArgument(j)'
    <3>1. \A j : KnownArgument(j)' <=> KnownArgument(j)
      BY <1>2 DEF KnownArgument
    <3> QED BY <1>3, <3>1 DEF ChoiceInv, KnownInv
  <2>2. policy' = "dropped" => isKnown'
    BY DEF ChoiceInv, KnownInv
  <2>3. installation'.AcceptOnlyWellKnown /\ ClsID' # NullClass =>
          \E j \in Naming' : IsWellKnown(arguments[j].value)'
    BY <1>2, <1>4 DEF Argument, Refused
  <2> QED BY <2>1, <2>2, <2>3 DEF KnownInv
<1> QED BY <1>1, <1>5, <1>6, <1>7 DEF ChoiceInv

\* Nothing that the host knows changes, and no argument is passed.
LEMMA ArgumentsStay ==
  ASSUME ChoiceInv, StageInv', UNCHANGED <<inputVars, ClsID, isKnown>>, policy' = "dropped" => isKnown,
         ClsID # NullClass \/ isKnown => i' = i /\ stage' \in {"choosing", "invalid", "created"}
  PROVE  ChoiceInv'
<1>1. /\ arguments' = arguments /\ installation' = installation /\ killed' = killed
      /\ \A t : IsWellKnown(t)' <=> IsWellKnown(t)
      /\ \A a : Refused(a)' <=> Refused(a)
  BY DEF inputVars, IsWellKnown, Lowered, Refused, HasKillBit
<1>2. ClsID # NullClass \/ isKnown =>
        \A kind : Passed(kind)' = Passed(kind)
  BY <1>1 DEF Passed
<1>3. ClsID # NullClass => Naming' = Naming
  BY <1>1, <1>2 DEF Naming
<1>4. ClassIsVerified'
  BY <1>1, <1>3 DEF ChoiceInv, ClassIsVerified
<1>5. DecidesInv'
  BY <1>1, <1>2, <1>3 DEF ChoiceInv, DecidesInv
<1>6. KnownInv'
  BY <1>1, <1>2, <1>3 DEF ChoiceInv, KnownInv, KnownArgument
<1> QED BY <1>4, <1>5, <1>6 DEF ChoiceInv

-----------------------------------------------------------------------------
LEMMA ChoiceStep == ChoiceInv /\ [Next]_vars => ChoiceInv'
<1> SUFFICES ASSUME ChoiceInv, [Next]_vars PROVE ChoiceInv'
  OBVIOUS
<1>0. Len(arguments) \in Nat /\ i \in Nat
  BY ChoiceAssumption DEF ChoiceInv, StageInv
<1>1. CASE UNCHANGED vars
  <2>1. StageInv'
    BY <1>1 DEF vars, inputVars, hostVars, ChoiceInv, StageInv
  <2> QED BY <1>1, <2>1, ArgumentsStay DEF vars, hostVars, ChoiceInv, StageInv, KnownInv
<1>2. CASE VerifySiteLock
  <2>1. StageInv' /\ ClsID = NullClass /\ ~isKnown
    BY <1>2 DEF VerifySiteLock, inputVars, hostVars, ChoiceInv, StageInv
  <2> QED BY <1>2, <2>1, ArgumentsStay DEF VerifySiteLock, hostVars, ChoiceInv, KnownInv
<1>3. CASE Authorize
  <2>1. i' \in 1 .. Len(arguments) + 1
    BY <1>0, <1>3 DEF Authorize, InLoop
  <2>2. StageInv' /\ ClsID = NullClass /\ ~isKnown
    BY <1>3, <2>1 DEF Authorize, InLoop, inputVars, hostVars, ChoiceInv, StageInv
  <2> QED BY <1>3, <2>2, ArgumentsStay DEF Authorize, hostVars, ChoiceInv, KnownInv
<1>4. CASE EndAuthorization
  <2>1. 1 \in 1 .. Len(arguments) + 1
    BY <1>0
  <2>2. StageInv' /\ ClsID = NullClass /\ ~isKnown
    BY <1>4, <2>1 DEF EndAuthorization, inputVars, hostVars, ChoiceInv, StageInv
  <2> QED BY <1>4, <2>2, ArgumentsStay DEF EndAuthorization, hostVars, ChoiceInv, KnownInv
<1>5. CASE SetClsID
  <2>1. isKnown' => isKnown \/ KnownArgument(i)
    BY <1>5 DEF SetClsID, KnownArgument, Known, Argument
  <2>2. CASE Refused(Argument) \/ Named(Argument) = NoClass
    BY <1>5, <2>1, <2>2, ArgumentUnused DEF SetClsID
  <2>3. CASE ~Refused(Argument) /\ Named(Argument) # NoClass
    BY <1>5, <2>1, <2>3, ArgumentUsed DEF SetClsID
  <2> QED BY <2>2, <2>3
<1>6. CASE SetClsIDFromProgID
  <2>1. isKnown' => isKnown \/ KnownArgument(i)
    BY <1>6 DEF SetClsIDFromProgID, KnownArgument, Known, Argument
  <2>2. CASE Refused(Argument) \/ Named(Argument) = NoClass
    BY <1>6, <2>1, <2>2, ArgumentUnused DEF SetClsIDFromProgID
  <2>3. CASE ~Refused(Argument) /\ Named(Argument) # NoClass
    BY <1>6, <2>1, <2>3, ArgumentUsed DEF SetClsIDFromProgID
  <2> QED BY <2>2, <2>3
<1>7. CASE SetCodeBaseUrl
  BY <1>7, ArgumentUnused DEF SetCodeBaseUrl
<1>8. CASE CreateControl
  <2>1. StageInv' /\ policy' = "dropped" => isKnown
    BY <1>8 DEF CreateControl, ChoiceInv, StageInv, KnownInv
  <2>2. StageInv'
    BY <1>8 DEF CreateControl, inputVars, hostVars, ChoiceInv, StageInv
  <2> QED BY <1>8, <2>1, <2>2, ArgumentsStay DEF CreateControl, hostVars
<1> QED BY <1>1, <1>2, <1>3, <1>4, <1>5, <1>6, <1>7, <1>8 DEF Next

-----------------------------------------------------------------------------
\* The invariant holds for all arguments, registries and builds.
THEOREM Choosing == Spec => []ChoiceInv
BY ChoiceInit, ChoiceStep, PTL DEF Spec

\* Whatever the order of the arguments, a class that is not CLSID_NULL was named
\* by one of them and has no kill bit, unless the page gave a program id as a
\* class id.
THEOREM Verified == Spec => []ClassIsVerified
<1>1. ChoiceInv => ClassIsVerified
  BY DEF ChoiceInv
<1> QED BY Choosing, <1>1, PTL

\* An earlier argument names the class only if no later one is usable.
THEOREM LastDecides == Spec => []LastUsableDecides
<1>1. ChoiceInv => LastUsableDecides
  BY DEF ChoiceInv, DecidesInv, LastUsableDecides
<1> QED BY Choosing, <1>1, PTL

\* The policy is dropped only for a control that is well known, or, where others
\* are accepted, beside a class id that is.
THEOREM PolicyKnown == Spec => []DroppedPolicyIsKnown
<1>1. ChoiceInv => DroppedPolicyIsKnown
  <2> SUFFICES ASSUME ChoiceInv, policy = "dropped", ClsID # NullClass,
                      ~(\E j \in Naming : IsWellKnown(arguments[j].value))
               PROVE  /\ ~installation.AcceptOnlyWellKnown
                      /\ \E j \in Passed("clsid") \ Naming : IsWellKnown(arguments[j].value)
    BY DEF DroppedPolicyIsKnown
  <2>1. ~installation.AcceptOnlyWellKnown
    BY DEF ChoiceInv, KnownInv
  <2>2. PICK j \in Passed("clsid") \cup Passed("progid") : KnownArgument(j)
    BY DEF ChoiceInv, KnownInv
  <2>3. j \in Passed("clsid") /\ IsWellKnown(arguments[j].value)
    BY <2>1, <2>2 DEF KnownArgument, Passed
  <2> QED BY <2>1, <2>3
<1> QED BY Choosing, <1>1, PTL

-----------------------------------------------------------------------------
(***************************************************************************)
(* The wildcards.  The loop of WildcardMatch and its calls of itself read  *)
(* a mask and a text from two positions on; what they find out is that the *)
(* rest of the one covers the rest of the other.                           *)
(***************************************************************************)

\* Numbers have a least one: what takes the place of an induction.
LEMMA SmallestOf ==
  ASSUME NEW S \in SUBSET Nat, S # {}
  PROVE  \E m \in S : \A n \in S : m <= n
<1>1. \E R : /\ \A m, n \in Nat : m < n => <<m, n>> \in R
             /\ \E m \in S : \A n \in S : <<n, m>> \notin R
  <2>1. IsWellFoundedOn(OpToRel(<, Nat), Nat)
    BY NatLessThanWellFounded
  <2>2. \A m, n \in Nat : m < n => <<m, n>> \in OpToRel(<, Nat)
    BY DEF OpToRel
  <2>3. \E m \in S : \A n \in S : ~(<<n, m>> \in OpToRel(<, Nat))
    BY <2>1, WFMin
  <2> QED BY <2>2, <2>3, Zenon
<1>2. PICK R : /\ \A m, n \in Nat : m < n => <<m, n>> \in R
               /\ \E m \in S : \A n \in S : <<n, m>> \notin R
  BY <1>1
<1>3. PICK m \in S : \A n \in S : <<n, m>> \notin R
  BY <1>2
<1>4. \A n \in S : n \in Nat /\ m \in Nat /\ ~(n < m)
  BY <1>2, <1>3
<1> QED BY <1>4

\* A cut of the text into pieces for the mask, from position p of the mask and
\* position j of the text on.
CutsRest(mask, text, p, j, cut) ==
  /\ cut[p - 1] = j - 1
  /\ cut[Len(mask)] = Len(text)
  /\ \A k \in p .. Len(mask) :
       /\ cut[k - 1] <= cut[k]
       /\ mask[k] # "*" => cut[k] = cut[k - 1] + 1 /\ mask[k] \in {"?", text[cut[k]]}

RestCovered(mask, text, p, j) ==
  \E cut \in [p - 1 .. Len(mask) -> 0 .. Len(text)] : CutsRest(mask, text, p, j, cut)

\* From the beginning, that is the reference.
LEMMA AllCovered ==
  ASSUME NEW mask \in Mask, NEW text, Len(text) \in Nat
  PROVE  Covers(mask, text) <=> RestCovered(mask, text, 1, 1)
<1>1. 1 - 1 = 0
  OBVIOUS
<1> QED BY <1>1 DEF Covers, RestCovered, CutsRest

\* Behind the mask, the end of the text has to be reached.
LEMMA EndCovered ==
  ASSUME NEW mask \in Mask, NEW text, Len(text) \in Nat, NEW j \in Nat \ {0}
  PROVE  RestCovered(mask, text, Len(mask) + 1, j) <=> j = Len(text) + 1
<1>1. Len(mask) \in Nat /\ Len(text) \in Nat
  BY DEF Mask, Text
<1>2. (Len(mask) + 1) - 1 = Len(mask) /\ \A k \in Len(mask) + 1 .. Len(mask) : FALSE
  BY <1>1
<1>3. ASSUME j = Len(text) + 1 PROVE RestCovered(mask, text, Len(mask) + 1, j)
  <2> DEFINE cut == [k \in Len(mask) .. Len(mask) |-> Len(text)]
  <2>1. cut \in [Len(mask) .. Len(mask) -> 0 .. Len(text)] /\ cut[Len(mask)] = Len(text)
    BY <1>1
  <2> HIDE DEF cut
  <2>2. CutsRest(mask, text, Len(mask) + 1, j, cut)
    <3>1. cut[(Len(mask) + 1) - 1] = j - 1
      BY <1>1, <1>2, <1>3, <2>1
    <3> QED BY <1>2, <2>1, <3>1 DEF CutsRest
  <2> QED BY <1>2, <2>1, <2>2 DEF RestCovered
<1>4. ASSUME RestCovered(mask, text, Len(mask) + 1, j) PROVE j = Len(text) + 1
  <2>1. PICK cut : CutsRest(mask, text, Len(mask) + 1, j, cut)
    BY <1>4 DEF RestCovered
  <2>2. cut[(Len(mask) + 1) - 1] = j - 1 /\ cut[Len(mask)] = Len(text)
    BY <2>1 DEF CutsRest
  <2>3. Len(text) = j - 1
    BY <1>2, <2>2
  <2> QED BY <1>1, <2>3
<1> QED BY <1>3, <1>4

\* Before, the first character of the rest of the mask gets a piece.
LEMMA PieceCovered ==
  ASSUME NEW mask \in Mask, NEW text, Len(text) \in Nat, NEW p \in 1 .. Len(mask), NEW j \in Nat \ {0}
  PROVE  RestCovered(mask, text, p, j) <=>
           \E k \in j .. Len(text) + 1 :
             /\ RestCovered(mask, text, p + 1, k)
             /\ mask[p] # "*" => k = j + 1 /\ mask[p] \in {"?", text[j]}
<1>0. /\ Len(mask) \in Nat /\ Len(text) \in Nat /\ p \in Nat /\ (p + 1) - 1 = p /\ p \in p .. Len(mask)
      /\ p - 1 \in p - 1 .. Len(mask) /\ Len(mask) \in p - 1 .. Len(mask) /\ Len(mask) \in p .. Len(mask)
  BY DEF Mask, Text
<1>1. ASSUME RestCovered(mask, text, p, j)
      PROVE  \E k \in j .. Len(text) + 1 :
               /\ RestCovered(mask, text, p + 1, k)
               /\ mask[p] # "*" => k = j + 1 /\ mask[p] \in {"?", text[j]}
  <2>1. PICK cut \in [p - 1 .. Len(mask) -> 0 .. Len(text)] : CutsRest(mask, text, p, j, cut)
    BY <1>1 DEF RestCovered
  <2>2. /\ cut[p - 1] = j - 1 /\ cut[p] \in 0 .. Len(text) /\ cut[p - 1] <= cut[p]
        /\ mask[p] # "*" => cut[p] = cut[p - 1] + 1 /\ mask[p] \in {"?", text[cut[p]]}
    BY <1>0, <2>1 DEF CutsRest
  <2>3. PICK k \in j .. Len(text) + 1 : k = cut[p] + 1
    <3>1. cut[p] \in 0 .. Len(text) /\ j - 1 <= cut[p]
      BY <2>2
    <3>2. cut[p] + 1 \in j .. Len(text) + 1
      BY <1>0, <3>1
    <3> QED BY <3>2
  <2>4. mask[p] # "*" => k = j + 1 /\ mask[p] \in {"?", text[j]}
    <3>1. ASSUME mask[p] # "*" PROVE cut[p] = j
      BY <2>2, <3>1
    <3> QED BY <2>2, <2>3, <3>1
  <2> DEFINE rest == [l \in p .. Len(mask) |-> cut[l]]
  <2>5. \A l \in p .. Len(mask) : l \in p - 1 .. Len(mask) /\ cut[l] \in 0 .. Len(text) /\ rest[l] = cut[l]
    BY <1>0, <2>1
  <2>6. rest \in [p .. Len(mask) -> 0 .. Len(text)]
    BY <2>5
  <2>7. \A l \in p + 1 .. Len(mask) : l \in p .. Len(mask) /\ l - 1 \in p .. Len(mask)
    BY <1>0
  <2> HIDE DEF rest
  <2>8. CutsRest(mask, text, p + 1, k, rest)
    <3>1. rest[p] = k - 1 /\ rest[Len(mask)] = Len(text)
      <4>1. rest[p] = cut[p] /\ rest[Len(mask)] = cut[Len(mask)]
        BY <1>0, <2>5
      <4>2. cut[Len(mask)] = Len(text)
        BY <2>1 DEF CutsRest
      <4>3. cut[p] = k - 1
        BY <2>2, <2>3
      <4> QED BY <4>1, <4>2, <4>3
    <3>2. ASSUME NEW l \in p + 1 .. Len(mask)
          PROVE  /\ rest[l - 1] <= rest[l]
                 /\ mask[l] # "*" => rest[l] = rest[l - 1] + 1 /\ mask[l] \in {"?", text[rest[l]]}
      BY <2>1, <2>5, <2>7 DEF CutsRest
    <3> QED BY <1>0, <3>1, <3>2 DEF CutsRest
  <2>9. RestCovered(mask, text, p + 1, k)
    BY <1>0, <2>6, <2>8 DEF RestCovered
  <2> QED BY <2>4, <2>9
<1>2. ASSUME NEW k \in j .. Len(text) + 1, RestCovered(mask, text, p + 1, k),
             mask[p] # "*" => k = j + 1 /\ mask[p] \in {"?", text[j]}
      PROVE  RestCovered(mask, text, p, j)
  <2>1. PICK rest \in [p .. Len(mask) -> 0 .. Len(text)] : CutsRest(mask, text, p + 1, k, rest)
    BY <1>0, <1>2 DEF RestCovered
  <2>2. rest[p] = k - 1 /\ rest[Len(mask)] = Len(text)
    BY <1>0, <2>1 DEF CutsRest
  <2> DEFINE cut == [l \in p - 1 .. Len(mask) |-> IF l = p - 1 THEN j - 1 ELSE rest[l]]
  <2>3. \A l \in p - 1 .. Len(mask) : l = p - 1 \/ l \in p .. Len(mask)
    BY <1>0
  <2>4. j - 1 \in 0 .. Len(text) /\ j - 1 <= k - 1 /\ k \in Nat
    BY <1>0
  <2>5. cut \in [p - 1 .. Len(mask) -> 0 .. Len(text)]
    BY <2>1, <2>3, <2>4
  <2>6. cut[p - 1] = j - 1 /\ \A l \in p .. Len(mask) : cut[l] = rest[l]
    <3>1. \A l \in p .. Len(mask) : l # p - 1 /\ l \in p - 1 .. Len(mask)
      BY <1>0
    <3> QED BY <1>0, <3>1
  <2> HIDE DEF cut
  <2>7. ASSUME NEW l \in p .. Len(mask)
        PROVE  /\ cut[l - 1] <= cut[l]
               /\ mask[l] # "*" => cut[l] = cut[l - 1] + 1 /\ mask[l] \in {"?", text[cut[l]]}
    <3>1. CASE l = p
      <4>1. cut[l - 1] = j - 1 /\ cut[l] = k - 1
        BY <1>0, <2>2, <2>6, <3>1
      <4>2. mask[l] # "*" => cut[l] = j /\ mask[l] \in {"?", text[j]}
        BY <1>2, <3>1, <4>1
      <4> QED BY <2>4, <4>1, <4>2
    <3>2. CASE l \in p + 1 .. Len(mask)
      <4>1. l - 1 \in p .. Len(mask)
        BY <1>0, <3>2
      <4> QED BY <2>1, <2>6, <3>2, <4>1 DEF CutsRest
    <3>3. l = p \/ l \in p + 1 .. Len(mask)
      BY <1>0
    <3> QED BY <3>1, <3>2, <3>3
  <2>8. CutsRest(mask, text, p, j, cut)
    BY <1>0, <2>2, <2>6, <2>7 DEF CutsRest
  <2> QED BY <2>5, <2>8 DEF RestCovered
<1> QED BY <1>1, <1>2

\* What the positions come to that the loop and its calls are at.
Matched(mask, text, match) ==
  match = [p \in 1 .. Len(mask) + 1 |->
            [j \in Nat \ {0} |->
               IF p > Len(mask) THEN j = Len(text)
               ELSE CASE mask[p] = "?" -> match[p + 1][j + 1]
                      [] mask[p] = "*" -> \E k \in j .. Len(text) : match[p + 1][k]
                      [] OTHER -> j < Len(text) /\ mask[p] = text[j] /\ match[p + 1][j + 1]]]

\* A text, lowered, and with the zero that ends it.
LEMMA LoweredText ==
  ASSUME NEW value \in Text
  PROVE  /\ Lowered(value) \in Seq({Lower[c] : c \in DOMAIN Lower})
         /\ Len(Lowered(value)) = Len(value) /\ Len(value) \in Nat
         /\ Len(Append(Lowered(value), "nul")) = Len(value) + 1
         /\ \A j \in 1 .. Len(value) : Append(Lowered(value), "nul")[j] = Lowered(value)[j]
<1> DEFINE S == {Lower[c] : c \in DOMAIN Lower}
           T == S \cup {"nul"}
<1>1. value \in Seq(DOMAIN Lower) /\ Len(value) \in Nat /\ DOMAIN value = 1 .. Len(value)
  BY DEF Text
<1>2. \A k \in 1 .. Len(value) : Lower[value[k]] \in S
  BY <1>1
<1>3. PICK low : low = [k \in 1 .. Len(value) |-> Lower[value[k]]]
  OBVIOUS
<1> HIDE DEF S
<1>4. low \in Seq(S) /\ Len(low) = Len(value) /\ low \in Seq(T)
  BY <1>1, <1>2, <1>3
<1>5. /\ Len(Append(low, "nul")) = Len(value) + 1
      /\ \A j \in 1 .. Len(value) : Append(low, "nul")[j] = low[j]
  BY <1>4
<1>6. Lowered(value) = low
  BY <1>1, <1>3 DEF Lowered
<1> QED BY <1>1, <1>4, <1>5, <1>6 DEF S

\* No rest begins behind the zero.
LEMMA InsideText ==
  ASSUME NEW mask \in Mask, NEW text, Len(text) \in Nat, NEW p \in 1 .. Len(mask) + 1,
         NEW j \in Nat \ {0}, RestCovered(mask, text, p, j)
  PROVE  j <= Len(text) + 1
<1>1. p - 1 \in p - 1 .. Len(mask)
  BY DEF Mask
<1>2. PICK cut \in [p - 1 .. Len(mask) -> 0 .. Len(text)] : CutsRest(mask, text, p, j, cut)
  BY DEF RestCovered
<1>3. cut[p - 1] \in 0 .. Len(text) /\ cut[p - 1] = j - 1
  BY <1>1, <1>2 DEF CutsRest
<1> QED BY <1>3

\* One round of the loop asks whether the rest is covered.
LEMMA RoundCovered ==
  ASSUME NEW mask \in Mask, NEW text, NEW low, Len(low) \in Nat, Len(text) = Len(low) + 1,
         \A k \in 1 .. Len(low) : text[k] = low[k],
         NEW p \in 1 .. Len(mask) + 1, NEW j \in Nat \ {0}
  PROVE  RestCovered(mask, low, p, j) <=>
           IF p > Len(mask) THEN j = Len(text)
           ELSE CASE mask[p] = "?" -> RestCovered(mask, low, p + 1, j + 1)
                  [] mask[p] = "*" -> \E k \in j .. Len(text) : RestCovered(mask, low, p + 1, k)
                  [] OTHER -> /\ j < Len(text) /\ mask[p] = text[j]
                              /\ RestCovered(mask, low, p + 1, j + 1)
<1>0. Len(mask) \in Nat
  BY DEF Mask
<1>1. CASE p > Len(mask)
  <2>1. p = Len(mask) + 1
    BY <1>0, <1>1
  <2> QED BY <1>1, <2>1, EndCovered
<1>2. CASE ~(p > Len(mask))
  <2>1. p \in 1 .. Len(mask) /\ p + 1 \in 1 .. Len(mask) + 1 /\ j + 1 \in Nat \ {0}
    BY <1>0, <1>2
  <2>2. RestCovered(mask, low, p + 1, j + 1) => j + 1 \in j .. Len(low) + 1 /\ j \in 1 .. Len(low)
    <3>1. RestCovered(mask, low, p + 1, j + 1) => j + 1 <= Len(low) + 1
      BY <2>1, InsideText
    <3> QED BY <3>1
  <2>3. RestCovered(mask, low, p, j) <=>
          \E k \in j .. Len(low) + 1 :
            /\ RestCovered(mask, low, p + 1, k)
            /\ mask[p] # "*" => k = j + 1 /\ mask[p] \in {"?", low[j]}
    BY <2>1, PieceCovered
  <2>4. CASE mask[p] = "?"
    <3>1. RestCovered(mask, low, p, j) <=> RestCovered(mask, low, p + 1, j + 1)
      BY <2>2, <2>3, <2>4
    <3> QED BY <1>2, <2>4, <3>1
  <2>5. CASE mask[p] = "*"
    <3>1. RestCovered(mask, low, p, j) <=> \E k \in j .. Len(text) : RestCovered(mask, low, p + 1, k)
      BY <2>3, <2>5
    <3> QED BY <1>2, <2>5, <3>1
  <2>6. CASE mask[p] \notin {"?", "*"}
    <3>1. RestCovered(mask, low, p, j) <=> RestCovered(mask, low, p + 1, j + 1) /\ mask[p] = low[j]
      BY <2>2, <2>3, <2>6
    <3>2. RestCovered(mask, low, p + 1, j + 1) => j < Len(text) /\ text[j] = low[j]
      BY <2>2
    <3> QED BY <1>2, <2>6, <3>1, <3>2
  <2> QED BY <2>4, <2>5, <2>6
<1> QED BY <1>1, <1>2

\* What is found out is nothing else, since the rest gets shorter.
LEMMA MatchedIsCovered ==
  ASSUME NEW mask \in Mask, NEW text, NEW low, Len(low) \in Nat, Len(text) = Len(low) + 1,
         \A k \in 1 .. Len(low) : text[k] = low[k],
         NEW match, Matched(mask, text, match)
  PROVE  \A p \in 1 .. Len(mask) + 1 : \A j \in Nat \ {0} : match[p][j] <=> RestCovered(mask, low, p, j)
<1> DEFINE Same(p) == \A j \in Nat \ {0} : match[p][j] <=> RestCovered(mask, low, p, j)
           Left == {n \in 0 .. Len(mask) : ~Same(Len(mask) + 1 - n)}
<1>0. Len(mask) \in Nat
  BY DEF Mask
<1>1. ASSUME NEW p \in 1 .. Len(mask) + 1, p <= Len(mask) => Same(p + 1)
      PROVE  Same(p)
  <2> SUFFICES ASSUME NEW j \in Nat \ {0} PROVE match[p][j] <=> RestCovered(mask, low, p, j)
    OBVIOUS
  <2>1. match[p][j] = IF p > Len(mask) THEN j = Len(text)
               ELSE CASE mask[p] = "?" -> match[p + 1][j + 1]
                      [] mask[p] = "*" -> \E k \in j .. Len(text) : match[p + 1][k]
                      [] OTHER -> j < Len(text) /\ mask[p] = text[j] /\ match[p + 1][j + 1]
    <3> DEFINE Round(q, k) ==
                 IF q > Len(mask) THEN k = Len(text)
                 ELSE CASE mask[q] = "?" -> match[q + 1][k + 1]
                        [] mask[q] = "*" -> \E l \in k .. Len(text) : match[q + 1][l]
                        [] OTHER -> k < Len(text) /\ mask[q] = text[k] /\ match[q + 1][k + 1]
               Row(q) == [k \in Nat \ {0} |-> Round(q, k)]
    <3>1. match = [q \in 1 .. Len(mask) + 1 |-> Row(q)]
      BY Zenon DEF Matched
    <3>2. match[p] = Row(p)
      <4> HIDE DEF Row
      <4> QED BY <3>1
    <3>3. Row(p)[j] = Round(p, j)
      <4> HIDE DEF Round
      <4> QED OBVIOUS
    <3>4. match[p][j] = Round(p, j)
      <4> HIDE DEF Row, Round
      <4> QED BY <3>2, <3>3
    <3> QED BY <3>4, Zenon
  <2>2. CASE p > Len(mask)
    <3>1. RestCovered(mask, low, p, j) <=> j = Len(text)
      BY <2>2, RoundCovered
    <3>2. match[p][j] = (j = Len(text))
      BY <2>1, <2>2
    <3> QED BY <3>1, <3>2
  <2>3. CASE ~(p > Len(mask))
    <3>1. p <= Len(mask) /\ j + 1 \in Nat \ {0} /\ \A k \in j .. Len(text) : k \in Nat \ {0}
      BY <1>0, <2>3
    <3>2. /\ match[p + 1][j + 1] <=> RestCovered(mask, low, p + 1, j + 1)
          /\ \A k \in j .. Len(text) : match[p + 1][k] <=> RestCovered(mask, low, p + 1, k)
      BY <1>1, <3>1
    <3>3. RestCovered(mask, low, p, j) <=>
            CASE mask[p] = "?" -> RestCovered(mask, low, p + 1, j + 1)
              [] mask[p] = "*" -> \E k \in j .. Len(text) : RestCovered(mask, low, p + 1, k)
              [] OTHER -> /\ j < Len(text) /\ mask[p] = text[j]
                          /\ RestCovered(mask, low, p + 1, j + 1)
      BY <2>3, RoundCovered
    <3> HIDE DEF Same
    <3>4. CASE mask[p] = "?"
      BY <2>1, <2>3, <3>2, <3>3, <3>4
    <3>5. CASE mask[p] = "*"
      BY <2>1, <2>3, <3>2, <3>3, <3>5
    <3>6. CASE mask[p] \notin {"?", "*"}
      BY <2>1, <2>3, <3>2, <3>3, <3>6
    <3> QED BY <3>4, <3>5, <3>6
  <2> QED BY <2>2, <2>3
<1>2. Left = {}
  <2> SUFFICES ASSUME Left # {} PROVE FALSE
    OBVIOUS
  <2>1. Left \in SUBSET Nat
    BY <1>0
  <2>2. PICK m \in Left : \A n \in Left : m <= n
    BY <2>1, SmallestOf
  <2> HIDE DEF Same
  <2>3. m \in 0 .. Len(mask) /\ ~Same(Len(mask) + 1 - m)
    OBVIOUS
  <2>4. PICK p \in 1 .. Len(mask) + 1 : p = Len(mask) + 1 - m
    BY <1>0, <2>3
  <2>5. ASSUME p <= Len(mask) PROVE Same(p + 1)
    <3>1. m - 1 \in 0 .. Len(mask) /\ Len(mask) + 1 - (m - 1) = p + 1 /\ ~(m <= m - 1)
      BY <1>0, <2>3, <2>4, <2>5
    <3> QED BY <2>2, <3>1
  <2> QED BY <1>1, <2>3, <2>4, <2>5
<1>3. ASSUME NEW p \in 1 .. Len(mask) + 1 PROVE Same(p)
  <2>1. Len(mask) + 1 - p \in 0 .. Len(mask) /\ Len(mask) + 1 - (Len(mask) + 1 - p) = p
    BY <1>0
  <2> HIDE DEF Same
  <2> QED BY <1>2, <2>1
<1> QED BY <1>3

\* WildcardMatch, which walks mask and text with one star to go back to at a time,
\* is the reference, for every mask and every text (authorize.cpp).
THEOREM WildcardCovers ==
  ASSUME NEW mask \in Mask, NEW value \in Text
  PROVE  WildcardMatch(mask, value) <=> Covers(mask, Lowered(value))
<1> DEFINE low == Lowered(value)
           text == Append(low, "nul")
           rest == [p \in 1 .. Len(mask) + 1 |-> [j \in Nat \ {0} |-> RestCovered(mask, low, p, j)]]
           match == CHOOSE m : Matched(mask, text, m)
<1>0. /\ Len(low) \in Nat /\ Len(text) = Len(low) + 1 /\ \A k \in 1 .. Len(low) : text[k] = low[k]
      /\ Len(mask) \in Nat
  BY LoweredText DEF Mask
<1>1. Matched(mask, text, rest)
  <2>1. ASSUME NEW p \in 1 .. Len(mask) + 1, NEW j \in Nat \ {0}
        PROVE  rest[p][j] = IF p > Len(mask) THEN j = Len(text)
               ELSE CASE mask[p] = "?" -> rest[p + 1][j + 1]
                      [] mask[p] = "*" -> \E k \in j .. Len(text) : rest[p + 1][k]
                      [] OTHER -> j < Len(text) /\ mask[p] = text[j] /\ rest[p + 1][j + 1]
    <3> HIDE DEF low, text
    <3>1. rest[p][j] = RestCovered(mask, low, p, j) /\ RestCovered(mask, low, p, j) \in BOOLEAN
      BY DEF RestCovered
    <3>2. CASE p > Len(mask)
      BY <1>0, <3>1, <3>2, RoundCovered
    <3>3. CASE ~(p > Len(mask))
      <4>1. p + 1 \in 1 .. Len(mask) + 1 /\ j + 1 \in Nat \ {0} /\ \A k \in j .. Len(text) : k \in Nat \ {0}
        BY <1>0, <3>3
      <4>2. /\ rest[p + 1][j + 1] = RestCovered(mask, low, p + 1, j + 1)
            /\ \A k \in j .. Len(text) : rest[p + 1][k] = RestCovered(mask, low, p + 1, k)
            /\ RestCovered(mask, low, p + 1, j + 1) \in BOOLEAN
        BY <4>1 DEF RestCovered
      <4>3. RestCovered(mask, low, p, j) <=>
              CASE mask[p] = "?" -> RestCovered(mask, low, p + 1, j + 1)
                [] mask[p] = "*" -> \E k \in j .. Len(text) : RestCovered(mask, low, p + 1, k)
                [] OTHER -> /\ j < Len(text) /\ mask[p] = text[j]
                            /\ RestCovered(mask, low, p + 1, j + 1)
        BY <1>0, <3>3, RoundCovered
      <4> HIDE DEF rest
      <4>4. CASE mask[p] = "?"
        BY <3>1, <3>3, <4>2, <4>3, <4>4
      <4>5. CASE mask[p] = "*"
        BY <3>1, <3>3, <4>2, <4>3, <4>5
      <4>6. CASE mask[p] \notin {"?", "*"}
        BY <3>1, <3>3, <4>2, <4>3, <4>6
      <4> QED BY <4>4, <4>5, <4>6
    <3> QED BY <3>2, <3>3
  <2> QED BY <2>1 DEF Matched
<1>2. Matched(mask, text, match)
  <2> HIDE DEF rest, low, text
  <2> QED BY <1>1
<1>3. WildcardMatch(mask, value) <=> match[1][1]
  BY DEF WildcardMatch, Matched
<1> HIDE DEF low, text, match
<1>4. 1 \in 1 .. Len(mask) + 1 /\ 1 \in Nat \ {0}
  BY <1>0
<1>5. match[1][1] <=> RestCovered(mask, low, 1, 1)
  BY <1>0, <1>2, <1>4, MatchedIsCovered
<1>6. RestCovered(mask, low, 1, 1) <=> Covers(mask, low)
  BY <1>0, AllCovered
<1> QED BY <1>3, <1>5, <1>6 DEF low

-----------------------------------------------------------------------------
(***************************************************************************)
(* The verdict of the registry.                                            *)
(***************************************************************************)

Kinds == {"clsid", "progid", "codebase"}

\* An argument and the page, as the assumption has them.
LEMMA ArgumentFact ==
  ASSUME NEW list \in Arguments, NEW k \in DOMAIN list
  PROVE  /\ list[k].kind \in Kinds /\ list[k].value \in Text
         /\ list[k].kind = "codebase" => list[k].value \in DOMAIN CrackUrl
         /\ DOMAIN list = 1 .. Len(list) /\ Len(list) \in Nat
<1> DEFINE Pair == [kind : {"clsid", "progid", "codebase"}, value : DOMAIN ClassOf \cup DOMAIN CrackUrl]
<1>1. list \in Seq(Pair) /\ DOMAIN ClassOf \cup DOMAIN CrackUrl \subseteq Text
      /\ (list[k].kind = "codebase" => list[k].value \in DOMAIN CrackUrl)
  BY ChoiceAssumption
<1>2. list[k] \in Pair /\ DOMAIN list = 1 .. Len(list) /\ Len(list) \in Nat
  <2> HIDE DEF Pair
  <2> QED BY <1>1
<1> QED BY <1>1, <1>2 DEF Kinds

\* A registry has keys, or none, for each kind; FindKey gives the first.
LEMMA FirstKey ==
  ASSUME NEW machine \in Installations, NEW kind \in Kinds
  PROVE  LET registry == machine.registry
         IN  /\ \A p \in DOMAIN registry : registry[p][kind] \in {NoKey} \cup Key
             /\ DOMAIN registry = 1 .. Len(registry)
             /\ FindKey(registry, kind) # NoKey =>
                  \E p \in DOMAIN registry :
                    /\ FindKey(registry, kind) = registry[p][kind]
                    /\ \A q \in 1 .. p - 1 : registry[q][kind] = NoKey
             /\ \A p \in DOMAIN registry :
                  registry[p][kind] # NoKey /\ (\A q \in 1 .. p - 1 : registry[q][kind] = NoKey)
                    => FindKey(registry, kind) = registry[p][kind]
<1> DEFINE registry == machine.registry
           Plugin == [{"clsid", "progid", "codebase"} -> {NoKey} \cup Key]
           I == {p \in 1 .. Len(registry) : registry[p][kind] # NoKey}
<1>1. registry \in Seq(Plugin)
  BY ChoiceAssumption
<1>2. /\ DOMAIN registry = 1 .. Len(registry) /\ Len(registry) \in Nat
      /\ \A p \in 1 .. Len(registry) : registry[p] \in Plugin
  <2> HIDE DEF Plugin, registry
  <2> QED BY <1>1
<1>3. \A p \in DOMAIN registry : registry[p][kind] \in {NoKey} \cup Key
  BY <1>2 DEF Kinds
<1>4. FindKey(registry, kind) = IF (IF I # {} THEN Min(I) ELSE 0) = 0
                                  THEN NoKey ELSE registry[IF I # {} THEN Min(I) ELSE 0][kind]
  BY DEF FindKey, SelectInSeq
<1>5. I # {} => Min(I) \in I /\ \A p \in I : Min(I) <= p
  <2>1. I \in SUBSET Nat
    BY <1>2
  <2>2. I # {} => \E m \in I : \A p \in I : m <= p
    BY <2>1, SmallestOf
  <2> QED BY <2>2 DEF Min
<1>6. CASE I = {}
  BY <1>2, <1>3, <1>4, <1>6
<1>7. CASE I # {}
  <2>1. PICK m \in I : m = Min(I)
    BY <1>5, <1>7
  <2>2. m \in 1 .. Len(registry) /\ registry[m][kind] # NoKey /\ m \in Nat \ {0} /\ \A p \in I : m <= p
    BY <1>2, <1>5, <1>7, <2>1
  <2>3. FindKey(registry, kind) = registry[m][kind]
    BY <1>4, <1>7, <2>1, <2>2
  <2>4. \A q \in 1 .. m - 1 : registry[q][kind] = NoKey
    <3>1. ASSUME NEW q \in 1 .. m - 1 PROVE q \in 1 .. Len(registry) /\ ~(m <= q)
      BY <1>2, <2>2
    <3> QED BY <2>2, <3>1
  <2>5. ASSUME NEW p \in DOMAIN registry, registry[p][kind] # NoKey,
               \A q \in 1 .. p - 1 : registry[q][kind] = NoKey
        PROVE  p = m
    <3>1. p \in I /\ p \in Nat
      BY <1>2, <2>5
    <3>2. m <= p /\ (m < p => m \in 1 .. p - 1)
      BY <2>2, <3>1
    <3> QED BY <2>2, <2>5, <3>1, <3>2
  <2> QED BY <1>2, <1>3, <2>2, <2>3, <2>4, <2>5
<1> QED BY <1>6, <1>7

\* TestExplicitAuthorization, which goes over the parents of a key and their
\* entries, is the reference, for every registry, page and name (authorize.cpp).
THEOREM RegistryAllows ==
  ASSUME NEW machine \in Installations, NEW kind \in Kinds, NEW page \in Text, NEW name \in Text
  PROVE  TestExplicitAuthorization(machine.registry, kind, page, name)
           <=> Allowed(machine.registry, kind, page, name)
<1> DEFINE Opens(key) == \E e \in DOMAIN key :
                           /\ WildcardMatch(key[e].mask, page)
                           /\ \E v \in DOMAIN key[e].values : WildcardMatch(key[e].values[v], name)
           Covered(key) == \E e \in DOMAIN key :
                             /\ Covers(key[e].mask, Lowered(page))
                             /\ \E v \in DOMAIN key[e].values : Covers(key[e].values[v], Lowered(name))
<1>1. ASSUME NEW key \in Key PROVE Opens(key) <=> Covered(key)
  <2>1. ASSUME NEW e \in DOMAIN key
        PROVE  /\ key[e].mask \in Mask
               /\ \A v \in DOMAIN key[e].values : key[e].values[v] \in Mask
    <3> DEFINE Entry == [mask : Mask, values : Seq(Mask)]
    <3>1. key \in Seq(Entry)
      BY DEF Key
    <3>2. key[e] \in Entry
      <4> HIDE DEF Entry
      <4> QED BY <2>1, <3>1
    <3>3. key[e].mask \in Mask /\ key[e].values \in Seq(Mask)
      BY <3>2
    <3> QED BY <3>3
  <2>2. \A e \in DOMAIN key :
          /\ WildcardMatch(key[e].mask, page) <=> Covers(key[e].mask, Lowered(page))
          /\ \A v \in DOMAIN key[e].values :
               WildcardMatch(key[e].values[v], name) <=> Covers(key[e].values[v], Lowered(name))
    BY <2>1, WildcardCovers
  <2> QED BY <2>2
<1>2. TestExplicitAuthorization(machine.registry, kind, page, name) <=>
        /\ FindKey(machine.registry, kind) # NoKey
        /\ Opens(FindKey(machine.registry, kind))
  BY DEF TestExplicitAuthorization
<1>3. Allowed(machine.registry, kind, page, name) <=>
        \E p \in DOMAIN machine.registry :
          /\ machine.registry[p][kind] # NoKey
          /\ \A q \in 1 .. p - 1 : machine.registry[q][kind] = NoKey
          /\ Covered(machine.registry[p][kind])
  BY DEF Allowed
<1> HIDE DEF Opens, Covered
<1>4. \A p \in DOMAIN machine.registry : machine.registry[p][kind] \in {NoKey} \cup Key
  BY FirstKey
<1>5. ASSUME FindKey(machine.registry, kind) # NoKey, Opens(FindKey(machine.registry, kind))
      PROVE  Allowed(machine.registry, kind, page, name)
  <2>1. PICK p \in DOMAIN machine.registry :
          /\ FindKey(machine.registry, kind) = machine.registry[p][kind]
          /\ \A q \in 1 .. p - 1 : machine.registry[q][kind] = NoKey
    BY <1>5, FirstKey
  <2>2. machine.registry[p][kind] \in Key
    BY <1>4, <1>5, <2>1
  <2>3. Covered(machine.registry[p][kind])
    BY <1>1, <1>5, <2>1, <2>2
  <2> QED BY <1>3, <1>5, <2>1, <2>3
<1>6. ASSUME NEW p \in DOMAIN machine.registry, machine.registry[p][kind] # NoKey,
             \A q \in 1 .. p - 1 : machine.registry[q][kind] = NoKey,
             Covered(machine.registry[p][kind])
      PROVE  TestExplicitAuthorization(machine.registry, kind, page, name)
  <2>1. FindKey(machine.registry, kind) = machine.registry[p][kind]
    BY <1>6, FirstKey
  <2>2. machine.registry[p][kind] \in Key
    BY <1>4, <1>6
  <2>3. Opens(machine.registry[p][kind])
    BY <1>1, <1>6, <2>2
  <2> QED BY <1>2, <1>6, <2>1, <2>3
<1> QED BY <1>2, <1>3, <1>5, <1>6

-----------------------------------------------------------------------------
(***************************************************************************)
(* The two ways to the host, and the code base.                            *)
(***************************************************************************)

\* The suffix of a text, without turning both around.
LEMMA SuffixIsRest ==
  ASSUME NEW C, NEW rest \in Seq(C), NEW host \in Seq(C), NEW n \in Nat,
         Len(rest) = Len(host) - n
  PROVE  IsSuffix(rest, host) <=> SubSeq(host, n + 1, Len(host)) = rest
<1>1. Len(rest) \in Nat /\ Len(host) \in Nat
  OBVIOUS
<1> DEFINE back == Reverse(rest)
           front == SubSeq(Reverse(host), 1, Len(back))
           end == SubSeq(host, n + 1, Len(host))
<1>2. /\ back \in Seq(C) /\ Len(back) = Len(rest)
      /\ \A k \in 1 .. Len(rest) : back[k] = rest[(Len(rest) - k) + 1]
  BY <1>1 DEF Reverse
<1>3. /\ Reverse(host) \in Seq(C) /\ Len(Reverse(host)) = Len(host)
      /\ \A k \in 1 .. Len(host) : Reverse(host)[k] = host[(Len(host) - k) + 1]
  BY <1>1 DEF Reverse
<1>4. /\ front \in Seq(C) /\ Len(front) = Len(rest)
      /\ \A k \in 1 .. Len(rest) : front[k] = Reverse(host)[k]
  <2> HIDE DEF back
  <2> QED BY <1>1, <1>2, <1>3
<1>5. /\ end \in Seq(C) /\ Len(end) = Len(rest)
      /\ \A k \in 1 .. Len(rest) : end[k] = host[n + k]
  BY <1>1
<1>6. IsSuffix(rest, host) <=> back = front
  BY <1>1, <1>2, <1>3 DEF IsSuffix, IsPrefix
<1> HIDE DEF back, front, end
<1>7. back = front <=> \A k \in 1 .. Len(rest) : rest[(Len(rest) - k) + 1] = host[(Len(host) - k) + 1]
  <2>1. \A k \in 1 .. Len(rest) : back[k] = front[k] <=> rest[(Len(rest) - k) + 1] = host[(Len(host) - k) + 1]
    BY <1>1, <1>2, <1>3, <1>4
  <2> QED BY <1>2, <1>4, <2>1, SeqEqual
<1>8. end = rest <=> \A k \in 1 .. Len(rest) : host[n + k] = rest[k]
  BY <1>5, SeqEqual
<1>9. ASSUME NEW k \in 1 .. Len(rest)
      PROVE  /\ (Len(rest) - k) + 1 \in 1 .. Len(rest)
             /\ (Len(host) - k) + 1 = n + ((Len(rest) - k) + 1)
             /\ (Len(rest) - ((Len(rest) - k) + 1)) + 1 = k
  BY <1>1
<1>10. ASSUME \A k \in 1 .. Len(rest) : host[n + k] = rest[k], NEW k \in 1 .. Len(rest)
       PROVE  rest[(Len(rest) - k) + 1] = host[(Len(host) - k) + 1]
  BY <1>9, <1>10
<1>11. ASSUME \A k \in 1 .. Len(rest) : rest[(Len(rest) - k) + 1] = host[(Len(host) - k) + 1],
              NEW k \in 1 .. Len(rest)
       PROVE  host[n + k] = rest[k]
  <2>1. PICK l \in 1 .. Len(rest) : l = (Len(rest) - k) + 1
    BY <1>9
  <2>2. (Len(rest) - l) + 1 = k /\ (Len(host) - l) + 1 = n + k
    BY <1>1, <2>1
  <2>3. rest[(Len(rest) - l) + 1] = host[(Len(host) - l) + 1]
    BY <1>11
  <2> QED BY <2>2, <2>3
<1> QED BY <1>6, <1>7, <1>8, <1>10, <1>11 DEF end

\* MatchURL2TrustedLocations, which compares from the end or from the start, is what
\* the documentation says, for every list of locations and every address that is
\* not misjudged (ffactivex.cpp:150-193).
THEOREM MatchesTrusted ==
  ASSUME installation \in Installations, NEW url \in DOMAIN CrackUrl
  PROVE  Misjudged(url) \/ (Matches(url) <=> Trusted(url))
<1> DEFINE locations == installation.TrustedLocations
           host == CrackUrl[url].host
           local == CrackUrl[url].scheme = "file" \/ IsPrefix(LocalhostName, host)
           Entry == Mask \ {<<>>}
<1>1. locations \in Seq(Entry) /\ (CrackUrl[url] # NoParse => host \in Text)
  BY ChoiceAssumption
<1>2. \A j \in DOMAIN locations : locations[j] \in Entry
  <2> HIDE DEF locations, Entry
  <2> QED BY <1>1
<1>3. ASSUME NEW entry \in Entry, CrackUrl[url] # NoParse
      PROVE  EntryMatches(entry, host) <=>
               IF entry[1] = "*"
                 THEN \E n \in 1 .. Len(host) : SubSeq(host, n + 1, Len(host)) = Tail(entry)
                 ELSE IsPrefix(host, entry)
  <2> DEFINE C == DOMAIN Lower \cup {"?", "*"}
             rest == Tail(entry)
  <2>1. entry \in Seq(C) /\ entry # <<>> /\ host \in Seq(C)
    BY <1>1, <1>3 DEF Mask, Text
  <2> HIDE DEF C
  <2>2. /\ Len(entry) \in Nat \ {0} /\ Head(entry) = entry[1]
        /\ rest \in Seq(C) /\ Len(rest) = Len(entry) - 1
    BY <2>1
  <2>3. Len(host) \in Nat
    BY <2>1
  <2> HIDE DEF rest, host
  <2>4. ASSUME Len(host) >= Len(entry), IsSuffix(rest, host)
        PROVE  \E n \in 1 .. Len(host) : SubSeq(host, n + 1, Len(host)) = rest
    <3>1. PICK n \in 1 .. Len(host) : n = Len(host) - Len(rest)
      <4>1. Len(host) - Len(rest) \in 1 .. Len(host)
        BY <2>2, <2>3, <2>4
      <4> QED BY <4>1
    <3>2. n \in Nat /\ Len(rest) = Len(host) - n
      BY <2>2, <2>3, <3>1
    <3> QED BY <2>1, <2>2, <2>4, <3>2, SuffixIsRest
  <2>5. ASSUME NEW n \in 1 .. Len(host), SubSeq(host, n + 1, Len(host)) = rest
        PROVE  Len(host) >= Len(entry) /\ IsSuffix(rest, host)
    <3>1. Len(rest) = Len(host) - n
      BY <2>1, <2>3, <2>5
    <3> QED BY <2>1, <2>2, <2>3, <2>5, <3>1, SuffixIsRest
  <2> QED BY <2>2, <2>4, <2>5 DEF EntryMatches, rest
<1> HIDE DEF Entry
\* What the code compares differs from what it should only where a beginning counts.
<1>4. ASSUME CrackUrl[url] # NoParse, locations # <<>>, ~Misjudged(url)
      PROVE  /\ local <=> Local(url)
             /\ ~Local(url) =>
                  \A j \in DOMAIN locations : locations[j][1] # "*" =>
                    (IsPrefix(host, locations[j]) <=> host = locations[j])
  <2>1. IsPrefix(LocalhostName, LocalhostName) /\ IsPrefix(host, host)
    <3>1. host \in Seq(DOMAIN Lower) /\ LocalhostName \in Seq(DOMAIN Lower)
      BY <1>1, <1>4, ChoiceAssumption DEF Text
    <3> HIDE DEF host
    <3> QED BY <3>1 DEF IsPrefix
  <2> QED BY <1>4, <2>1 DEF Misjudged, Local, IsStrictPrefix
<1>5. CrackUrl[url] # NoParse /\ locations # <<>> /\ ~Misjudged(url) /\ ~Local(url) =>
        ((\E j \in DOMAIN locations : EntryMatches(locations[j], host)) <=>
         \E j \in DOMAIN locations :
           IF locations[j][1] = "*"
             THEN \E n \in 1 .. Len(host) : SubSeq(host, n + 1, Len(host)) = Tail(locations[j])
             ELSE host = locations[j])
  BY <1>2, <1>3, <1>4
<1>6. Trusted(url) <=>
        \/ locations = <<>>
        \/ /\ CrackUrl[url] # NoParse
           /\ Local(url) => installation.TrustLocalhost
           /\ ~Local(url) => \E j \in DOMAIN locations :
                IF locations[j][1] = "*"
                  THEN \E n \in 1 .. Len(host) : SubSeq(host, n + 1, Len(host)) = Tail(locations[j])
                  ELSE host = locations[j]
  BY DEF Trusted
<1>7. Matches(url) <=>
        \/ locations = <<>>
        \/ /\ CrackUrl[url] # NoParse
           /\ IF local THEN installation.TrustLocalhost
                       ELSE \E j \in DOMAIN locations : EntryMatches(locations[j], host)
  BY DEF Matches
<1> HIDE DEF locations, host, local
<1> QED BY <1>4, <1>5, <1>6, <1>7

\* The accepted ones among the code bases that were passed.
AcceptedBases == {j \in Passed("codebase") : Matches(arguments[j].value)}

Given == stage \in {"choosing", "invalid", "created"} /\ AcceptedBases # {}

TestedArgument(j) ==
  TestExplicitAuthorization(installation.registry, arguments[j].kind, document, arguments[j].value)

\* What TestAuthorization has found out so far, and where the host and its code
\* base come from.
LocationInv ==
  /\ arguments \in Arguments /\ document \in Documents /\ installation \in Installations
  /\ installation.NO_REGISTRY_AUTHORIZE =>
       /\ stage = "authorizing" => i = 1
       /\ stage \notin {"authorizing", "refused"} => document # NoAddress /\ Matches(document)
  /\ ~installation.NO_REGISTRY_AUTHORIZE =>
       /\ stage = "authorizing" => (ret <=> \A j \in 1 .. i - 1 : TestedArgument(j))
       /\ stage # "authorizing" =>
            (stage # "refused" <=> /\ document # NoAddress
                                   /\ \A j \in 1 .. Len(arguments) : TestedArgument(j))
  /\ ~Given => CodeBaseUrl = NoUrl
  /\ Given => \E j \in AcceptedBases : /\ arguments[j].value = CodeBaseUrl
                                      /\ \A k \in AcceptedBases : k <= j

LEMMA LocationInit == Init => LocationInv
<1> SUFFICES ASSUME Init PROVE LocationInv
  OBVIOUS
<1>1. \A j \in 1 .. i - 1 : FALSE
  BY DEF Init
<1> QED BY <1>1 DEF Init, LocationInv, Given

LEMMA LocationStep == ChoiceInv /\ LocationInv /\ [Next]_vars => LocationInv'
<1> SUFFICES ASSUME ChoiceInv, LocationInv, [Next]_vars PROVE LocationInv'
  OBVIOUS
<1>0. Len(arguments) \in Nat /\ i \in Nat \ {0}
  BY ChoiceAssumption DEF ChoiceInv, StageInv, LocationInv
\* The inputs stay, and what is said of them.
<1>a. UNCHANGED inputVars
  BY DEF Next, vars, VerifySiteLock, Authorize, EndAuthorization, SetClsID, SetClsIDFromProgID,
         SetCodeBaseUrl, CreateControl
<1>b. /\ arguments' = arguments /\ document' = document /\ installation' = installation
      /\ \A url : Matches(url)' <=> Matches(url)
      /\ \A j : TestedArgument(j)' <=> TestedArgument(j)
  BY <1>a DEF inputVars, Matches, TestedArgument, Covers, TestExplicitAuthorization
<1>1. ASSUME UNCHANGED <<i, CodeBaseUrl, ret>>,
             \/ stage' = stage
             \/ stage = "choosing" /\ stage' \in {"invalid", "created"}
      PROVE  LocationInv'
  <2>1. AcceptedBases' = AcceptedBases
    BY <1>1, <1>b DEF AcceptedBases, Passed
  <2>2. Given' <=> Given
    BY <1>1, <2>1 DEF Given
  <2> QED BY <1>1, <1>b, <2>1, <2>2 DEF LocationInv
\* Before the loop of NPP_New nothing is passed.
<1>2. ASSUME stage = "authorizing", CodeBaseUrl' = CodeBaseUrl, i' = 1 \/ stage' \in {"authorizing", "refused"}
      PROVE  ~Given' /\ CodeBaseUrl' = NoUrl
  <2>1. CodeBaseUrl' = NoUrl
    BY <1>2 DEF LocationInv, Given
  <2>2. i' = 1 => AcceptedBases' = {}
    <3>1. i' = 1 => \A j \in 1 .. i' - 1 : FALSE
      OBVIOUS
    <3> QED BY <3>1 DEF AcceptedBases, Passed
  <2> QED BY <1>2, <2>1, <2>2 DEF Given
<1>3. CASE VerifySiteLock
  <2>1. i' = 1 /\ ~Given' /\ CodeBaseUrl' = NoUrl
    BY <1>2, <1>3 DEF VerifySiteLock, hostVars, LocationInv
  <2>2. stage' # "refused" => document # NoAddress /\ Matches(document)
    BY <1>3 DEF VerifySiteLock
  <2> QED BY <1>3, <1>b, <2>1, <2>2 DEF VerifySiteLock, LocationInv
<1>4. CASE Authorize
  <2>1. ~Given' /\ CodeBaseUrl' = NoUrl /\ stage = "authorizing" /\ stage' = stage /\ i' = i + 1
        /\ ~installation.NO_REGISTRY_AUTHORIZE
    BY <1>2, <1>4 DEF Authorize, InLoop, hostVars
  <2>2. ret' <=> ret /\ TestedArgument(i)
    BY <1>4 DEF Authorize, TestedArgument, Argument
  <2>3. \A j : j \in 1 .. i' - 1 <=> j \in 1 .. i - 1 \/ j = i
    BY <1>0, <2>1
  <2> QED BY <1>b, <2>1, <2>2, <2>3 DEF LocationInv
<1>5. CASE EndAuthorization
  <2>1. ~Given' /\ CodeBaseUrl' = NoUrl
    BY <1>2, <1>5 DEF EndAuthorization, hostVars
  <2>2. document # NoAddress => 1 .. i - 1 = 1 .. Len(arguments)
    BY <1>0, <1>5 DEF EndAuthorization
  <2>3. /\ stage = "authorizing" /\ ~installation.NO_REGISTRY_AUTHORIZE
        /\ stage' = IF document # NoAddress /\ ret THEN "choosing" ELSE "refused"
    BY <1>5 DEF EndAuthorization
  <2> QED BY <1>b, <2>1, <2>2, <2>3 DEF LocationInv
\* An argument is passed: no code base, or one that is not trusted; or a trusted one.
<1>6. ASSUME InLoop("choosing"), i' = i + 1, UNCHANGED stage,
             \/ CodeBaseUrl' = CodeBaseUrl /\ (Argument.kind = "codebase" => ~Matches(Argument.value))
             \/ Argument.kind = "codebase" /\ Matches(Argument.value) /\ CodeBaseUrl' = Argument.value
      PROVE  LocationInv'
  <2>1. /\ Passed("codebase") \subseteq Passed("codebase")'
        /\ Argument.kind = "codebase" => i \in Passed("codebase")'
        /\ \A j \in Passed("codebase")' : j \in Passed("codebase") \/ (j = i /\ Argument.kind = "codebase")
        /\ \A j \in Passed("codebase") : j \in Nat /\ j < i
    BY <1>6, <1>a, PassedGrows DEF ChoiceInv
  <2>2. stage = "choosing"
    BY <1>6 DEF InLoop
  <2>3. CASE /\ Argument.kind = "codebase" => ~Matches(Argument.value)
             /\ CodeBaseUrl' = CodeBaseUrl
    <3>1. AcceptedBases' = AcceptedBases
      BY <1>b, <2>1, <2>3 DEF AcceptedBases, Argument
    <3>2. Given' <=> Given
      BY <1>6, <3>1 DEF Given
    <3> QED BY <1>6, <1>b, <2>2, <2>3, <3>1, <3>2 DEF LocationInv
  <2>4. CASE Argument.kind = "codebase" /\ Matches(Argument.value) /\ CodeBaseUrl' = Argument.value
    <3>1. i \in AcceptedBases' /\ \A k \in AcceptedBases' : k <= i
      BY <1>0, <1>b, <2>1, <2>4 DEF AcceptedBases, Argument
    <3>2. Given' /\ arguments'[i].value = CodeBaseUrl'
      BY <1>6, <1>b, <2>2, <2>4, <3>1 DEF Given, Argument
    <3> QED BY <1>6, <1>b, <2>2, <3>1, <3>2 DEF LocationInv
  <2> QED BY <1>6, <2>3, <2>4
<1>7. CASE SetClsID \/ SetClsIDFromProgID
  BY <1>6, <1>7 DEF SetClsID, SetClsIDFromProgID
<1>8. CASE SetCodeBaseUrl
  BY <1>6, <1>8 DEF SetCodeBaseUrl
<1>9. CASE CreateControl \/ UNCHANGED vars
  BY <1>1, <1>9 DEF CreateControl, vars, hostVars
<1> QED BY <1>3, <1>4, <1>5, <1>7, <1>8, <1>9 DEF Next

-----------------------------------------------------------------------------
\* What NPP_New passes to the host has the kind it is passed as: the class is one
\* that a text names, the code base an address, and no loop leaves the arguments.
THEOREM ChoiceTyping == Spec => []TypeOK
<1>1. Init => TypeOK
  <2> SUFFICES ASSUME Init PROVE TypeOK
    OBVIOUS
  <2>1. Len(arguments) \in Nat
    BY ChoiceAssumption DEF Init
  <2>2. i \in 1 .. Len(arguments) + 1
    BY <2>1 DEF Init
  <2> QED BY <2>2 DEF Init, TypeOK
<1>2. TypeOK /\ ChoiceInv /\ ChoiceInv' /\ [Next]_vars => TypeOK'
  <2> SUFFICES ASSUME TypeOK, ChoiceInv, ChoiceInv', [Next]_vars PROVE TypeOK'
    OBVIOUS
  <2>1. i' \in 1 .. Len(arguments') + 1
    BY DEF ChoiceInv, StageInv
  <2>2. ASSUME NEW s, InLoop(s)
        PROVE  Argument.value \in IF Argument.kind = "codebase" THEN DOMAIN CrackUrl ELSE DOMAIN ClassOf
    <3>1. arguments \in Arguments /\ i \in DOMAIN arguments
      BY <2>2, ChoiceAssumption DEF TypeOK, InLoop
    <3> QED BY <3>1, ChoiceAssumption DEF Argument
  <2>3. ASSUME NEW s, InLoop(s), Argument.kind # "codebase"
        PROVE  Named(Argument) \in Classes \cup {NoClass, NullClass}
    BY <2>2, <2>3 DEF Classes, Named
  <2>4. CASE SetClsID \/ SetClsIDFromProgID
    <3>1. Named(Argument) \in Classes \cup {NoClass, NullClass}
      BY <2>3, <2>4 DEF SetClsID, SetClsIDFromProgID
    <3>2. isKnown' \in BOOLEAN
      BY <2>4 DEF SetClsID, SetClsIDFromProgID
    <3>3. ClsID' \in Classes \cup {NullClass} /\ isValidClsID' \in BOOLEAN
      BY <2>4, <3>1 DEF SetClsID, SetClsIDFromProgID, TypeOK
    <3> QED BY <2>1, <2>4, <3>2, <3>3 DEF SetClsID, SetClsIDFromProgID, TypeOK, inputVars
  <2>5. CASE SetCodeBaseUrl
    <3>1. Argument.value \in DOMAIN CrackUrl
      BY <2>2, <2>5 DEF SetCodeBaseUrl
    <3> QED BY <2>1, <2>5, <3>1 DEF SetCodeBaseUrl, TypeOK, inputVars
  <2>6. CASE VerifySiteLock \/ Authorize \/ EndAuthorization
    <3>1. ret' \in BOOLEAN
      BY <2>6 DEF VerifySiteLock, Authorize, EndAuthorization, TypeOK
    <3>2. stage' \in {"authorizing", "choosing", "refused", "invalid", "created"}
      BY DEF ChoiceInv, StageInv
    <3> QED BY <2>1, <2>6, <3>1, <3>2
            DEF VerifySiteLock, Authorize, EndAuthorization, TypeOK, inputVars, hostVars
  <2>7. CASE CreateControl
    BY <2>1, <2>7 DEF CreateControl, TypeOK, inputVars, hostVars
  <2>8. CASE UNCHANGED vars
    BY <2>8 DEF TypeOK, vars, inputVars, hostVars
  <2> QED BY <2>4, <2>5, <2>6, <2>7, <2>8 DEF Next
<1> QED BY <1>1, <1>2, Choosing, PTL DEF Spec

\* The registry is asked for each argument, and the trusted locations for the
\* page and for each code base.
THEOREM Locating == Spec => []LocationInv
BY LocationInit, LocationStep, Choosing, PTL DEF Spec

\* For any registry and any masks, a page has a host exactly when the browser
\* says where it is and the registry allows each argument in it.
THEOREM RegistryDecides == Spec => []HostSeesAllowed
<1>1. LocationInv => HostSeesAllowed
  <2> SUFFICES ASSUME LocationInv, stage # "authorizing", ~installation.NO_REGISTRY_AUTHORIZE
               PROVE  stage # "refused" <=>
                        /\ document # NoAddress
                        /\ \A j \in DOMAIN arguments :
                             Allowed(installation.registry, arguments[j].kind, document, arguments[j].value)
    BY DEF HostSeesAllowed
  <2>1. /\ arguments \in Arguments /\ installation \in Installations
        /\ document # NoAddress => document \in Text
    BY ChoiceAssumption DEF LocationInv
  <2>2. DOMAIN arguments = 1 .. Len(arguments)
    BY <2>1, ChoiceAssumption
  <2>3. document # NoAddress =>
          \A j \in DOMAIN arguments :
            TestedArgument(j) <=>
              Allowed(installation.registry, arguments[j].kind, document, arguments[j].value)
    BY <2>1, ArgumentFact, RegistryAllows DEF TestedArgument
  <2> QED BY <2>2, <2>3 DEF LocationInv
<1> QED BY <1>1, Locating, PTL

\* For any trusted locations, they are asked before a page of a site locked build
\* has a host, and the code base is the last address that they trust; what they
\* trust is what the documentation says, but for the hosts that are misjudged.
THEOREM LocationsTrusted == Spec => []LocationsAreTrusted
<1>1. ChoiceInv /\ LocationInv => LocationsAreTrusted
  <2> SUFFICES ASSUME ChoiceInv, LocationInv PROVE LocationsAreTrusted
    OBVIOUS
  <2>1. \A k \in Passed("codebase") : k \in Nat /\ k \in DOMAIN arguments
    <3>1. /\ Len(arguments) \in Nat /\ i \in 1 .. Len(arguments) + 1
          /\ DOMAIN arguments = 1 .. Len(arguments)
      BY ChoiceAssumption DEF ChoiceInv, StageInv
    <3>2. \A k \in 1 .. i - 1 : k \in Nat /\ k \in 1 .. Len(arguments)
      BY <3>1
    <3> QED BY <3>1, <3>2 DEF Passed
  <2>2. \A k \in Passed("codebase") :
          \/ Misjudged(arguments[k].value)
          \/ Matches(arguments[k].value) <=> Trusted(arguments[k].value)
    <3>1. ASSUME NEW k \in Passed("codebase") PROVE arguments[k].value \in DOMAIN CrackUrl
      BY <2>1, ArgumentFact DEF LocationInv, Passed
    <3> QED BY <3>1, MatchesTrusted DEF LocationInv
  <2>3. ASSUME Given
        PROVE  \E j \in Passed("codebase") :
                 /\ arguments[j].value = CodeBaseUrl
                 /\ Trusted(CodeBaseUrl) \/ Misjudged(CodeBaseUrl)
                 /\ \A k \in Passed("codebase") :
                      k > j => ~Trusted(arguments[k].value) \/ Misjudged(arguments[k].value)
    <3>1. PICK j \in AcceptedBases : arguments[j].value = CodeBaseUrl /\ \A k \in AcceptedBases : k <= j
      BY <2>3 DEF LocationInv
    <3>2. j \in Passed("codebase") /\ Matches(CodeBaseUrl)
      BY <3>1 DEF AcceptedBases
    <3>3. \A k \in Passed("codebase") : k > j => ~Matches(arguments[k].value)
      BY <2>1, <3>1, <3>2 DEF AcceptedBases
    <3> QED BY <2>2, <3>1, <3>2, <3>3
  <2>4. ASSUME ~Given
        PROVE  /\ CodeBaseUrl = NoUrl
               /\ stage \in {"choosing", "invalid", "created"} =>
                    \A j \in Passed("codebase") :
                      ~Trusted(arguments[j].value) \/ Misjudged(arguments[j].value)
    BY <2>2, <2>4 DEF LocationInv, Given, AcceptedBases
  <2>5. installation.NO_REGISTRY_AUTHORIZE /\ stage \notin {"authorizing", "refused"} =>
          document # NoAddress /\ (Trusted(document) \/ Misjudged(document))
    <3>1. document # NoAddress => document \in DOMAIN CrackUrl
      BY ChoiceAssumption DEF LocationInv
    <3> QED BY <3>1, MatchesTrusted DEF LocationInv
  <2> QED BY <2>3, <2>4, <2>5 DEF LocationsAreTrusted
<1> QED BY <1>1, Choosing, Locating, PTL
=============================================================================

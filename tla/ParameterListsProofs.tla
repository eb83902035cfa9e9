------------------------ MODULE ParameterListsProofs -------------------------
(***************************************************************************)
(* Proofs about ParameterLists, for any names, any comparison of them, any *)
(* number of arguments and any allocations that fail.                      *)
(***************************************************************************)
EXTENDS ParameterLists, WellFoundedInduction, TLAPS

-----------------------------------------------------------------------------
(***************************************************************************)
(* The first and the last of some positions.                               *)
(***************************************************************************)

\* Numbers have a least one: what takes the place of an induction.
LEMMA LeastNumber ==
  ASSUME NEW S \in SUBSET Nat, S # {}
  PROVE  \E m \in S : \A n \in S : m <= n
<1>1. \E R : /\ \A m, n \in Nat : m < n => <<m, n>> \in R
             /\ \E m \in S : \A n \in S : <<n, m>> \notin R
  <2>1. IsWellFoundedOn(OpToRel(<, Nat), Nat)
    BY NatLessThanWellFounded
  <2>2. \A m, n \in Nat : m < n => <<m, n>> \in OpToRel(<, Nat)
    BY DEF OpToRel
  <2>3. \E m \in S : \A n \in S : ~(<<n, m>> \in OpToRel(<, Nat))
    BY <2>1, WFMin
  <2> QED BY <2>2, <2>3, Zenon
<1>2. PICK R : /\ \A m, n \in Nat : m < n => <<m, n>> \in R
               /\ \E m \in S : \A n \in S : <<n, m>> \notin R
  BY <1>1
<1>3. PICK m \in S : \A n \in S : <<n, m>> \notin R
  BY <1>2
<1>4. \A n \in S : n \in Nat /\ m \in Nat /\ ~(n < m)
  BY <1>2, <1>3
<1> QED BY <1>4

LEMMA MinIsLeast ==
  ASSUME NEW n \in Nat, NEW S \in SUBSET (1 .. n), S # {}
  PROVE  Min(S) \in S /\ \A y \in S : Min(S) <= y
<1>1. \E m \in S : \A y \in S : m <= y
  <2>1. S \in SUBSET Nat
    OBVIOUS
  <2> QED BY <2>1, LeastNumber
<1> QED BY <1>1 DEF Min

LEMMA MaxIsGreatest ==
  ASSUME NEW n \in Nat, NEW S \in SUBSET (1 .. n), S # {}
  PROVE  Max(S) \in S /\ \A y \in S : y <= Max(S)
<1> DEFINE T == {n - x : x \in S}
<1>0. \A x \in S : x \in 1 .. n /\ n - x \in Nat
  OBVIOUS
<1>1. T \in SUBSET Nat /\ T # {}
  BY <1>0
<1>2. PICK m \in T : \A y \in T : m <= y
  BY <1>1, LeastNumber
<1>3. PICK x \in S : m = n - x
  BY <1>2
<1>4. \A y \in S : y <= x
  <2>1. \A y \in S : n - x <= n - y
    BY <1>2, <1>3
  <2> QED BY <1>0, <2>1
<1>5. \E z \in S : \A y \in S : z >= y
  BY <1>4
<1>6. Max(S) \in S /\ \A y \in S : Max(S) >= y
  BY <1>5 DEF Max
<1> QED BY <1>6

\* It is known by these two facts.
LEMMA MaxIs ==
  ASSUME NEW n \in Nat, NEW S \in SUBSET (1 .. n), NEW x \in S, \A y \in S : y <= x
  PROVE  Max(S) = x
<1>1. Max(S) \in S /\ \A y \in S : y <= Max(S)
  BY MaxIsGreatest
<1>2. Max(S) \in 1 .. n /\ x \in 1 .. n /\ x <= Max(S) /\ Max(S) <= x
  BY <1>1
<1> QED BY <1>2

-----------------------------------------------------------------------------
(***************************************************************************)
(* What a list is, and what adding to it does.                             *)
(***************************************************************************)

Stored == Values \cup {Empty}
Lists == [entries : Seq(Entries), max : Nat]
Roomy(list) == Size(list) <= list.max

Same(m, n) == Fold[m] = Fold[n]
NameAt(list, k) == list.entries[k].name
ValueAt(list, k) == list.entries[k].value

\* No two entries have the same name.
Distinct(list) == \A j, k \in 1 .. Size(list) : Same(NameAt(list, j), NameAt(list, k)) => j = k

LEMMA ListFact ==
  ASSUME NEW list \in Lists
  PROVE  /\ Size(list) \in Nat /\ list.max \in Nat
         /\ DOMAIN list.entries = 1 .. Size(list)
         /\ \A k \in 1 .. Size(list) : /\ NameAt(list, k) \in Names
                                       /\ ValueAt(list, k) \in Stored
                                       /\ list.entries[k] \in Entries
         /\ \A n : Named(list, n) \in SUBSET (1 .. Size(list))
         /\ \A n, k : k \in Named(list, n) <=> k \in 1 .. Size(list) /\ Same(NameAt(list, k), n)
<1>1. list.entries \in Seq(Entries)
  BY DEF Lists
<1>2. \A k \in 1 .. Size(list) : list.entries[k] \in Entries
  BY <1>1 DEF Size
<1>3. Size(list) \in Nat /\ DOMAIN list.entries = 1 .. Size(list)
  BY <1>1 DEF Size
<1> QED BY <1>2, <1>3 DEF Lists, Entries, Named, NameAt, ValueAt, Stored, Same

\* EnsureMoreSpace makes room for one more and moves no entry.
LEMMA RoomKeeps ==
  ASSUME NEW list \in Lists, Roomy(list)
  PROVE  /\ EnsureMoreSpace(list) \in Lists
         /\ EnsureMoreSpace(list).entries = list.entries
         /\ Size(list) + 1 <= EnsureMoreSpace(list).max
BY ListAssumption, ListFact DEF EnsureMoreSpace, Lists, Roomy, Size

LEMMA EntryIs ==
  ASSUME NEW n \in Names, NEW v \in Stored
  PROVE  Entry(n, v) \in Entries /\ Entry(n, v).name = n /\ Entry(n, v).value = v
BY DEF Entry, Entries, Stored

\* A new entry comes last.
LEMMA AddedLast ==
  ASSUME NEW list \in Lists, Roomy(list), NEW n \in Names, NEW v \in Stored
  PROVE  LET new == AddNamedProperty(list, n, v)
         IN  /\ new \in Lists /\ Roomy(new)
             /\ Size(new) = Size(list) + 1
             /\ \A k \in 1 .. Size(list) : new.entries[k] = list.entries[k]
             /\ NameAt(new, Size(list) + 1) = n
             /\ ValueAt(new, Size(list) + 1) = v
<1> DEFINE room == EnsureMoreSpace(list)
           e == Entry(n, v)
           new == [room EXCEPT !.entries = Append(@, e)]
<1>1. room \in Lists /\ room.entries = list.entries /\ Size(list) + 1 <= room.max
  BY RoomKeeps
<1>2. e \in Entries /\ e.name = n /\ e.value = v
  BY EntryIs
<1>3. list.entries \in Seq(Entries)
  BY DEF Lists
<1>4. new.entries = Append(list.entries, e) /\ new.max = room.max /\ AddNamedProperty(list, n, v) = new
  BY <1>1 DEF Lists, AddNamedProperty
<1>5. /\ Append(list.entries, e) \in Seq(Entries)
      /\ Len(Append(list.entries, e)) = Len(list.entries) + 1
      /\ \A k \in 1 .. Len(list.entries) : Append(list.entries, e)[k] = list.entries[k]
      /\ Append(list.entries, e)[Len(list.entries) + 1] = e
  BY <1>2, <1>3
<1>6. new \in Lists
  BY <1>1, <1>4, <1>5 DEF Lists
<1> HIDE DEF room, e, new
<1> QED BY <1>1, <1>2, <1>4, <1>5, <1>6 DEF Roomy, Size, NameAt, ValueAt

LEMMA FailedAdd ==
  ASSUME NEW list \in Lists, Roomy(list), NEW new \in AddFails(list)
  PROVE  new \in Lists /\ Roomy(new) /\ new.entries = list.entries
<1>1. CASE new = list
  BY <1>1
<1>2. CASE new = EnsureMoreSpace(list)
  BY <1>2, RoomKeeps, ListFact DEF Roomy, Size
<1> QED BY <1>1, <1>2 DEF AddFails

\* A value is replaced, and its name stays.
LEMMA Replaced ==
  ASSUME NEW list \in Lists, Roomy(list), NEW n \in Names, NEW v \in Stored, Named(list, n) # {}
  PROVE  LET new == AddOrReplace(list, n, v)
             at == Min(Named(list, n))
         IN  /\ new \in Lists /\ Roomy(new)
             /\ Size(new) = Size(list)
             /\ at \in 1 .. Size(list) /\ Same(NameAt(list, at), n)
             /\ \A k \in 1 .. Size(list) : NameAt(new, k) = NameAt(list, k)
             /\ \A k \in 1 .. Size(list) : k # at => ValueAt(new, k) = ValueAt(list, k)
             /\ ValueAt(new, at) = v
<1>1. PICK at : at = Min(Named(list, n))
  OBVIOUS
<1>2. at \in 1 .. Size(list) /\ Same(NameAt(list, at), n)
  BY <1>1, ListFact, MinIsLeast
<1> DEFINE e == [list.entries[at] EXCEPT !.value = v]
           entries == [list.entries EXCEPT ![at] = e]
           new == [list EXCEPT !.entries = entries]
<1>3. list.entries \in Seq(Entries) /\ list.entries[at] \in Entries
  BY <1>2, ListFact DEF Lists
<1>4. e \in Entries /\ e.name = NameAt(list, at) /\ e.value = v
  BY <1>3 DEF Entries, Stored, NameAt
<1> HIDE DEF e
<1>5. /\ entries \in Seq(Entries) /\ Len(entries) = Len(list.entries)
      /\ \A k \in 1 .. Len(list.entries) : entries[k] = IF k = at THEN e ELSE list.entries[k]
  BY <1>2, <1>3, <1>4 DEF Size
<1>6. AddOrReplace(list, n, v) = new
  BY <1>1 DEF AddOrReplace, e
<1> HIDE DEF entries
<1>7. new \in Lists /\ new.entries = entries /\ new.max = list.max
  BY <1>5 DEF Lists
<1> HIDE DEF new
<1> QED BY <1>1, <1>2, <1>4, <1>5, <1>6, <1>7 DEF Size, Roomy, NameAt, ValueAt

\* Where the names of a list are distinct they stay so, and a value is found
\* under the name it was put under last.
LEMMA AddedOrReplaced ==
  ASSUME NEW list \in Lists, Roomy(list), Distinct(list), NEW n \in Names, NEW v \in Stored
  PROVE  LET new == AddOrReplace(list, n, v)
         IN  /\ new \in Lists /\ Roomy(new) /\ Distinct(new)
             /\ \A k \in 1 .. Size(new) :
                  \/ Same(NameAt(new, k), n) /\ ValueAt(new, k) = v
                  \/ /\ k \in 1 .. Size(list) /\ ~Same(NameAt(new, k), n)
                     /\ NameAt(new, k) = NameAt(list, k) /\ ValueAt(new, k) = ValueAt(list, k)
             /\ \A m : Named(new, m) # {} <=> Named(list, m) # {} \/ Same(m, n)
<1> DEFINE new == AddOrReplace(list, n, v)
<1>0. Size(list) \in Nat
  BY ListFact
<1>1. CASE Named(list, n) = {}
  <2>1. new = AddNamedProperty(list, n, v)
    BY <1>1 DEF AddOrReplace
  <2>2. /\ new \in Lists /\ Roomy(new) /\ Size(new) = Size(list) + 1
        /\ \A k \in 1 .. Size(list) : NameAt(new, k) = NameAt(list, k) /\ ValueAt(new, k) = ValueAt(list, k)
        /\ NameAt(new, Size(list) + 1) = n /\ ValueAt(new, Size(list) + 1) = v
    BY <2>1, AddedLast DEF NameAt, ValueAt
  <2>3. \A k \in 1 .. Size(list) : ~Same(NameAt(list, k), n)
    BY <1>1, ListFact
  <2>4. \A k \in 1 .. Size(new) : k \in 1 .. Size(list) \/ k = Size(list) + 1
    BY <1>0, <2>2
  <2>5. Distinct(new)
    BY <2>2, <2>3, <2>4 DEF Distinct, Same
  <2>6. ASSUME NEW m PROVE Named(new, m) # {} <=> Named(list, m) # {} \/ Same(m, n)
    <3>1. Size(list) + 1 \in 1 .. Size(new) /\ 1 .. Size(list) \subseteq 1 .. Size(new)
      BY <1>0, <2>2
    <3>2. \A k : k \in Named(new, m) <=> k \in 1 .. Size(new) /\ Same(NameAt(new, k), m)
      BY <2>2, ListFact
    <3>3. \A k : k \in Named(list, m) <=> k \in 1 .. Size(list) /\ Same(NameAt(list, k), m)
      BY ListFact
    <3> HIDE DEF new
    <3> QED BY <2>2, <2>4, <3>1, <3>2, <3>3 DEF Same
  <2> HIDE DEF new
  <2> QED BY <2>2, <2>3, <2>4, <2>5, <2>6 DEF new, Same
<1>2. CASE Named(list, n) # {}
  <2>1. PICK at : at = Min(Named(list, n))
    OBVIOUS
  <2>2. /\ new \in Lists /\ Roomy(new) /\ Size(new) = Size(list)
        /\ at \in 1 .. Size(list) /\ Same(NameAt(list, at), n)
        /\ \A k \in 1 .. Size(list) : NameAt(new, k) = NameAt(list, k)
        /\ \A k \in 1 .. Size(list) : k # at => ValueAt(new, k) = ValueAt(list, k)
        /\ ValueAt(new, at) = v
    BY <1>2, <2>1, Replaced
  <2> HIDE DEF new
  <2>3. Distinct(new)
    BY <2>2 DEF Distinct
  <2>4. \A k \in 1 .. Size(list) : k # at => ~Same(NameAt(new, k), n)
    BY <2>2 DEF Distinct, Same
  <2>5. ASSUME NEW m PROVE Named(new, m) # {} <=> Named(list, m) # {} \/ Same(m, n)
    <3>1. \A k : k \in Named(new, m) <=> k \in 1 .. Size(new) /\ Same(NameAt(new, k), m)
      BY <2>2, ListFact
    <3>2. \A k : k \in Named(list, m) <=> k \in 1 .. Size(list) /\ Same(NameAt(list, k), m)
      BY ListFact
    <3> QED BY <2>2, <3>1, <3>2 DEF Same
  <2> QED BY <2>2, <2>3, <2>4, <2>5 DEF new
<1> QED BY <1>1, <1>2

\* A copy that fails leaves the list as it was, or clears what it replaces.
LEMMA FailedReplace ==
  ASSUME NEW list \in Lists, Roomy(list), Distinct(list), NEW n \in Names,
         NEW new \in ReplaceFails(list, n)
  PROVE  new \in Lists /\ Roomy(new) /\ Distinct(new)
<1>1. CASE Named(list, n) = {}
  <2>1. new \in AddFails(list)
    BY <1>1 DEF ReplaceFails
  <2>2. new \in Lists /\ Roomy(new) /\ new.entries = list.entries
    BY <2>1, FailedAdd
  <2> QED BY <2>2 DEF Distinct, Size, NameAt
<1>2. CASE Named(list, n) # {}
  BY <1>2, AddedOrReplaced DEF ReplaceFails, Stored
<1> QED BY <1>1, <1>2

-----------------------------------------------------------------------------
(***************************************************************************)
(* The inductive invariant.                                                *)
(***************************************************************************)

Arguments == [kind : {"param", "event"}, name : Names, value : Values, stored : BOOLEAN]

Typed ==
  /\ stage \in {"arguments", "created", "attaching", "attached"}
  /\ props \in Lists /\ events \in Lists /\ bag \in Lists
  /\ handlers \in [Names -> Stored]
  /\ arguments \in Seq(Arguments)
  /\ Len(arguments) <= MaxArguments
  /\ bagFailed \in BOOLEAN

Allocated == Roomy(props) /\ Roomy(events) /\ Roomy(bag)

IsEvent(a) == a \in 1 .. Len(arguments) /\ arguments[a].kind = "event"
IsParam(a) == a \in 1 .. Len(arguments) /\ arguments[a].kind = "param" /\ arguments[a].stored

AllStored == \A a \in 1 .. Len(arguments) : IsEvent(a) => arguments[a].stored

\* a is the last handler of the event n.
LastEvent(a, n) ==
  /\ IsEvent(a) /\ Same(arguments[a].name, n)
  /\ \A b \in 1 .. Len(arguments) : IsEvent(b) /\ Same(arguments[b].name, n) => b <= a

\* An event has one entry, with its last handler.
EventsKeepLast ==
  /\ Distinct(events)
  /\ AllStored => \A k \in 1 .. Size(events) :
       \E a \in 1 .. Len(arguments) : /\ LastEvent(a, NameAt(events, k))
                                      /\ ValueAt(events, k) = arguments[a].value

\* The sink has what the list had when the control was created.
SinkIsLast ==
  (stage # "arguments" /\ AllStored) =>
    \A n \in Names : handlers[n] # NoHandler =>
      /\ Fold[n] = n
      /\ \E a \in 1 .. Len(arguments) : LastEvent(a, n) /\ handlers[n] = arguments[a].value

\* The entries are the parameters that were stored, in their order: at[e] is the
\* argument of entry e.
Ordered(at) ==
  /\ \A e \in 1 .. Size(props) :
       /\ IsParam(at[e])
       /\ arguments[at[e]].name = NameAt(props, e)
       /\ arguments[at[e]].value = ValueAt(props, e)
  /\ \A d, e \in 1 .. Size(props) : d < e => at[d] < at[e]
  /\ \A a \in 1 .. Len(arguments) : IsParam(a) => \E e \in 1 .. Size(props) : at[e] = a

PropsInOrder ==
  /\ Size(props) <= Len(arguments)
  /\ \A d, e \in 1 .. Size(props) : NameAt(props, d) = NameAt(props, e) => d = e
  /\ \E at \in [1 .. Size(props) -> 1 .. Len(arguments)] : Ordered(at)

\* The loop of Attach.
Progress ==
  /\ next \in Nat \ {0}
  /\ stage \in {"arguments", "created"} => next = 1 /\ Size(bag) = 0
  /\ stage = "attaching" => next <= Size(props)
  /\ stage = "attached" => next = Size(props) + 1

\* Of the parameters before next, e is the last one with the name n.
LastWritten(e, n) ==
  /\ e < next /\ Same(NameAt(props, e), n)
  /\ \A d \in 1 .. Size(props) : d < next /\ Same(NameAt(props, d), n) => d <= e

\* A name has one entry, with the last value that was written under it.
BagKeepsLast ==
  /\ Distinct(bag)
  /\ ~bagFailed =>
       /\ \A k \in 1 .. Size(bag) :
            \E e \in 1 .. Size(props) : /\ LastWritten(e, NameAt(bag, k))
                                        /\ ValueAt(bag, k) = ValueAt(props, e)
       /\ \A e \in 1 .. Size(props) : e < next => Named(bag, NameAt(props, e)) # {}

ParametersInv ==
  /\ Typed
  /\ Allocated
  /\ EventsKeepLast
  /\ SinkIsLast
  /\ PropsInOrder
  /\ Progress
  /\ BagKeepsLast

LEMMA InitParameters == Init => ParametersInv
<1> SUFFICES ASSUME Init PROVE ParametersInv
  OBVIOUS
<1>1. NewList \in Lists /\ Size(NewList) = 0 /\ NewList.max = 0
  BY DEF NewList, Lists, Size
<1>2. Typed
  <2>1. arguments \in Seq(Arguments) /\ Len(arguments) = 0 /\ MaxArguments \in Nat
    BY ListAssumption DEF Init
  <2>2. handlers \in [Names -> Stored]
    BY DEF Init, Stored, NoHandler
  <2>3. props \in Lists /\ events \in Lists /\ bag \in Lists
    BY <1>1 DEF Init
  <2>4. stage = "arguments" /\ bagFailed \in BOOLEAN
    BY DEF Init
  <2>5. Len(arguments) <= MaxArguments
    BY <2>1
  <2> QED BY <2>1, <2>2, <2>3, <2>4, <2>5 DEF Typed
<1>3. /\ Size(props) = 0 /\ Size(events) = 0 /\ Size(bag) = 0 /\ Len(arguments) = 0
      /\ Allocated /\ stage = "arguments" /\ next = 1
  BY <1>1 DEF Init, Allocated, Roomy
<1>4. \E at \in [1 .. Size(props) -> 1 .. Len(arguments)] : Ordered(at)
  <2> DEFINE none == [e \in 1 .. Size(props) |-> e]
  <2>1. none \in [1 .. Size(props) -> 1 .. Len(arguments)] /\ Ordered(none)
    BY <1>3 DEF Ordered
  <2> QED BY <2>1
<1>5. EventsKeepLast /\ SinkIsLast
  BY <1>3 DEF EventsKeepLast, SinkIsLast, Distinct
<1>6. PropsInOrder
  <2>1. ~\E e : e \in 1 .. Size(props)
    BY <1>3
  <2>2. Size(props) <= Len(arguments)
    BY <1>3
  <2> QED BY <1>4, <2>1, <2>2, Zenon DEF PropsInOrder
<1>7. Progress /\ BagKeepsLast
  BY <1>3 DEF Progress, BagKeepsLast, Distinct
<1> QED BY <1>2, <1>3, <1>5, <1>6, <1>7 DEF ParametersInv

-----------------------------------------------------------------------------
(***************************************************************************)
(* One lemma for each action.                                              *)
(***************************************************************************)

LEMMA ArgumentAdded ==
  ASSUME Typed, Len(arguments) < MaxArguments,
         NEW kind \in {"param", "event"}, NEW n \in Names, NEW v \in Values, NEW stored \in BOOLEAN,
         Given(kind, n, v, stored)
  PROVE  LET last == Len(arguments) + 1
         IN  /\ arguments' \in Seq(Arguments)
             /\ last \in Nat /\ Len(arguments') = last /\ last <= MaxArguments
             /\ \A a \in 1 .. Len(arguments) : a # last /\ arguments'[a] = arguments[a]
             /\ \A a : a \in 1 .. last <=> a \in 1 .. Len(arguments) \/ a = last
             /\ arguments'[last].kind = kind /\ arguments'[last].name = n
             /\ arguments'[last].value = v /\ arguments'[last].stored = stored
<1> DEFINE r == [kind |-> kind, name |-> n, value |-> v, stored |-> stored]
<1>1. r \in Arguments /\ r.kind = kind /\ r.name = n /\ r.value = v /\ r.stored = stored
  BY DEF Arguments
<1> HIDE DEF r
<1>2. arguments \in Seq(Arguments) /\ arguments' = Append(arguments, r) /\ Len(arguments) \in Nat
  BY DEF Typed, Given, r
<1> QED BY <1>1, <1>2, ListAssumption

LEMMA ParamArgumentKeeps ==
  ASSUME ParametersInv, NEW n \in Names, NEW v \in Values, ParamArgument(n, v)
  PROVE  ParametersInv'
<1> USE DEF ParametersInv
<1>0. PICK last : last = Len(arguments) + 1
  OBVIOUS
<1>1. /\ stage = "arguments" /\ Len(arguments) < MaxArguments
      /\ UNCHANGED <<stage, events, handlers, bag, next, bagFailed>>
  BY DEF ParamArgument
<1>2. PICK stored \in BOOLEAN :
        /\ Given("param", n, v, stored)
        /\ ~stored => props' = props \/ props' \in AddFails(props)
        /\ stored => /\ props' = AddNamedProperty(props, n, v)
                     /\ ~\E j \in DOMAIN props.entries : props.entries[j].name = n
  BY DEF ParamArgument
<1>3. /\ arguments' \in Seq(Arguments)
      /\ last \in Nat /\ Len(arguments') = last /\ last <= MaxArguments
      /\ \A a \in 1 .. Len(arguments) : a # last /\ arguments'[a] = arguments[a]
      /\ \A a : a \in 1 .. last <=> a \in 1 .. Len(arguments) \/ a = last
      /\ arguments'[last].kind = "param" /\ arguments'[last].name = n
      /\ arguments'[last].value = v /\ arguments'[last].stored = stored
  BY <1>0, <1>1, <1>2, ArgumentAdded
<1>4. \A a : IsEvent(a)' <=> IsEvent(a)
  BY <1>3 DEF IsEvent
<1>5. \A a \in 1 .. Len(arguments) : IsParam(a)' <=> IsParam(a)
  BY <1>3 DEF IsParam
<1>6. AllStored' <=> AllStored
  BY <1>3, <1>4 DEF AllStored, IsEvent
<1>7. EventsKeepLast'
  <2>1. \A a, m : LastEvent(a, m) => LastEvent(a, m)'
    BY <1>3, <1>4 DEF LastEvent, IsEvent, Same
  <2>2. Distinct(events)'
    BY <1>1 DEF EventsKeepLast
  <2>3. /\ Size(events') = Size(events)
        /\ \A k : NameAt(events', k) = NameAt(events, k) /\ ValueAt(events', k) = ValueAt(events, k)
    BY <1>1
  <2>4. ASSUME AllStored, NEW k \in 1 .. Size(events)
        PROVE  \E a \in 1 .. Len(arguments') :
                 LastEvent(a, NameAt(events, k))' /\ ValueAt(events', k) = arguments'[a].value
    <3>1. PICK a \in 1 .. Len(arguments) :
                 LastEvent(a, NameAt(events, k)) /\ ValueAt(events, k) = arguments[a].value
      BY <2>4 DEF EventsKeepLast
    <3>2. PICK m : m = NameAt(events, k)
      OBVIOUS
    <3>3. LastEvent(a, m)'
      BY <2>1, <3>1, <3>2
    <3>4. m = NameAt(events', k) /\ a \in 1 .. Len(arguments') /\ ValueAt(events', k) = arguments'[a].value
      BY <1>3, <2>3, <3>1, <3>2
    <3> QED BY <3>3, <3>4
  <2> QED BY <1>6, <2>2, <2>3, <2>4 DEF EventsKeepLast
<1>8. SinkIsLast'
  BY <1>1 DEF SinkIsLast
<1>9. PICK at \in [1 .. Size(props) -> 1 .. Len(arguments)] : Ordered(at)
  BY DEF PropsInOrder
<1>10. Size(props) \in Nat /\ props \in Lists /\ Roomy(props) /\ DOMAIN props.entries = 1 .. Size(props)
  BY ListFact DEF Typed, Allocated
<1>11. CASE ~stored
  <2>1. props' \in Lists /\ Roomy(props') /\ props'.entries = props.entries
    BY <1>2, <1>10, <1>11, FailedAdd
  <2>2. Size(props') = Size(props) /\ \A e : NameAt(props', e) = NameAt(props, e) /\ ValueAt(props', e) = ValueAt(props, e)
    BY <2>1 DEF Size, NameAt, ValueAt
  <2>3. Typed' /\ Allocated'
    BY <1>1, <1>3, <2>1 DEF Typed, Allocated, Roomy, Size
  <2>4. Progress' /\ BagKeepsLast'
    <3>1. next = 1
      BY <1>1 DEF Progress
    <3> QED BY <1>1, <2>2, <3>1 DEF Progress, BagKeepsLast, LastWritten, Distinct, Size, Named, NameAt, ValueAt
  <2>5. ~IsParam(last)'
    BY <1>3, <1>11 DEF IsParam
  <2>6. Ordered(at)'
    BY <1>3, <1>5, <1>9, <2>2, <2>5 DEF Ordered, IsParam
  <2>7. PropsInOrder'
    <3>1. at \in [1 .. Size(props') -> 1 .. Len(arguments')]
      BY <1>3, <2>2
    <3> QED BY <1>3, <1>10, <2>2, <2>6, <3>1 DEF PropsInOrder
  <2> QED BY <1>7, <1>8, <2>3, <2>4, <2>7
<1>12. CASE stored
  <2>0. PICK size : size = Size(props)
    OBVIOUS
  <2> DEFINE more == [e \in 1 .. size + 1 |-> IF e = size + 1 THEN last ELSE at[e]]
  <2>1. /\ props' \in Lists /\ Roomy(props') /\ Size(props') = size + 1
        /\ \A e \in 1 .. size : NameAt(props', e) = NameAt(props, e) /\ ValueAt(props', e) = ValueAt(props, e)
        /\ NameAt(props', size + 1) = n /\ ValueAt(props', size + 1) = v
    BY <1>2, <1>10, <1>12, <2>0, AddedLast DEF Stored, NameAt, ValueAt
  <2>2. \A e \in 1 .. size : NameAt(props, e) # n
    BY <1>2, <1>10, <1>12, <2>0 DEF NameAt
  <2>3. \A e : e \in 1 .. size + 1 <=> e \in 1 .. size \/ e = size + 1
    BY <1>10, <2>0
  <2>4. Typed' /\ Allocated'
    BY <1>1, <1>3, <2>1 DEF Typed, Allocated, Roomy, Size
  <2>5. Progress' /\ BagKeepsLast'
    <3>1. next = 1 /\ Size(bag) = 0 /\ Distinct(bag)
      BY <1>1 DEF Progress, BagKeepsLast
    <3>2. ~\E e \in 1 .. size + 1 : e < next
      BY <1>10, <2>0, <3>1
    <3>3. Size(bag') = 0 /\ Distinct(bag')
      BY <1>1, <3>1
    <3> QED BY <1>1, <2>1, <3>1, <3>2, <3>3 DEF Progress, BagKeepsLast, Distinct
  <2>6. /\ more \in [1 .. size + 1 -> 1 .. last]
        /\ more[size + 1] = last
        /\ \A e \in 1 .. size : more[e] = at[e] /\ at[e] \in 1 .. Len(arguments)
    BY <1>3, <1>9, <1>10, <2>0, <2>3
  <2> HIDE DEF more
  <2>7. IsParam(last)'
    BY <1>3, <1>12 DEF IsParam
  <2>8. Ordered(more)'
    <3>1. \A e \in 1 .. size + 1 : /\ IsParam(more[e])'
                                   /\ arguments'[more[e]].name = NameAt(props', e)
                                   /\ arguments'[more[e]].value = ValueAt(props', e)
      BY <1>3, <1>5, <1>9, <2>0, <2>1, <2>3, <2>6, <2>7 DEF Ordered
    <3>2. \A d, e \in 1 .. size + 1 : d < e => more[d] < more[e]
      <4>1. \A d \in 1 .. size : more[d] < last
        BY <1>3, <2>6
      <4>2. \A d, e \in 1 .. size + 1 : d < e => d \in 1 .. size
        BY <1>10, <2>0
      <4> QED BY <1>9, <2>0, <2>3, <2>6, <4>1, <4>2 DEF Ordered
    <3>3. \A a \in 1 .. last : IsParam(a)' => \E e \in 1 .. size + 1 : more[e] = a
      BY <1>3, <1>5, <1>9, <2>0, <2>3, <2>6 DEF Ordered
    <3> QED BY <1>3, <2>1, <3>1, <3>2, <3>3 DEF Ordered
  <2>9. PropsInOrder'
    <3>1. \A d, e \in 1 .. size + 1 : NameAt(props', d) = NameAt(props', e) => d = e
      BY <2>0, <2>1, <2>2, <2>3 DEF PropsInOrder
    <3>2. size + 1 <= last
      BY <1>3, <1>10, <2>0 DEF PropsInOrder
    <3> QED BY <1>3, <2>1, <2>6, <2>8, <3>1, <3>2 DEF PropsInOrder
  <2> QED BY <1>7, <1>8, <2>4, <2>5, <2>9
<1> QED BY <1>11, <1>12

LEMMA EventArgumentKeeps ==
  ASSUME ParametersInv, NEW n \in Names, NEW v \in Values, EventArgument(n, v)
  PROVE  ParametersInv'
<1> USE DEF ParametersInv
<1>0. PICK last : last = Len(arguments) + 1
  OBVIOUS
<1>1. /\ stage = "arguments" /\ Len(arguments) < MaxArguments
      /\ UNCHANGED <<stage, props, handlers, bag, next, bagFailed>>
  BY DEF EventArgument
<1>2. PICK stored \in BOOLEAN :
        /\ Given("event", n, v, stored)
        /\ ~stored => events' \in ReplaceFails(events, n)
        /\ stored => events' = AddOrReplace(events, n, v)
  BY DEF EventArgument
<1>3. /\ arguments' \in Seq(Arguments)
      /\ last \in Nat /\ Len(arguments') = last /\ last <= MaxArguments
      /\ \A a \in 1 .. Len(arguments) : a # last /\ arguments'[a] = arguments[a]
      /\ \A a : a \in 1 .. last <=> a \in 1 .. Len(arguments) \/ a = last
      /\ arguments'[last].kind = "event" /\ arguments'[last].name = n
      /\ arguments'[last].value = v /\ arguments'[last].stored = stored
  BY <1>0, <1>1, <1>2, ArgumentAdded
<1>4. events \in Lists /\ Roomy(events) /\ Distinct(events) /\ Size(props) \in Nat
  BY ListFact DEF Typed, Allocated, EventsKeepLast
<1>5. events' \in Lists /\ Roomy(events') /\ Distinct(events')
  BY <1>2, <1>4, AddedOrReplaced, FailedReplace DEF Stored
<1>6. Typed' /\ Allocated'
  BY <1>1, <1>3, <1>5 DEF Typed, Allocated, Roomy, Size
<1>7. SinkIsLast'
  BY <1>1 DEF SinkIsLast
<1>8. Progress' /\ BagKeepsLast'
  BY <1>1 DEF Progress, BagKeepsLast, LastWritten, Distinct, Size, Named, NameAt, ValueAt
<1>9. PropsInOrder'
  <2>1. PICK at \in [1 .. Size(props) -> 1 .. Len(arguments)] : Ordered(at)
    BY DEF PropsInOrder
  <2>2. \A a \in 1 .. last : IsParam(a)' <=> IsParam(a)
    BY <1>3 DEF IsParam
  <2>3. at \in [1 .. Size(props) -> 1 .. last]
    BY <1>3
  <2>4. Ordered(at)'
    <3>1. \A e \in 1 .. Size(props) : at[e] \in 1 .. Len(arguments)
      OBVIOUS
    <3>2. \A a \in 1 .. last : IsParam(a) => a \in 1 .. Len(arguments)
      BY DEF IsParam
    <3>3. Size(props') = Size(props) /\ \A e : NameAt(props', e) = NameAt(props, e) /\ ValueAt(props', e) = ValueAt(props, e)
      BY <1>1
    <3> QED BY <1>3, <2>1, <2>2, <3>1, <3>2, <3>3 DEF Ordered
  <2>5. Size(props') = Size(props) /\ \A e : NameAt(props', e) = NameAt(props, e)
    BY <1>1
  <2> QED BY <1>3, <1>4, <2>3, <2>4, <2>5 DEF PropsInOrder
<1>10. EventsKeepLast'
  <2>1. SUFFICES ASSUME AllStored', NEW k \in 1 .. Size(events')
                 PROVE  \E a \in 1 .. last : LastEvent(a, NameAt(events, k))' /\ ValueAt(events', k) = arguments'[a].value
    BY <1>3, <1>5 DEF EventsKeepLast
  <2>2. PICK m : m = NameAt(events', k)
    OBVIOUS
  <2>3. \A a \in 1 .. Len(arguments) : IsEvent(a)' <=> IsEvent(a)
    BY <1>3 DEF IsEvent
  <2>4. stored /\ AllStored
    BY <1>3, <2>1 DEF AllStored, IsEvent
  <2>5. \/ Same(m, n) /\ ValueAt(events', k) = v
        \/ /\ k \in 1 .. Size(events) /\ ~Same(m, n)
           /\ m = NameAt(events, k) /\ ValueAt(events', k) = ValueAt(events, k)
    BY <1>2, <1>4, <2>2, <2>4, AddedOrReplaced DEF Stored
  <2>6. CASE Same(m, n)
    <3>1. IsEvent(last)'
      BY <1>3 DEF IsEvent
    <3>2. LastEvent(last, m)'
      BY <1>3, <2>6, <3>1 DEF LastEvent, Same
    <3> QED BY <1>3, <2>2, <2>5, <2>6, <3>2
  <2>7. CASE ~Same(m, n)
    <3>1. PICK a \in 1 .. Len(arguments) : LastEvent(a, m) /\ ValueAt(events, k) = arguments[a].value
      BY <2>4, <2>5, <2>7 DEF EventsKeepLast
    <3>2. LastEvent(a, m)'
      <4>1. \A b \in 1 .. last : IsEvent(b)' /\ Same(arguments'[b].name, m) => b \in 1 .. Len(arguments)
        BY <1>3, <2>7 DEF Same
      <4> QED BY <1>3, <2>3, <3>1, <4>1 DEF LastEvent
    <3> QED BY <1>3, <2>2, <2>5, <2>7, <3>1, <3>2
  <2> QED BY <2>6, <2>7
<1> QED BY <1>6, <1>7, <1>8, <1>9, <1>10

LEMMA CreateKeeps ==
  ASSUME ParametersInv, Create
  PROVE  ParametersInv'
<1> USE DEF ParametersInv
<1>1. /\ stage = "arguments" /\ stage' = "created"
      /\ UNCHANGED <<props, events, bag, next, arguments, bagFailed>>
  BY DEF Create
<1>2. PICK known \in SUBSET {Fold[n] : n \in Names} :
        handlers' = [n \in Names |-> IF n \in known /\ Named(events, n) # {}
                                       THEN events.entries[Max(Named(events, n))].value
                                       ELSE NoHandler]
  BY DEF Create
<1>3. Size(events) \in Nat /\ events \in Lists
  BY ListFact DEF Typed
<1>4. ASSUME NEW n \in Names, Named(events, n) # {}
      PROVE  \E k \in 1 .. Size(events) : /\ Same(NameAt(events, k), n)
                                          /\ events.entries[Max(Named(events, n))].value = ValueAt(events, k)
                                          /\ ValueAt(events, k) \in Stored
  <2>1. PICK k : k = Max(Named(events, n))
    OBVIOUS
  <2>2. k \in Named(events, n)
    BY <1>3, <1>4, <2>1, ListFact, MaxIsGreatest
  <2>3. k \in 1 .. Size(events) /\ Same(NameAt(events, k), n) /\ ValueAt(events, k) \in Stored
    BY <1>3, <2>2, ListFact
  <2> QED BY <2>1, <2>3 DEF ValueAt
<1>5. Typed'
  <2>1. handlers' \in [Names -> Stored]
    BY <1>2, <1>4 DEF Stored, NoHandler
  <2> QED BY <1>1, <2>1 DEF Typed
<1>6. SinkIsLast'
  <2>1. SUFFICES ASSUME AllStored, NEW n \in Names, handlers'[n] # NoHandler
                 PROVE  /\ Fold[n] = n
                        /\ \E a \in 1 .. Len(arguments) : LastEvent(a, n) /\ handlers'[n] = arguments[a].value
    BY <1>1 DEF SinkIsLast, AllStored, LastEvent, IsEvent
  <2>2. Fold[n] = n
    BY <1>2, <2>1, ListAssumption
  <2>3. Named(events, n) # {} /\ handlers'[n] = events.entries[Max(Named(events, n))].value
    BY <1>2, <2>1
  <2>4. PICK k \in 1 .. Size(events) : Same(NameAt(events, k), n) /\ handlers'[n] = ValueAt(events, k)
    BY <1>4, <2>3
  <2>5. PICK a \in 1 .. Len(arguments) : LastEvent(a, NameAt(events, k)) /\ ValueAt(events, k) = arguments[a].value
    BY <2>1 DEF EventsKeepLast
  <2> QED BY <2>2, <2>4, <2>5 DEF LastEvent, Same
<1>7. Allocated' /\ EventsKeepLast'
  BY <1>1 DEF Allocated, Roomy, EventsKeepLast, AllStored, LastEvent, IsEvent, Distinct, Size, NameAt, ValueAt
<1>8. PropsInOrder'
  BY <1>1 DEF PropsInOrder, Ordered, IsParam, Size, NameAt, ValueAt
<1>9. Progress' /\ BagKeepsLast'
  BY <1>1 DEF Progress, BagKeepsLast, LastWritten, Distinct, Size, Named, NameAt, ValueAt
<1> QED BY <1>5, <1>6, <1>7, <1>8, <1>9

LEMMA StartAttachKeeps ==
  ASSUME ParametersInv, StartAttach
  PROVE  ParametersInv'
<1> USE DEF ParametersInv
<1>1. /\ stage = "created" /\ stage' = IF Size(props) > 0 THEN "attaching" ELSE "attached"
      /\ UNCHANGED <<props, events, handlers, bag, next, arguments, bagFailed>>
  BY DEF StartAttach
<1>2. Typed' /\ Allocated' /\ EventsKeepLast'
  BY <1>1 DEF Typed, Allocated, Roomy, EventsKeepLast, AllStored, LastEvent, IsEvent, Distinct, Size, NameAt, ValueAt
<1>3. SinkIsLast'
  BY <1>1 DEF SinkIsLast, AllStored, LastEvent, IsEvent
<1>4. PropsInOrder'
  BY <1>1 DEF PropsInOrder, Ordered, IsParam, Size, NameAt, ValueAt
<1>5. BagKeepsLast'
  BY <1>1 DEF BagKeepsLast, LastWritten, Distinct, Size, Named, NameAt, ValueAt
<1>6. Progress'
  <2>1. Size(props) \in Nat /\ Size(props') = Size(props) /\ next = 1 /\ next' = next
    BY <1>1, ListFact DEF Typed, Progress
  <2> QED BY <1>1, <2>1 DEF Progress
<1> QED BY <1>2, <1>3, <1>4, <1>5, <1>6

LEMMA WriteKeeps ==
  ASSUME ParametersInv, Write
  PROVE  ParametersInv'
<1> USE DEF ParametersInv
<1>1. /\ stage = "attaching" /\ stage' = IF next = Size(props) THEN "attached" ELSE stage
      /\ next' = next + 1
      /\ UNCHANGED <<props, events, handlers, arguments>>
  BY DEF Write
<1>2. PICK n : n = NameAt(props, next)
  OBVIOUS
<1>3. PICK v : v = ValueAt(props, next)
  OBVIOUS
<1>4. \/ bag' = AddOrReplace(bag, n, v) /\ bagFailed' = bagFailed
      \/ bag' \in ReplaceFails(bag, n) /\ bagFailed' = TRUE
  BY <1>2, <1>3 DEF Write, NameAt, ValueAt
<1>5. /\ props \in Lists /\ bag \in Lists /\ Roomy(bag) /\ Distinct(bag) /\ Size(props) \in Nat
      /\ next \in 1 .. Size(props)
  BY <1>1, ListFact DEF Typed, Allocated, Progress, BagKeepsLast
<1>6. n \in Names /\ v \in Stored
  BY <1>2, <1>3, <1>5, ListFact
<1>7. bag' \in Lists /\ Roomy(bag') /\ Distinct(bag')
  BY <1>4, <1>5, <1>6, AddedOrReplaced, FailedReplace
<1>8. Typed' /\ Allocated'
  <2>1. bagFailed' \in BOOLEAN
    BY <1>4 DEF Typed
  <2> QED BY <1>1, <1>7, <2>1 DEF Typed, Allocated, Roomy, Size
<1>9. EventsKeepLast' /\ SinkIsLast'
  <2>1. AllStored' <=> AllStored
    BY <1>1 DEF AllStored, IsEvent
  <2>2. \A b, m : LastEvent(b, m)' <=> LastEvent(b, m)
    BY <1>1 DEF LastEvent, IsEvent
  <2>3. EventsKeepLast'
    BY <1>1 DEF EventsKeepLast, AllStored, LastEvent, IsEvent, Distinct, Size, NameAt, ValueAt
  <2>4. SinkIsLast'
    BY <1>1, <2>1, <2>2 DEF SinkIsLast
  <2> QED BY <2>3, <2>4
<1>10. PropsInOrder'
  BY <1>1 DEF PropsInOrder, Ordered, IsParam, Size, NameAt, ValueAt
<1>11. Progress'
  <2>1. Size(props') = Size(props)
    BY <1>1
  <2> QED BY <1>1, <1>5, <2>1 DEF Progress
<1>12. BagKeepsLast'
  <2>1. SUFFICES ASSUME ~bagFailed'
                 PROVE  /\ \A k \in 1 .. Size(bag') :
                             \E e \in 1 .. Size(props) : /\ LastWritten(e, NameAt(bag, k))'
                                                         /\ ValueAt(bag', k) = ValueAt(props, e)
                        /\ \A e \in 1 .. Size(props) : e < next + 1 => Named(bag', NameAt(props, e)) # {}
    <3>1. Size(props') = Size(props) /\ \A e : NameAt(props', e) = NameAt(props, e) /\ ValueAt(props', e) = ValueAt(props, e)
      BY <1>1
    <3> QED BY <1>1, <1>7, <3>1 DEF BagKeepsLast
  <2>2. bag' = AddOrReplace(bag, n, v) /\ ~bagFailed
    BY <1>4, <2>1
  <2>3. \A k \in 1 .. Size(bag') :
          \/ Same(NameAt(bag', k), n) /\ ValueAt(bag', k) = v
          \/ /\ k \in 1 .. Size(bag) /\ ~Same(NameAt(bag', k), n)
             /\ NameAt(bag', k) = NameAt(bag, k) /\ ValueAt(bag', k) = ValueAt(bag, k)
    BY <1>5, <1>6, <2>2, AddedOrReplaced
  <2>4. \A m : Named(bag', m) # {} <=> Named(bag, m) # {} \/ Same(m, n)
    BY <1>5, <1>6, <2>2, AddedOrReplaced
  <2>5. \A e \in 1 .. Size(props) : e < next + 1 <=> e < next \/ e = next
    BY <1>5
  <2>6. \A e, m : LastWritten(e, m)' <=>
                  /\ e < next + 1 /\ Same(NameAt(props, e), m)
                  /\ \A d \in 1 .. Size(props) : d < next + 1 /\ Same(NameAt(props, d), m) => d <= e
    BY <1>1 DEF LastWritten, Same, Size, NameAt
  <2>7. ASSUME NEW k \in 1 .. Size(bag')
        PROVE  \E e \in 1 .. Size(props) : LastWritten(e, NameAt(bag, k))' /\ ValueAt(bag', k) = ValueAt(props, e)
    <3>1. PICK m : m = NameAt(bag', k)
      OBVIOUS
    <3>2. CASE Same(m, n)
      <4>1. PICK i : i = next
        OBVIOUS
      <4>2. LastWritten(i, m)'
        BY <1>2, <1>5, <2>5, <2>6, <3>2, <4>1 DEF Same
      <4> QED BY <1>3, <1>5, <2>3, <3>1, <3>2, <4>1, <4>2
    <3>3. CASE ~Same(m, n)
      <4>1. PICK e \in 1 .. Size(props) : LastWritten(e, m) /\ ValueAt(bag, k) = ValueAt(props, e)
        BY <2>2, <2>3, <3>1, <3>3 DEF BagKeepsLast
      <4>2. LastWritten(e, m)'
        BY <1>2, <2>5, <2>6, <3>3, <4>1 DEF LastWritten, Same
      <4> QED BY <2>3, <3>1, <3>3, <4>1, <4>2
    <3> QED BY <3>2, <3>3
  <2>8. \A e \in 1 .. Size(props) : e < next + 1 => Named(bag', NameAt(props, e)) # {}
    BY <1>2, <2>2, <2>4, <2>5 DEF BagKeepsLast, Same
  <2> QED BY <2>7, <2>8
<1> QED BY <1>8, <1>9, <1>10, <1>11, <1>12

THEOREM ParametersAreKept == Spec => []ParametersInv
<1>1. ParametersInv /\ [Next]_vars => ParametersInv'
  <2> SUFFICES ASSUME ParametersInv, [Next]_vars PROVE ParametersInv'
    OBVIOUS
  <2>1. CASE UNCHANGED vars
    <3>1. Typed' /\ Allocated' /\ Progress'
      BY <2>1 DEF vars, ParametersInv, Typed, Allocated, Roomy, Progress, Size
    <3>2. EventsKeepLast' /\ SinkIsLast'
      BY <2>1 DEF vars, ParametersInv, EventsKeepLast, SinkIsLast, AllStored, LastEvent, IsEvent, Distinct,
                  Size, NameAt, ValueAt
    <3>3. PropsInOrder'
      BY <2>1 DEF vars, ParametersInv, PropsInOrder, Ordered, IsParam, Size, NameAt, ValueAt
    <3>4. BagKeepsLast'
      BY <2>1 DEF vars, ParametersInv, BagKeepsLast, LastWritten, Distinct, Size, Named, NameAt, ValueAt
    <3> QED BY <3>1, <3>2, <3>3, <3>4 DEF ParametersInv
  <2> QED BY <2>1, ParamArgumentKeeps, EventArgumentKeeps, CreateKeeps, StartAttachKeeps, WriteKeeps DEF Next
<1> QED BY <1>1, InitParameters, PTL DEF Spec

-----------------------------------------------------------------------------
(***************************************************************************)
(* What follows from it.                                                   *)
(***************************************************************************)

\* The variables have their types; at most as many parameters are written as
\* there are arguments.
THEOREM TypeCorrect == Spec => []TypeOK
<1>1. ParametersInv => TypeOK
  <2> SUFFICES ASSUME ParametersInv PROVE TypeOK
    OBVIOUS
  <2>1. Size(props) \in Nat /\ Size(props) <= MaxArguments /\ Len(arguments) <= MaxArguments
    BY ListFact, ListAssumption DEF ParametersInv, Typed, PropsInOrder
  <2>2. next \in 1 .. MaxArguments + 1
    BY <2>1, ListAssumption DEF ParametersInv, Typed, Progress
  <2>3. \A list \in {props, events, bag} : list.entries \in Seq(Entries) /\ list.max \in Nat
    BY DEF ParametersInv, Typed, Lists
  <2> QED BY <2>1, <2>2, <2>3 DEF TypeOK, ParametersInv, Typed, Stored, NoHandler
<1> QED BY <1>1, ParametersAreKept, PTL

\* No list writes past its memory, whatever is added and whichever allocations
\* fail (EnsureMoreSpace, PropertyList.h:53-75).
THEOREM Allocation == Spec => []InsideAllocation
<1>1. ParametersInv => InsideAllocation
  BY DEF ParametersInv, Allocated, Roomy, InsideAllocation
<1> QED BY <1>1, ParametersAreKept, PTL

\* Of several handlers of one event the last runs, however its name is written,
\* and none runs that the page did not name (NPP_New, AddEventHandler).
THEOREM LastHandler == Spec => []LastHandlerCounts
<1>1. ParametersInv => LastHandlerCounts
  <2> SUFFICES ASSUME ParametersInv PROVE LastHandlerCounts
    OBVIOUS
  <2>1. arguments \in Seq(Arguments) /\ DOMAIN arguments = 1 .. Len(arguments) /\ Len(arguments) \in Nat
    BY DEF ParametersInv, Typed
  <2>2. SUFFICES ASSUME stage # "arguments", AllStored, NEW n \in Names, handlers[n] # NoHandler
                 PROVE  LET stored == {j \in DOMAIN arguments :
                                         /\ arguments[j].kind = "event"
                                         /\ arguments[j].stored
                                         /\ Fold[arguments[j].name] = n}
                        IN  stored # {} /\ handlers[n] = arguments[Max(stored)].value
    BY <2>1 DEF LastHandlerCounts, StoredAs, AllStored, IsEvent
  <2>3. PICK a \in 1 .. Len(arguments) : LastEvent(a, n) /\ handlers[n] = arguments[a].value
    BY <2>2 DEF ParametersInv, SinkIsLast
  <2>4. Fold[n] = n
    BY <2>2 DEF ParametersInv, SinkIsLast
  <2> DEFINE stored == {j \in DOMAIN arguments :
                          arguments[j].kind = "event" /\ arguments[j].stored /\ Fold[arguments[j].name] = n}
  <2>5. a \in stored /\ stored \in SUBSET (1 .. Len(arguments))
    BY <2>1, <2>2, <2>3, <2>4 DEF LastEvent, IsEvent, AllStored, Same
  <2>6. \A b \in stored : b <= a
    BY <2>1, <2>3, <2>4 DEF LastEvent, IsEvent, Same
  <2>7. Max(stored) = a
    BY <2>1, <2>5, <2>6, MaxIs
  <2> HIDE DEF stored
  <2>8. stored # {} /\ handlers[n] = arguments[Max(stored)].value
    BY <2>3, <2>5, <2>7
  <2> QED BY <2>8 DEF stored
<1> QED BY <1>1, ParametersAreKept, PTL

\* The control reads every parameter that was stored, under any spelling: of one
\* spelling the first, of several the one that came last (Attach, Write, Read).
THEOREM ParametersRead == Spec => []ControlReadsParameters
<1>1. ParametersInv => ControlReadsParameters
  <2> SUFFICES ASSUME ParametersInv, stage = "attached", ~bagFailed, NEW n \in Names
               PROVE  LET spelled == StoredAs("param", LAMBDA m : Fold[m] = Fold[n])
                          firsts == {j \in spelled : \A k \in spelled :
                                       arguments[k].name = arguments[j].name => k >= j}
                      IN  Read(n) = IF firsts = {} THEN Empty ELSE arguments[Max(firsts)].value
    BY DEF ControlReadsParameters
  <2> DEFINE spelled == {a \in 1 .. Len(arguments) : IsParam(a) /\ Same(arguments[a].name, n)}
  <2>1. arguments \in Seq(Arguments) /\ DOMAIN arguments = 1 .. Len(arguments) /\ Len(arguments) \in Nat
    BY DEF ParametersInv, Typed
  <2>2. props \in Lists /\ bag \in Lists /\ Size(props) \in Nat /\ Size(bag) \in Nat /\ next = Size(props) + 1
    BY ListFact DEF ParametersInv, Typed, Progress
  <2>3. PICK at \in [1 .. Size(props) -> 1 .. Len(arguments)] : Ordered(at)
    BY DEF ParametersInv, PropsInOrder
  <2>4. \A j, k \in 1 .. Len(arguments) :
           IsParam(j) /\ IsParam(k) /\ arguments[j].name = arguments[k].name => j = k
    BY <2>3 DEF Ordered, ParametersInv, PropsInOrder
  <2>5. spelled = StoredAs("param", LAMBDA m : Fold[m] = Fold[n])
    BY <2>1 DEF StoredAs, IsParam, Same
  <2>6. spelled = {j \in spelled : \A k \in spelled : arguments[k].name = arguments[j].name => k >= j}
    BY <2>1, <2>4
  <2>7. Read(n) = IF spelled = {} THEN Empty ELSE arguments[Max(spelled)].value
    <3>1. CASE Named(bag, n) = {}
      <4>1. \A e \in 1 .. Size(props) : ~Same(NameAt(props, e), n)
        <5>1. ASSUME NEW e \in 1 .. Size(props), Same(NameAt(props, e), n) PROVE FALSE
          <6>1. Named(bag, NameAt(props, e)) # {}
            BY <2>2 DEF ParametersInv, BagKeepsLast
          <6>2. Named(bag, NameAt(props, e)) = Named(bag, n)
            BY <2>2, <5>1 DEF Named, Same
          <6> QED BY <3>1, <6>1, <6>2
        <5> QED BY <5>1
      <4>2. spelled = {}
        BY <2>3, <4>1 DEF Ordered
      <4> QED BY <3>1, <4>2 DEF Read
    <3>2. CASE Named(bag, n) # {}
      <4>1. PICK k : k = Min(Named(bag, n))
        OBVIOUS
      <4>2. k \in 1 .. Size(bag) /\ Same(NameAt(bag, k), n)
        BY <2>2, <3>2, <4>1, ListFact, MinIsLeast
      <4>3. PICK e \in 1 .. Size(props) : LastWritten(e, NameAt(bag, k)) /\ ValueAt(bag, k) = ValueAt(props, e)
        BY <4>2 DEF ParametersInv, BagKeepsLast
      <4>4. Same(NameAt(props, e), n)
        BY <4>2, <4>3 DEF LastWritten, Same
      <4>5. \A d \in 1 .. Size(props) : Same(NameAt(props, d), n) => d <= e
        BY <2>2, <4>2, <4>3 DEF LastWritten, Same
      <4>6. at[e] \in spelled /\ arguments[at[e]].value = ValueAt(props, e)
        BY <2>3, <4>4 DEF Ordered
      <4>7. ASSUME NEW a \in spelled PROVE a <= at[e]
        <5>1. PICK d \in 1 .. Size(props) : at[d] = a
          BY <2>3, <4>7 DEF Ordered
        <5>2. d <= e
          BY <2>3, <4>5, <4>7, <5>1 DEF Ordered
        <5>3. d = e \/ d < e
          BY <2>2, <5>2
        <5> QED BY <2>1, <2>3, <5>1, <5>3 DEF Ordered
      <4>8. Max(spelled) = at[e]
        BY <2>1, <4>6, <4>7, MaxIs
      <4> HIDE DEF spelled
      <4> QED BY <3>2, <4>1, <4>3, <4>6, <4>8 DEF Read, ValueAt
    <3> QED BY <3>1, <3>2
  <2> HIDE DEF spelled
  <2> QED BY <2>5, <2>6, <2>7
<1> QED BY <1>1, ParametersAreKept, PTL
=============================================================================

--------------------------- MODULE ParameterLists ---------------------------
(***************************************************************************)
(* The way of parameters and event handlers from the arguments of NPP_New  *)
(* to the control (ffactivex.cpp, common/PropertyList.h, PropertyBag.cpp). *)
(* A list has entries and the number of entries its memory has room for.   *)
(* Parameters go through a list of the host and a property bag, handlers   *)
(* through a list of NPP_New and the event sink.  Any allocation may fail. *)
(***************************************************************************)
EXTENDS Integers, FiniteSets, SequencesExt

CONSTANTS Names,         \* names as they are written
          Fold,          \* the name a name stands for when case is ignored
          Values,        \* values of arguments
          Empty,         \* a value that was cleared and could not be copied
          GrowBy,        \* kGrowBy
          MaxArguments   \* bound on the arguments of NPP_New

ASSUME ListAssumption ==
  /\ Fold \in [Names -> Names]
  /\ \A n \in Names : Fold[Fold[n]] = Fold[n]
  /\ Empty \notin Values
  /\ GrowBy \in Nat \ {0}
  /\ MaxArguments \in Nat

VARIABLES stage,      \* "arguments", "created", "attaching" or "attached"
          props,      \* CAxHost::Props, later m_ParameterList
          events,     \* the list of NPP_New
          handlers,   \* CControlEventSink::events, by the name of the event
          bag,        \* the property bag of Attach
          next,       \* the loop of Attach over the parameters
          arguments,  \* history: the arguments, and whether they were stored
          bagFailed   \* history: an allocation failed while the bag was filled

vars == <<stage, props, events, handlers, bag, next, arguments, bagFailed>>

Entries == [name : Names, value : Values \cup {Empty}]
NoHandler == Empty

TypeOK ==
  /\ stage \in {"arguments", "created", "attaching", "attached"}
  /\ \A list \in {props, events, bag} :
       /\ list.entries \in Seq(Entries)
       /\ list.max \in Nat
  /\ handlers \in [Names -> Values \cup {NoHandler}]
  /\ next \in 1 .. MaxArguments + 1
  /\ Len(arguments) <= MaxArguments
  /\ bagFailed \in BOOLEAN

NewList == [entries |-> <<>>, max |-> 0]

Init ==
  /\ stage = "arguments"
  /\ props = NewList
  /\ events = NewList
  /\ handlers = [n \in Names |-> NoHandler]
  /\ bag = NewList
  /\ next = 1
  /\ arguments = <<>>
  /\ bagFailed = FALSE

-----------------------------------------------------------------------------
Size(list) == Len(list.entries)

Entry(n, v) == [name |-> n, value |-> v]

\* There is room as long as the memory has not overflowed.
MutantEnsureMoreSpace(list) ==
  IF list.max = 0 \/ Size(list) > list.max THEN [list EXCEPT !.max = @ + GrowBy] ELSE list

\* EnsureMoreSpace.
EnsureMoreSpace(list) ==
  IF list.max = 0 \/ Size(list) = list.max THEN [list EXCEPT !.max = @ + GrowBy] ELSE list

\* AddNamedProperty when it succeeds; when it fails it has changed nothing, or
\* got memory only.
AddNamedProperty(list, n, v) ==
  LET room == EnsureMoreSpace(list)
  IN  [room EXCEPT !.entries = Append(@, Entry(n, v))]

AddFails(list) == {list, EnsureMoreSpace(list)}

\* Where a list has a name, when case is ignored.
Named(list, n) == {j \in DOMAIN list.entries : Fold[list.entries[j].name] = Fold[n]}

\* Case is not ignored.
MutantAddOrReplace(list, n, v) ==
  LET same == {j \in DOMAIN list.entries : list.entries[j].name = n}
  IN  IF same = {} THEN AddNamedProperty(list, n, v)
      ELSE [list EXCEPT !.entries[Min(same)].value = v]

\* AddOrReplaceNamedProperty puts the value in the first entry of that name.
AddOrReplace(list, n, v) ==
  IF Named(list, n) = {} THEN AddNamedProperty(list, n, v)
  ELSE [list EXCEPT !.entries[Min(Named(list, n))].value = v]

\* VariantCopy clears its target before it fails.
ReplaceFails(list, n) ==
  IF Named(list, n) = {} THEN AddFails(list) ELSE {AddOrReplace(list, n, Empty)}

Given(kind, n, v, stored) ==
  arguments' = Append(arguments, [kind |-> kind, name |-> n, value |-> v, stored |-> stored])

\* An argument param_<name>: a name that is already there, written the same
\* way, is not added again.
ParamArgument(n, v) ==
  /\ stage = "arguments"
  /\ Len(arguments) < MaxArguments
  /\ IF \E j \in DOMAIN props.entries : props.entries[j].name = n
       THEN /\ Given("param", n, v, FALSE)
            /\ UNCHANGED props
       ELSE \/ /\ props' = AddNamedProperty(props, n, v)
               /\ Given("param", n, v, TRUE)
            \/ /\ props' \in AddFails(props)
               /\ Given("param", n, v, FALSE)
  /\ UNCHANGED <<stage, events, handlers, bag, next, bagFailed>>

\* The first handler of a name stays.
MutantEventArgument(n, v) ==
  /\ stage = "arguments"
  /\ Len(arguments) < MaxArguments
  /\ events' = IF Named(events, n) = {} THEN AddNamedProperty(events, n, v) ELSE events
  /\ Given("event", n, v, TRUE)
  /\ UNCHANGED <<stage, props, handlers, bag, next, bagFailed>>

\* An argument event_<name>.
EventArgument(n, v) ==
  /\ stage = "arguments"
  /\ Len(arguments) < MaxArguments
  /\ \/ /\ events' = AddOrReplace(events, n, v)
        /\ Given("event", n, v, TRUE)
     \/ /\ events' \in ReplaceFails(events, n)
        /\ Given("event", n, v, FALSE)
  /\ UNCHANGED <<stage, props, handlers, bag, next, bagFailed>>

\* CreateControl copies the list of parameters; then AddEventHandler is called
\* for each handler whose event the control has, ignoring case.
Create ==
  /\ stage = "arguments"
  /\ stage' = "created"
  /\ \E known \in SUBSET {Fold[n] : n \in Names} :
       handlers' = [n \in Names |->
                      IF n \in known /\ Named(events, n) # {}
                        THEN events.entries[Max(Named(events, n))].value
                        ELSE NoHandler]
  /\ UNCHANGED <<props, events, bag, next, arguments, bagFailed>>

\* Attach makes a bag if there are parameters.
StartAttach ==
  /\ stage = "created"
  /\ stage' = IF Size(props) > 0 THEN "attaching" ELSE "attached"
  /\ UNCHANGED <<props, events, handlers, bag, next, arguments, bagFailed>>

\* The last parameter is forgotten.
MutantWrite ==
  /\ stage = "attaching"
  /\ LET entry == props.entries[next]
     IN  bag' = AddOrReplace(bag, entry.name, entry.value)
  /\ next' = next + 1
  /\ stage' = IF next + 1 >= Size(props) THEN "attached" ELSE stage
  /\ UNCHANGED <<props, events, handlers, arguments, bagFailed>>

\* CPropertyBag::Write for one parameter.
Write ==
  /\ stage = "attaching"
  /\ LET entry == props.entries[next]
     IN  \/ /\ bag' = AddOrReplace(bag, entry.name, entry.value)
            /\ UNCHANGED bagFailed
         \/ /\ bag' \in ReplaceFails(bag, entry.name)
            /\ bagFailed' = TRUE
  /\ next' = next + 1
  /\ stage' = IF next = Size(props) THEN "attached" ELSE stage
  /\ UNCHANGED <<props, events, handlers, arguments>>

Next ==
  \/ \E n \in Names, v \in Values : ParamArgument(n, v) \/ EventArgument(n, v)
  \/ Create \/ StartAttach \/ Write

Spec == Init /\ [][Next]_vars

-----------------------------------------------------------------------------
\* CPropertyBag::Read: the value of the first entry of that name.
Read(n) == IF Named(bag, n) = {} THEN Empty ELSE bag.entries[Min(Named(bag, n))].value

\* What was stored under a name, by arguments of one kind.
StoredAs(kind, Same(_)) ==
  {j \in DOMAIN arguments :
     arguments[j].kind = kind /\ arguments[j].stored /\ Same(arguments[j].name)}

\* No list writes past its memory, however it has grown (PropertyList.h:53-75).
InsideAllocation == \A list \in {props, events, bag} : Size(list) <= list.max

\* Of several handlers of one event the last counts, however its name is
\* written; an event runs no handler the page did not name for it, unless an
\* allocation failed on the way (ffactivex.cpp:337, 393, axhost.cpp:483).
LastHandlerCounts ==
  (stage # "arguments" /\ \A j \in DOMAIN arguments : arguments[j].kind = "event" => arguments[j].stored) =>
    \A n \in Names : handlers[n] # NoHandler =>
      LET stored == StoredAs("event", LAMBDA m : Fold[m] = n)
      IN  stored # {} /\ handlers[n] = arguments[Max(stored)].value

\* The control reads every parameter that was stored, under any spelling.  Of one
\* spelling the first argument counts, of several spellings the one that came
\* last (ffactivex.cpp:345-363, ControlSite.cpp:533-540, PropertyBag.cpp:64-83).
ControlReadsParameters ==
  (stage = "attached" /\ ~bagFailed) =>
    \A n \in Names :
      LET spelled == StoredAs("param", LAMBDA m : Fold[m] = Fold[n])
          firsts == {j \in spelled : \A k \in spelled :
                                      arguments[k].name = arguments[j].name => k >= j}
      IN  Read(n) = IF firsts = {} THEN Empty ELSE arguments[Max(firsts)].value
=============================================================================

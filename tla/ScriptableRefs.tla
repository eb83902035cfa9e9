--------------------------- MODULE ScriptableRefs ---------------------------
(***************************************************************************)
(* The scriptable objects of one plugin instance (scriptable.h): wrappers  *)
(* that the page holds, each with a COM object behind it.  COM objects are *)
(* counted by whoever takes a reference; the wrapper gives back two when   *)
(* it is deleted, one in its destructor and one in its smart pointer, and  *)
(* so it relies on being made with two.                                    *)
(***************************************************************************)
EXTENDS Integers, FiniteSets

CONSTANTS Wrappers,    \* the Scriptable objects that can exist at one time
          Controls,    \* COM objects: the hosted control and others it returns
          Main,        \* the hosted control
          NoControl,   \* a NULL interface pointer
          Borrowing,   \* values are also wrapped that nobody counts for the wrapper
          MaxKept      \* bound: arrays of each object that keep a reference on it

ASSUME WrapperAssumption ==
  /\ IsFiniteSet(Wrappers)
  /\ Main \in Controls
  /\ NoControl \notin Controls
  /\ Borrowing \in BOOLEAN
  /\ MaxKept \in Nat

VARIABLES refs,      \* COM reference count of each object, negative when more
                     \* was released than taken
          site,      \* "creating", "attached" (m_spObject is set) or "detached"
          others,    \* whether the control's own side holds the object
          state,     \* "free", "live" or "invalid" for each wrapper
          control,   \* the COM object behind it
          owner,     \* who holds the wrapper: "page", or the "plugin" for ever
          ended,     \* the plugin instance has ended
          kept,      \* references of arrays that nobody clears, on each object
          misused,   \* objects that were used when they were gone, and NoControl
                     \* when NULL was used
          borrowed,  \* history: objects wrapped with one reference only
          wrappedNull \* history: NULL was wrapped

wrapperVars == <<state, control, owner>>
historyVars == <<borrowed, wrappedNull>>
vars == <<refs, site, others, wrapperVars, ended, kept, misused, historyVars>>

TypeOK ==
  /\ refs \in [Controls -> Int]
  /\ site \in {"creating", "attached", "detached"}
  /\ others \in [Controls -> BOOLEAN]
  /\ state \in [Wrappers -> {"free", "live", "invalid"}]
  /\ control \in [Wrappers -> Controls \cup {NoControl}]
  /\ \A s \in Wrappers : state[s] = "free" => control[s] = NoControl
  /\ owner \in [Wrappers -> {"page", "plugin"}]
  /\ ended \in BOOLEAN
  /\ kept \in [Controls -> 0 .. MaxKept]
  /\ misused \subseteq Controls \cup {NoControl}
  /\ borrowed \subseteq Controls
  /\ wrappedNull \in BOOLEAN

\* The control is not created yet; what it may return exists with one reference.
Init ==
  /\ refs = [c \in Controls |-> IF c = Main THEN 0 ELSE 1]
  /\ site = "creating"
  /\ others = [c \in Controls |-> c # Main]
  /\ state = [s \in Wrappers |-> "free"]
  /\ control = [s \in Wrappers |-> NoControl]
  /\ owner = [s \in Wrappers |-> "page"]
  /\ ended = FALSE
  /\ kept = [c \in Controls |-> 0]
  /\ misused = {}
  /\ borrowed = {}
  /\ wrappedNull = FALSE

-----------------------------------------------------------------------------
\* createobject, setControl and setInstance.
New(s, c, who) ==
  /\ state[s] = "free"
  /\ state' = [state EXCEPT ![s] = "live"]
  /\ control' = [control EXCEPT ![s] = c]
  /\ owner' = [owner EXCEPT ![s] = who]

\* References are added to an object.
AddRef(c, n) == refs' = [refs EXCEPT ![c] = @ + n]

\* The object c is used by someone who relies on it having n references.
Use(c, n) == misused' = IF refs[c] < n THEN misused \cup {c} ELSE misused

\* The site has created the control.
CreateControl ==
  /\ site = "creating"
  /\ ~ended
  /\ site' = "attached"
  /\ AddRef(Main, 1)
  /\ UNCHANGED <<others, wrapperVars, ended, kept, misused, historyVars>>

\* The reference of GetControlUnknown is released.
MutantGetScriptableObject(s) ==
  /\ ~ended
  /\ site = "attached"
  /\ New(s, Main, "page")
  /\ AddRef(Main, 1)
  /\ UNCHANGED <<site, others, ended, kept, misused, historyVars>>

\* GetScriptableObject: GetControlUnknown takes a reference, which nobody
\* releases, and setControl another.  Before the control is there, NULL is
\* wrapped.
GetScriptableObject(s) ==
  /\ ~ended
  /\ \/ /\ site = "attached"
        /\ New(s, Main, "page")
        /\ AddRef(Main, 2)
        /\ UNCHANGED wrappedNull
     \/ /\ site = "creating"
        /\ New(s, NoControl, "page")
        /\ wrappedNull' = TRUE
        /\ UNCHANGED refs
  /\ UNCHANGED <<site, others, ended, kept, misused, borrowed>>

\* A wrapper whose control can be called.
Callable(s) == state[s] = "live" /\ control[s] \in Controls

\* The result is cleared after its conversion.
MutantWrapResult(s, c) ==
  /\ ~ended
  /\ \E caller \in Wrappers : Callable(caller)
  /\ refs[c] > 0
  /\ New(s, c, "page")
  /\ AddRef(c, 1)
  /\ UNCHANGED <<site, others, ended, kept, misused, historyVars>>

\* Dispatch2NPVar or Unknown2NPVar of a result, or of an element of an array of
\* VARIANTs in a result: the result, or the array, carries a reference that is
\* never cleared, and setControl takes another.  A wrapper that was to be stored
\* under a negative index stays with the plugin.
WrapResult(s, c) ==
  /\ ~ended
  /\ \E caller \in Wrappers : Callable(caller)
  /\ refs[c] > 0
  /\ \E who \in {"page", "plugin"} : New(s, c, who)
  /\ AddRef(c, 2)
  /\ UNCHANGED <<site, others, ended, kept, misused, historyVars>>

\* The same of an element of an array of interfaces: here SafeArrayGetElement
\* takes a reference for the wrapper too, so that the array's own stays.
WrapElement(s, c) ==
  /\ ~ended
  /\ \E caller \in Wrappers : Callable(caller)
  /\ refs[c] > 0
  /\ kept[c] < MaxKept
  /\ kept' = [kept EXCEPT ![c] = @ + 1]
  /\ \E who \in {"page", "plugin"} : New(s, c, who)
  /\ AddRef(c, 3)
  /\ UNCHANGED <<site, others, ended, misused, historyVars>>

\* An element that its conversion does not come to, as it has failed before or a
\* lower bound excludes it: the array of the result keeps it.
LeaveElement(c) ==
  /\ ~ended
  /\ \E caller \in Wrappers : Callable(caller)
  /\ refs[c] > 0
  /\ kept[c] < MaxKept
  /\ kept' = [kept EXCEPT ![c] = @ + 1]
  /\ AddRef(c, 1)
  /\ UNCHANGED <<site, others, wrapperVars, ended, misused, historyVars>>

\* The same of an argument of an event, which belongs to the control as an array
\* in it does: an element of an array of interfaces has the reference of
\* SafeArrayGetElement besides that of setControl; anything else has setControl's
\* only.  The plugin never releases the wrapper.
WrapArgument(s, c) ==
  /\ ~ended
  /\ site = "attached"
  /\ refs[c] > 0
  /\ New(s, c, "plugin")
  /\ \/ /\ AddRef(c, 2)
        /\ UNCHANGED borrowed
     \/ /\ Borrowing
        /\ AddRef(c, 1)
        /\ borrowed' = borrowed \cup {c}
  /\ UNCHANGED <<site, others, ended, kept, misused, wrappedNull>>

\* The value is NULL: as an IUnknown it is wrapped, as an IDispatch it is asked
\* for its IUnknown.
WrapNull(s) ==
  /\ ~ended
  /\ \E caller \in Wrappers : Callable(caller)
  /\ wrappedNull' = TRUE
  /\ \/ New(s, NoControl, "page") /\ UNCHANGED misused
     \/ misused' = misused \cup {NoControl} /\ UNCHANGED wrapperVars
  /\ UNCHANGED <<refs, site, others, ended, kept, borrowed>>

\* HasMethod, Invoke, GetProperty and SetProperty: nothing without a control.
CallControl(s) ==
  /\ Callable(s)
  /\ Use(control[s], 1)
  /\ UNCHANGED <<refs, site, others, wrapperVars, ended, kept, historyVars>>

\* The page or the browser lets the wrapper go: its destructor releases the
\* control, NULL or not, and its smart pointer releases it again.
Deallocate(s) ==
  /\ state[s] # "free"
  /\ owner[s] = "page" \/ ended
  /\ state' = [state EXCEPT ![s] = "free"]
  /\ control' = [control EXCEPT ![s] = NoControl]
  /\ IF control[s] = NoControl
       THEN /\ misused' = misused \cup {NoControl}
            /\ UNCHANGED refs
       ELSE /\ Use(control[s], 2)
            /\ AddRef(control[s], -2)
  /\ UNCHANGED <<site, others, owner, ended, kept, historyVars>>

\* The control forgets one of the objects it had.
ReleaseOther(c) ==
  /\ others[c]
  /\ others' = [others EXCEPT ![c] = FALSE]
  /\ Use(c, 1)
  /\ AddRef(c, -1)
  /\ UNCHANGED <<site, wrapperVars, ended, kept, historyVars>>

\* Detach, when the host is deleted.
Detach ==
  /\ site = "attached"
  /\ site' = "detached"
  /\ Use(Main, 1)
  /\ AddRef(Main, -1)
  /\ UNCHANGED <<others, wrapperVars, ended, kept, historyVars>>

\* The browser ends the instance and invalidates what is left of its objects.
End ==
  /\ ~ended
  /\ ended' = TRUE
  /\ state' = [s \in Wrappers |-> IF state[s] = "live" THEN "invalid" ELSE state[s]]
  /\ UNCHANGED <<refs, site, others, control, owner, kept, misused, historyVars>>

Next ==
  \/ CreateControl \/ Detach \/ End
  \/ \E s \in Wrappers :
       \/ GetScriptableObject(s) \/ WrapNull(s) \/ CallControl(s) \/ Deallocate(s)
       \/ \E c \in Controls : WrapResult(s, c) \/ WrapElement(s, c) \/ WrapArgument(s, c)
  \/ \E c \in Controls : LeaveElement(c) \/ ReleaseOther(c)

Spec == Init /\ [][Next]_vars

-----------------------------------------------------------------------------
WrappersOf(c) == {s \in Wrappers : state[s] # "free" /\ control[s] = c}

One(held) == IF held THEN 1 ELSE 0

\* The references on an object are those of the site, of the control's side and
\* two for each wrapper, as long as it was never wrapped with one only: so it is
\* not freed under a wrapper or the site.  When they are gone it is freed, with one
\* exception: each array of interfaces that returned it, and each array it was
\* returned in but not converted, keeps a reference for ever, because no
\* result is cleared (scriptable.h:201-204, 277-288, 316-324, axhost.cpp:505-516,
\* variants.cpp:135-157, 220-247).
ReferencesAccounted ==
  \A c \in Controls \ borrowed :
    refs[c] = One(c = Main /\ site = "attached") + One(others[c])
                + 2 * Cardinality(WrappersOf(c)) + kept[c]

\* Whatever is used though it is gone or NULL is so for a reason of its own: that
\* very object was wrapped with too few references, or NULL was wrapped, as
\* happens while the control is still being created (scriptable.h:201-204).
FaultsExplained == misused \subseteq borrowed \cup (IF wrappedNull THEN {NoControl} ELSE {})
=============================================================================

------------------------------- MODULE EnvValues -------------------------------
(***************************************************************************)
(* How src/src/EnvironmentWatcher.cpp writes an R value as JSON.           *)
(*                                                                         *)
(* valueToJson and the functions it calls recurse into lists, attributes   *)
(* and environments.  The recursion is a stack of calls here: a step       *)
(* writes the value on top and calls itself for what that value contains.  *)
(* Values live in a heap because R's environments are references: one may  *)
(* contain itself, directly or through the values bound in it.             *)
(*                                                                         *)
(* Left out: formatting, classes, names and the summary text.              *)
(***************************************************************************)
EXTENDS Naturals, Sequences, FiniteSets, FiniteSetsExt, Functions, Relation

CONSTANTS
  Values,      \* the objects of R's heap
  Heaps,       \* the heaps to convert values of
  kMaxLen,     \* children of a list or an environment that are written
  MaxDepth     \* bound: calls that fit on the process's stack, more than there are Values

\* An object: its kind, what it contains (a list's elements, an environment's
\* bindings, an object's attributes other than its class, a data frame's columns),
\* its length, how many dimensions it has, whether they have names.  Kinds are these,
\* "NULL", "list", "environment", "factor", the dates, "data.frame" and "generic" (an
\* S4 object, a formula); functions and unsupported types are written like a factor.
Vectors == {"logical", "integer", "numeric", "string", "complex", "raw"}
Dates == {"Date", "POSIXct", "POSIXlt"}

VARIABLES heap, root, stack, written, faulty, pc
vars == <<heap, root, stack, written, faulty, pc>>

Kids(o) == heap[o].kids
FirstKids(o) == SubSeq(Kids(o), 1, Min({kMaxLen, Len(Kids(o))}))
Calls(kids, include, depth) ==
  [i \in DOMAIN kids |-> [obj |-> kids[i], include |-> include, depth |-> depth]]

-----------------------------------------------------------------------------
\* setDataFrameData counts the rows in the first column and reads as many cells
\* of each column that is a vector of logicals or numbers, as factors and dates
\* are, and the first string of one that holds strings.
FrameFaults(o) ==
  /\ heap[o].kind = "data.frame"
  /\ \/ Kids(o) = <<>>
     \/ \E c \in Range(Kids(o)) :
          LET rows == Min({kMaxLen, heap[Kids(o)[1]].len})
          IN CASE heap[c].kind \in {"logical", "integer", "numeric", "factor", "Date", "POSIXct"}
                 -> rows > heap[c].len
               [] heap[c].kind \in {"string", "complex"} -> rows > 0 /\ heap[c].len = 0
               [] OTHER -> FALSE

\* setDimNames reads two dimensions, and a vector of names for every element.
DimFaults(o) ==
  /\ heap[o].kind \in Vectors /\ heap[o].dims > 0
  /\ heap[o].dims < 2 \/ (heap[o].named /\ heap[o].len > heap[o].dims)

\* setObjectData reads the first number of a POSIXct, which may have none.
DateFaults(o) == heap[o].kind = "POSIXct" /\ heap[o].len = 0

\* Rcpp's Date and Datetime take one number: a POSIXlt is a list of several vectors.
DateThrows(o) == heap[o].kind = "POSIXlt" \/ (heap[o].kind = "Date" /\ heap[o].len # 1)

\* Mutant: a list's children are always written with theirs.
RecursesDeep(call) ==
  LET o == call.obj
  IN CASE heap[o].kind = "list" -> Calls(FirstKids(o), TRUE, call.depth + 1)
       [] heap[o].kind = "environment" -> Calls(FirstKids(o), TRUE, call.depth + 1)
       [] heap[o].kind = "generic" -> Calls(Kids(o), TRUE, call.depth + 1)
       [] OTHER -> <<>>

\* setListData: the children, and not theirs.  setEnvironmentData, and
\* setGenericObjectData for attributes: the children with theirs.
Recurses(call) ==
  LET o == call.obj
  IN CASE heap[o].kind = "list" /\ call.include -> Calls(FirstKids(o), FALSE, call.depth + 1)
       [] heap[o].kind = "environment" -> Calls(FirstKids(o), TRUE, call.depth + 1)
       [] heap[o].kind = "generic" -> Calls(Kids(o), TRUE, call.depth + 1)
       [] OTHER -> <<>>

-----------------------------------------------------------------------------
\* A variable is written on its own (toJson) or in a delta (jsonDelta).
Init ==
  /\ heap \in Heaps /\ root \in [obj : Values, include : BOOLEAN]
  /\ stack = Calls(<<root.obj>>, root.include, 1)
  /\ written = {} /\ faulty = FALSE /\ pc = "writing"

\* valueToJson of the value on top.  A read outside a vector may give anything.
valueToJson ==
  LET call == Head(stack)
  IN /\ pc = "writing" /\ stack # <<>> /\ call.depth <= MaxDepth /\ ~DateThrows(call.obj)
     /\ written' = written \cup {call.obj}
     /\ stack' = Recurses(call) \o Tail(stack)
     /\ faulty' = (faulty \/ FrameFaults(call.obj) \/ DimFaults(call.obj)
                             \/ DateFaults(call.obj))
     /\ pc' \in IF faulty' THEN {"writing", "crashed"} ELSE {"writing"}
     /\ UNCHANGED <<heap, root>>

\* The exception leaves every call: nothing of the variable, nor of the listing or
\* the delta it is in, is sent.
DateException ==
  /\ pc = "writing" /\ stack # <<>> /\ Head(stack).depth <= MaxDepth
  /\ DateThrows(Head(stack).obj)
  /\ pc' = "thrown" /\ UNCHANGED <<heap, root, stack, written, faulty>>

Overflow ==
  /\ pc = "writing" /\ stack # <<>> /\ Head(stack).depth > MaxDepth
  /\ pc' = "crashed" /\ UNCHANGED <<heap, root, stack, written, faulty>>

Done ==
  /\ pc = "writing" /\ stack = <<>>
  /\ pc' = "done" /\ UNCHANGED <<heap, root, stack, written, faulty>>

Next == valueToJson \/ DateException \/ Overflow \/ Done
Spec == Init /\ [][Next]_vars

-----------------------------------------------------------------------------
(* Properties *)

\* The objects opened when root is written: a list inside a list is not.
Written(o) == IF heap[o].kind = "generic" THEN Range(Kids(o))
              ELSE IF heap[o].kind \in {"list", "environment"} THEN Range(FirstKids(o))
              ELSE {}
Opens  == [o, p \in Values |-> /\ p \in Written(o)
                               /\ ~(heap[o].kind = "list" /\ heap[p].kind = "list")]
Opened == IF heap[root.obj].kind = "list" /\ ~root.include THEN {}
          ELSE {o \in Values : ReflexiveTransitiveClosure(Opens, Values)[root.obj, o]}
Expected == {root.obj} \cup UNION {Written(o) : o \in Opened}

\* Writing a value overflows the stack only when something it opens contains itself
\* by way of what is opened: environments and attributes are opened at any depth, but
\* a list inside a list is not, so a cycle that passes through two lists in a row is
\* cut (setListData, setEnvironmentData, setGenericObjectData).
OverflowNeedsCycle ==
  pc = "crashed" /\ ~faulty => \E o \in Opened : TransitiveClosure(Opens, Values)[o, o]

\* Once done, everything the value contains has been written, down to the limit on
\* children and the elements of lists in lists (valueToJson, setListData).
WritesEverything == pc = "done" => written = Expected
=============================================================================

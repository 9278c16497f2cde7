---------------------------- MODULE MCEnvironment ----------------------------
(* The environment watcher for TLC: EnvDelta.tla and EnvValues.tla share no      *)
(* variable, so a behaviour is of the one or of the other.                       *)
EXTENDS EnvDelta, FiniteSetsExt, TLC

CONSTANTS x, y, kMaxLen, MaxDepth
VARIABLES heap, root, stack, written, faulty, writing
values == <<heap, root, stack, written, faulty, writing>>

MCNames == {x, y}
Renaming == Permutations(Names)

(* Every heap of three objects that R can build from these kinds, that is, in   *)
(* which only environments close a cycle.                                       *)
MCValues == 1..3
Obj(kind, kids, len, dims, named) ==
  [kind |-> kind, kids |-> kids, len |-> len, dims |-> dims, named |-> named]

Leaves == {Obj("NULL", <<>>, 0, 0, FALSE), Obj("numeric", <<>>, 4, 2, FALSE),
           Obj("string", <<>>, 2, 0, FALSE), Obj("integer", <<>>, 1, 1, FALSE),
           Obj("numeric", <<>>, 4, 2, TRUE), Obj("factor", <<>>, 2, 0, FALSE),
           Obj("Date", <<>>, 1, 0, FALSE), Obj("Date", <<>>, 2, 0, FALSE),
           Obj("POSIXct", <<>>, 0, 0, FALSE), Obj("POSIXlt", <<>>, 9, 0, FALSE)}
Holding == {<<>>, <<1>>, <<2>>, <<3>>, <<2, 3>>, <<1, 2, 3>>}
Boxes == {Obj(k, s, Len(s), 0, FALSE) :
            k \in {"list", "environment", "generic", "data.frame"}, s \in Holding}

Objects == Leaves \cup Boxes
ByValue(h, o) == IF h[o].kind = "environment" THEN {} ELSE Range(h[o].kids)
MCHeaps == {h \in [MCValues -> Objects] :
              /\ \A o \in MCValues : h[o].kind = "data.frame" =>
                   \A c \in Range(h[o].kids) : h[c] \in Leaves \ {Obj("NULL", <<>>, 0, 0, FALSE)}
              /\ \A o \in MCValues : o \notin ByValue(h, o)
              /\ \A o, p \in MCValues : p \in ByValue(h, o) => o \notin ByValue(h, p)
              /\ ~(2 \in ByValue(h, 1) /\ 3 \in ByValue(h, 2) /\ 1 \in ByValue(h, 3))
              /\ ~(3 \in ByValue(h, 1) /\ 2 \in ByValue(h, 3) /\ 1 \in ByValue(h, 2))}

V == INSTANCE EnvValues WITH Values <- MCValues, Heaps <- MCHeaps, pc <- writing

MCInit ==
  \/ Init /\ heap = <<>> /\ root = <<>> /\ stack = <<>> /\ written = {} /\ faulty = FALSE
          /\ writing = "none"
  \/ Init /\ V!Init
MCNext == \/ writing = "none" /\ Next /\ UNCHANGED values
          \/ writing # "none" /\ V!Next /\ UNCHANGED vars
MCSpec == MCInit /\ [][MCNext]_<<vars, values>>

(* EnvValues.tla: only a cycle of what is opened overflows the stack.           *)
OverflowNeedsCycle == writing # "none" => V!OverflowNeedsCycle
(* EnvValues.tla: all of a value is written.                                    *)
WritesEverything == writing # "none" => V!WritesEverything
=============================================================================

----------------------------- MODULE EnvDeltaProofs -----------------------------
(***************************************************************************)
(* What EnvDelta.tla promises, for any variables and any bounds.           *)
(*                                                                         *)
(* A delta can be exact only if the capture holds one object for a name:   *)
(* the two differences of jsonDelta compare names on one side and pairs on *)
(* the other, and agree on no other condition.                             *)
(***************************************************************************)
EXTENDS EnvDelta, TLAPS

\* A capture is the environment of some moment: one object for each name.
CapturedOnce ==
  /\ \A p \in lastVars : p = <<p[1], p[2]>>
  /\ \A p, q \in lastVars : p[1] = q[1] => p = q

IsAFunction == env = [n \in DOMAIN env |-> env[n]]

\* A delta is scheduled at most once for each command that evaluates.
DeltasCounted ==
  /\ count \in [changes : 0 .. MaxChanges, commands : 0 .. MaxCommands]
  /\ deltas + (IF pc = "idle" THEN 0 ELSE 1) <= count.commands

IInv == TypeOK /\ CapturedOnce /\ IsAFunction /\ DeltasCounted

-----------------------------------------------------------------------------
(* Lemmas about the operators *)

\* The pairs of an environment hold one object for each name.
LEMMA PairsOnce ==
  ASSUME NEW e
  PROVE  /\ \A p \in Pairs(e) : /\ p = <<p[1], p[2]>> /\ p[1] \in DOMAIN e
                                /\ p[2] = e[p[1]]
         /\ \A p, q \in Pairs(e) : p[1] = q[1] => p = q
         /\ \A n \in DOMAIN e : <<n, e[n]>> \in Pairs(e)
  BY DEF Pairs

\* A name is reported as assigned exactly if its pair was not captured.
LEMMA AssignedNames ==
  DOMAIN jsonDelta.assigned = {n \in DOMAIN env : <<n, env[n]>> \notin lastVars}
<1>1. DOMAIN jsonDelta.assigned = {p[1] : p \in Pairs(env) \ lastVars}
  BY DEF jsonDelta, Restrict
<1>2. ASSUME NEW n \in DOMAIN env, <<n, env[n]>> \notin lastVars
      PROVE  n \in {p[1] : p \in Pairs(env) \ lastVars}
  <2>1. <<n, env[n]>> \in Pairs(env) \ lastVars /\ <<n, env[n]>>[1] = n
    BY <1>2 DEF Pairs
  <2> QED BY <2>1
<1>3. ASSUME NEW p \in Pairs(env) \ lastVars
      PROVE  p[1] \in DOMAIN env /\ <<p[1], env[p[1]]>> \notin lastVars
  BY PairsOnce
<1> QED BY <1>1, <1>2, <1>3

\* What a delta names was captured or is bound.
LEMMA ReportedNames ==
  ASSUME TypeOK
  PROVE  /\ jsonDelta.removed \subseteq Names /\ Reported \subseteq Names
         /\ DOMAIN jsonDelta.assigned \subseteq Names
<1>1. jsonDelta.removed = {p[1] : p \in lastVars} \ DOMAIN env
  BY DEF jsonDelta
<1> QED BY <1>1, AssignedNames DEF TypeOK, Reported

\* When one function lies over another and both agree with a third.
LEMMA OverIs ==
  ASSUME NEW e, e = [x \in DOMAIN e |-> e[x]], NEW f, NEW g,
         DOMAIN f \cup DOMAIN g = DOMAIN e,
         \A x \in DOMAIN f : f[x] = e[x],
         \A x \in DOMAIN g \ DOMAIN f : g[x] = e[x]
  PROVE  Over(f, g) = e
  BY DEF Over

-----------------------------------------------------------------------------
(* Exactness *)

LEMMA OnceIsExact == CapturedOnce /\ IsAFunction => DeltaExact
<1> SUFFICES ASSUME CapturedOnce, IsAFunction PROVE DeltaExact
  OBVIOUS
<1> DEFINE changed == {n \in DOMAIN env : n \in DOMAIN jsonDelta.assigned}
           old == {p[1] : p \in lastVars}
           kept == Without(Captured, jsonDelta.removed)
           new == [n \in changed |-> env[n]]
<1>1. changed = {n \in DOMAIN env : <<n, env[n]>> \notin lastVars}
  BY AssignedNames
<1>2. DOMAIN kept = old \cap DOMAIN env
  <2>1. DOMAIN Captured = old /\ jsonDelta.removed = old \ DOMAIN env
    BY DEF Captured, jsonDelta
  <2> QED BY <2>1 DEF Without, Restrict
<1>3. ASSUME NEW n \in DOMAIN env, n \notin changed
      PROVE  n \in DOMAIN kept /\ kept[n] = env[n]
  <2>1. <<n, env[n]>> \in lastVars
    BY <1>1, <1>3
  <2>2. n \in old
    BY <2>1
  <2>3. (CHOOSE p \in lastVars : p[1] = n) = <<n, env[n]>>
    BY <2>1 DEF CapturedOnce
  <2>4. Captured[n] = env[n]
    BY <2>2, <2>3 DEF Captured
  <2>5. kept[n] = Captured[n]
    BY <2>2, <1>2 DEF Without, Restrict
  <2> QED BY <1>2, <2>2, <2>4, <2>5
<1>4. /\ DOMAIN new = changed /\ changed \subseteq DOMAIN env
      /\ \A n \in changed : new[n] = env[n]
  OBVIOUS
<1> HIDE DEF changed, old, kept, new
<1>5. DOMAIN new \cup DOMAIN kept = DOMAIN env
  BY <1>2, <1>3, <1>4
<1>6. \A n \in DOMAIN kept \ DOMAIN new : kept[n] = env[n]
  BY <1>2, <1>3, <1>4
<1>7. Over(new, kept) = env
  BY <1>4, <1>5, <1>6, OverIs DEF IsAFunction
<1> QED BY <1>7 DEF DeltaExact, changed, kept, new

-----------------------------------------------------------------------------
(* The invariant *)

LEMMA InitIInv == Init => IInv
<1> SUFFICES ASSUME Init PROVE IInv
  OBVIOUS
<1>1. content \in Seq(1 .. MaxChanges)
  BY DEF Init
<1>2. TypeOK
  <2>1. DOMAIN env = {} /\ DOMAIN client = {} /\ lastVars = {}
    BY DEF Init
  <2>2. /\ {watch, sendDelta, told} \subseteq BOOLEAN
        /\ pc \in {"idle", "script", "file", "render"}
        /\ fresh \cup base \cup behind \subseteq Names
    BY DEF Init
  <2>3. deltas \in 0 .. MaxCommands
    BY EnvDeltaAssumption DEF Init
  <2> QED BY <1>1, <2>1, <2>2, <2>3 DEF TypeOK
<1>3. CapturedOnce /\ IsAFunction
  BY DEF Init, CapturedOnce, IsAFunction
<1>4. DeltasCounted
  BY EnvDeltaAssumption DEF Init, DeltasCounted
<1> QED BY <1>2, <1>3, <1>4 DEF IInv

\* What a capture does to the list and to the history (captureEnvironment).
LEMMA CaptureKeeps ==
  ASSUME IInv, captureEnvironment
  PROVE  /\ CapturedOnce'
         /\ \A p \in lastVars' : p[1] \in Names /\ p[2] \in DOMAIN content
         /\ fresh' \cup base' \cup behind' \subseteq Names
<1>1. CapturedOnce'
  BY PairsOnce DEF captureEnvironment, CapturedOnce
<1> QED BY <1>1, PairsOnce DEF captureEnvironment, IInv, TypeOK

\* A command is counted, whatever else it does.
LEMMA CommandCounts ==
  ASSUME IInv, Command
  PROVE  /\ count' \in [changes : 0 .. MaxChanges, commands : 0 .. MaxCommands]
         /\ count'.commands = count.commands + 1
         /\ pc = "idle" /\ deltas <= count.commands /\ deltas \in Nat
         /\ count.commands \in Nat
  BY EnvDeltaAssumption DEF IInv, TypeOK, DeltasCounted, Command, Count

\* A change is counted too, and is the only thing that makes objects.
LEMMA ChangeCounts ==
  ASSUME IInv, Change, UNCHANGED <<pc, deltas>>
  PROVE  DeltasCounted' /\ count.changes + 1 \in 1 .. MaxChanges
  BY EnvDeltaAssumption DEF IInv, TypeOK, DeltasCounted, Change, Count

\* An evaluation starts, with a capture or without (ExecScript, ExecFile).
LEMMA StartIInv ==
  ASSUME IInv, ExecScript \/ ExecFile
  PROVE  IInv'
<1>1. /\ Command /\ pc' \in {"script", "file", "render"} /\ sendDelta' \in BOOLEAN
      /\ captureEnvironment \/ UNCHANGED <<lastVars, fresh, base, behind>>
      /\ UNCHANGED <<env, content, watch, deltas, told, client>>
  <2>1. CASE ExecScript
    BY <2>1 DEF ExecScript, IInv, TypeOK
  <2>2. CASE ExecFile
    BY <2>2 DEF ExecFile, IInv, TypeOK
  <2> QED BY <2>1, <2>2
<1>2. /\ CapturedOnce'
      /\ \A p \in lastVars' : p[1] \in Names /\ p[2] \in DOMAIN content
      /\ fresh' \cup base' \cup behind' \subseteq Names
  BY <1>1, CaptureKeeps DEF IInv, TypeOK, CapturedOnce
<1>3. TypeOK'
  BY <1>1, <1>2 DEF IInv, TypeOK
<1>4. DeltasCounted'
  BY <1>1, CommandCounts DEF DeltasCounted
<1>5. IsAFunction'
  BY <1>1 DEF IInv, IsAFunction
<1> QED BY <1>2, <1>3, <1>4, <1>5 DEF IInv

\* What the client holds after a listing or a delta has names of variables.
LEMMA ClientTyped ==
  ASSUME IInv
  PROVE  /\ DOMAIN Contents(env) \subseteq Names
         /\ DOMAIN Applied(client, jsonDelta) \subseteq Names
         /\ Reported \subseteq Names
<1>1. DOMAIN Applied(client, jsonDelta)
        = DOMAIN jsonDelta.assigned \cup (DOMAIN client \ jsonDelta.removed)
  BY DEF Applied, Over, Without, Restrict
<1> QED BY <1>1, ReportedNames DEF IInv, TypeOK, Contents

\* The client is sent a listing or a delta; R's environment is only read.
LEMMA ListingIInv ==
  ASSUME IInv, ToggleWatch \/ ListVariables \/ ListDelta \/ DelayedDelta
  PROVE  IInv'
<1>1. /\ UNCHANGED <<env, content, lastVars, pc, sendDelta>>
      /\ FullListing \/ SendDelta \/ UNCHANGED history
      /\ watch' \in BOOLEAN
  BY DEF ToggleWatch, ListVariables, ListDelta, DelayedDelta, SendDelta, IInv, TypeOK
<1>2. /\ told' \in BOOLEAN /\ DOMAIN client' \subseteq Names
      /\ fresh' \cup base' \cup behind' \subseteq Names
  <2>1. CASE FullListing
    BY <2>1, ClientTyped DEF FullListing
  <2>2. CASE SendDelta
    BY <2>2, ClientTyped DEF SendDelta, IInv, TypeOK
  <2>3. CASE UNCHANGED history
    BY <2>3 DEF history, IInv, TypeOK
  <2> QED BY <1>1, <2>1, <2>2, <2>3
<1>3. DeltasCounted' /\ deltas' \in 0 .. MaxCommands
  <2>1. CASE Command /\ UNCHANGED deltas
    BY <2>1, <1>1, CommandCounts DEF DeltasCounted, IInv, TypeOK
  <2>2. CASE DelayedDelta
    BY <2>2, <1>1, EnvDeltaAssumption DEF DelayedDelta, DeltasCounted, IInv, TypeOK
  <2> QED BY <2>1, <2>2 DEF ToggleWatch, ListVariables, ListDelta
<1>4. TypeOK'
  BY <1>1, <1>2, <1>3 DEF IInv, TypeOK
<1>5. CapturedOnce' /\ IsAFunction'
  BY <1>1 DEF IInv, CapturedOnce, IsAFunction
<1> QED BY <1>3, <1>4, <1>5 DEF IInv

\* A name is bound (R's assignment).
LEMMA AssignIInv ==
  ASSUME IInv, NEW n \in Names, Assign(n)
  PROVE  IInv'
<1>1. /\ Change /\ fresh' = fresh \cup {n}
      /\ UNCHANGED <<lastVars, watch, pc, sendDelta, deltas, told, client, base, behind>>
      /\ content \in Seq(1 .. MaxChanges)
  BY DEF Assign, IInv, TypeOK
<1>2. DeltasCounted' /\ count.changes + 1 \in 1 .. MaxChanges
  BY <1>1, ChangeCounts
<1>3. PICK object : /\ Bind(n, object)
                    /\ object \in DOMAIN content'
                    /\ content' \in Seq(1 .. MaxChanges)
                    /\ DOMAIN content \subseteq DOMAIN content'
  <2>1. CASE content' = Append(content, count.changes + 1) /\ Bind(n, Fresh)
    <3>1. /\ content' \in Seq(1 .. MaxChanges)
          /\ DOMAIN content = 1 .. Len(content)
          /\ DOMAIN content' = 1 .. (Len(content) + 1) /\ Len(content) \in Nat
      BY <1>1, <1>2, <2>1
    <3> QED BY <2>1, <3>1 DEF Fresh
  <2>2. CASE \E m \in DOMAIN env : Bind(n, env[m]) /\ UNCHANGED content
    BY <2>2, <1>1 DEF IInv, TypeOK
  <2> QED BY <2>1, <2>2 DEF Assign
<1>4. /\ DOMAIN env' = DOMAIN env \cup {n}
      /\ \A m \in DOMAIN env' : env'[m] = IF m = n THEN object ELSE env[m]
      /\ IsAFunction'
  BY <1>3 DEF Bind, Over, IsAFunction
<1>5. TypeOK'
  BY <1>1, <1>3, <1>4 DEF IInv, TypeOK
<1>6. CapturedOnce'
  BY <1>1 DEF IInv, CapturedOnce
<1> QED BY <1>2, <1>4, <1>5, <1>6 DEF IInv

\* An object changes, or a name goes (R code).
LEMMA ChangeIInv ==
  ASSUME IInv, NEW n \in Names, ChangeInPlace(n) \/ Remove(n)
  PROVE  IInv'
<1>1. /\ Change
      /\ UNCHANGED <<lastVars, watch, pc, sendDelta, deltas, told, client, base>>
      /\ content \in Seq(1 .. MaxChanges)
  BY DEF ChangeInPlace, Remove, IInv, TypeOK
<1>2. DeltasCounted' /\ count.changes + 1 \in 1 .. MaxChanges
  BY <1>1, ChangeCounts
<1>3. content' \in Seq(1 .. MaxChanges) /\ DOMAIN content' = DOMAIN content
  <2>1. CASE content' = [content EXCEPT ![env[n]] = count.changes + 1] /\ n \in DOMAIN env
    <3>1. env[n] \in DOMAIN content
      BY <2>1 DEF IInv, TypeOK
    <3> QED BY <1>1, <1>2, <2>1, <3>1
  <2>2. CASE UNCHANGED content
    BY <1>1, <2>2
  <2> QED BY <2>1, <2>2 DEF ChangeInPlace, Remove
<1>4. /\ DOMAIN env' \subseteq DOMAIN env /\ IsAFunction'
      /\ \A m \in DOMAIN env' : env'[m] = env[m]
  BY DEF ChangeInPlace, Remove, Without, Restrict, IInv, IsAFunction
<1>5. fresh' \cup behind' \subseteq Names
  BY PairsOnce DEF ChangeInPlace, Remove, IInv, TypeOK
<1>6. TypeOK'
  BY <1>1, <1>3, <1>4, <1>5 DEF IInv, TypeOK
<1>7. CapturedOnce'
  BY <1>1 DEF IInv, CapturedOnce
<1> QED BY <1>2, <1>4, <1>6, <1>7 DEF IInv

\* An evaluation ends and may schedule a delta.
LEMMA EndIInv ==
  ASSUME IInv, EndEvaluation
  PROVE  IInv'
<1>1. /\ pc # "idle" /\ pc' = "idle" /\ deltas' \in {deltas, deltas + 1}
      /\ UNCHANGED <<env, content, lastVars, watch, sendDelta, history, count>>
  BY DEF EndEvaluation
<1>2. DeltasCounted' /\ deltas' \in 0 .. MaxCommands
  BY <1>1, EnvDeltaAssumption DEF IInv, TypeOK, DeltasCounted
<1>3. TypeOK'
  BY <1>1, <1>2 DEF IInv, TypeOK, history
<1>4. CapturedOnce' /\ IsAFunction'
  BY <1>1 DEF IInv, CapturedOnce, IsAFunction
<1> QED BY <1>2, <1>3, <1>4 DEF IInv

\* Every step keeps the invariant.
LEMMA NextIInv == IInv /\ [Next]_vars => IInv'
<1> SUFFICES ASSUME IInv, [Next]_vars PROVE IInv'
  OBVIOUS
<1>1. CASE ExecScript \/ ExecFile
  BY <1>1, StartIInv
<1>2. CASE ToggleWatch \/ ListVariables \/ ListDelta \/ DelayedDelta
  BY <1>2, ListingIInv
<1>3. CASE EndEvaluation
  BY <1>3, EndIInv
<1>4. CASE \E n \in Names : Assign(n) \/ ChangeInPlace(n) \/ Remove(n)
  BY <1>4, AssignIInv, ChangeIInv
<1>5. CASE UNCHANGED vars
  BY <1>5 DEF vars, history, IInv, TypeOK, CapturedOnce, IsAFunction, DeltasCounted
<1> QED BY <1>1, <1>2, <1>3, <1>4, <1>5 DEF Next

-----------------------------------------------------------------------------
(* The client's copy *)

\* The copy has of n what was captured, as far as that object still is what it was.
AsCaptured(n) ==
  /\ \A p \in lastVars : p[1] = n => n \in DOMAIN client /\ client[n] = content[p[2]]
  /\ n \in DOMAIN client => \E p \in lastVars : p[1] = n

\* A variable that no delta has named since the capture is as it was then.
CapturedAgrees == told => \A n \in Names \ (base \cup behind) : AsCaptured(n)

CopyInv == CapturedAgrees /\ ClientAgrees

\* A name that a delta leaves out is bound to what was captured.
UnreportedAsCaptured ==
  \A n \in Names : n \notin Reported => (AsCaptured(n) <=> Agrees(n))

LEMMA UnreportedIsCaptured == IInv => UnreportedAsCaptured
<1> SUFFICES ASSUME IInv, NEW n \in Names, n \notin Reported
             PROVE  AsCaptured(n) <=> Agrees(n)
  BY DEF UnreportedAsCaptured
<1>1. /\ n \in DOMAIN env => <<n, env[n]>> \in lastVars
      /\ (\E p \in lastVars : p[1] = n) => n \in DOMAIN env
  BY AssignedNames DEF Reported, jsonDelta
<1>2. CASE n \in DOMAIN env
  <2>1. \A p \in lastVars : p[1] = n => p = <<n, env[n]>>
    BY <1>1, <1>2 DEF IInv, CapturedOnce
  <2>2. <<n, env[n]>>[1] = n /\ <<n, env[n]>>[2] = env[n]
    OBVIOUS
  <2> QED BY <1>1, <1>2, <2>1, <2>2 DEF AsCaptured, Agrees
<1>3. CASE n \notin DOMAIN env
  BY <1>1, <1>3 DEF AsCaptured, Agrees
<1> QED BY <1>2, <1>3

\* What the client makes of a delta (jsonDelta).
LEMMA DeltaApplied ==
  ASSUME NEW n
  PROVE  LET copy == Applied(client, jsonDelta) IN
         IF n \in Reported
         THEN IF n \in DOMAIN env THEN n \in DOMAIN copy /\ copy[n] = content[env[n]]
              ELSE n \notin DOMAIN copy
         ELSE /\ n \in DOMAIN copy <=> n \in DOMAIN client
              /\ n \in DOMAIN client => copy[n] = client[n]
<1> DEFINE d == jsonDelta
           kept == Without(client, d.removed)
           copy == Applied(client, d)
<1>1. /\ d.removed = {p[1] : p \in lastVars} \ DOMAIN env
      /\ DOMAIN d.assigned \subseteq DOMAIN env
      /\ \A m \in DOMAIN d.assigned : d.assigned[m] = content[env[m]]
  BY AssignedNames DEF jsonDelta, Restrict, Contents
<1>2. /\ DOMAIN kept = DOMAIN client \ d.removed
      /\ \A m \in DOMAIN kept : kept[m] = client[m]
  BY DEF Without, Restrict
<1> HIDE DEF d, kept
<1>3. /\ DOMAIN copy = DOMAIN d.assigned \cup DOMAIN kept
      /\ \A m \in DOMAIN copy :
           copy[m] = IF m \in DOMAIN d.assigned THEN d.assigned[m] ELSE kept[m]
  BY DEF Applied, Over, kept
<1> HIDE DEF copy
<1>4. n \in Reported <=> n \in d.removed \/ n \in DOMAIN d.assigned
  BY DEF Reported, d
<1>5. CASE n \in Reported
  BY <1>1, <1>2, <1>3, <1>4, <1>5 DEF copy, d
<1>6. CASE n \notin Reported
  BY <1>1, <1>2, <1>3, <1>4, <1>6 DEF copy, d
<1> QED BY <1>5, <1>6

\* An evaluation starts: a capture gives up what changed since the last one.
LEMMA StartCopy ==
  ASSUME IInv, CopyInv, ExecScript \/ ExecFile
  PROVE  CopyInv'
<1>1. /\ captureEnvironment \/ UNCHANGED <<lastVars, fresh, base, behind>>
      /\ UNCHANGED <<env, content, told, client>>
  BY DEF ExecScript, ExecFile
<1>2. CASE captureEnvironment
  <2>1. ClientAgrees'
    BY <1>1, <1>2 DEF captureEnvironment, CopyInv, ClientAgrees, Agrees
  <2>2. ASSUME told, NEW n \in Names \ (fresh \cup behind)
        PROVE  AsCaptured(n)'
    <3>1. Agrees(n)
      BY <2>2 DEF CopyInv, ClientAgrees
    <3>2. /\ lastVars' = Pairs(env) /\ client' = client /\ content' = content
          /\ \A p \in Pairs(env) : p[1] \in DOMAIN env /\ p[2] = env[p[1]]
      BY <1>1, <1>2, PairsOnce DEF captureEnvironment
    <3>3. n \in DOMAIN env => \E p \in Pairs(env) : p[1] = n
      <4>1. <<n, env[n]>>[1] = n
        OBVIOUS
      <4> QED BY <4>1, PairsOnce
    <3> QED BY <3>1, <3>2, <3>3 DEF Agrees, AsCaptured
  <2>3. CapturedAgrees'
    BY <1>1, <1>2, <2>2 DEF captureEnvironment, CapturedAgrees
  <2> QED BY <2>1, <2>3 DEF CopyInv
<1>3. CASE UNCHANGED <<lastVars, fresh, base, behind>>
  BY <1>1, <1>3 DEF CopyInv, CapturedAgrees, ClientAgrees, AsCaptured, Agrees
<1> QED BY <1>1, <1>2, <1>3

\* The client is sent everything, or what changed, or nothing.
LEMMA ListingCopy ==
  ASSUME IInv, CopyInv, ToggleWatch \/ ListVariables \/ ListDelta \/ DelayedDelta
  PROVE  CopyInv'
<1>1. /\ UNCHANGED <<env, content, lastVars>>
      /\ FullListing \/ SendDelta \/ UNCHANGED history
  BY DEF ToggleWatch, ListVariables, ListDelta, DelayedDelta, SendDelta
<1>2. Reported' = Reported
  BY <1>1 DEF Reported, jsonDelta, Contents, Pairs
<1>3. /\ IInv' /\ \A n \in Names : n \notin Reported => (AsCaptured(n)' <=> Agrees(n)')
  <2>1. IInv'
    BY ListingIInv
  <2>2. IInv' => UnreportedAsCaptured'
    BY UnreportedIsCaptured, PTL
  <2> QED BY <1>2, <2>1, <2>2 DEF UnreportedAsCaptured
<1>4. CASE FullListing
  <2>1. \A n \in Names : Agrees(n)'
    BY <1>1, <1>4 DEF FullListing, Contents, Agrees
  <2> QED BY <1>3, <1>4, <2>1 DEF FullListing, CopyInv, ClientAgrees, CapturedAgrees
<1>5. CASE SendDelta
  <2>1. ASSUME NEW n \in Names, n \in Reported
        PROVE  Agrees(n)'
    BY <1>1, <1>5, <2>1, DeltaApplied DEF SendDelta, Agrees
  <2>2. ASSUME told, NEW n \in Names, n \notin Reported \cup base \cup behind
        PROVE  Agrees(n)'
    <3>1. Agrees(n)
      BY <2>2, UnreportedIsCaptured DEF UnreportedAsCaptured, CopyInv, CapturedAgrees
    <3> QED BY <1>1, <1>5, <2>2, <3>1, DeltaApplied DEF SendDelta, Agrees
  <2>3. told' = told /\ fresh' = {} /\ base' = Reported /\ behind' = (behind \cup base) \ Reported
    BY <1>5 DEF SendDelta
  <2>4. ClientAgrees'
    BY <2>1, <2>2, <2>3 DEF ClientAgrees
  <2>5. CapturedAgrees'
    BY <1>3, <2>2, <2>3 DEF CapturedAgrees
  <2> QED BY <2>4, <2>5 DEF CopyInv
<1>6. CASE UNCHANGED history
  BY <1>1, <1>6 DEF history, CopyInv, CapturedAgrees, ClientAgrees, AsCaptured, Agrees
<1> QED BY <1>1, <1>4, <1>5, <1>6

\* A name is bound, and no object that is there changes.
LEMMA AssignCopy ==
  ASSUME IInv, CopyInv, NEW n \in Names, Assign(n)
  PROVE  CopyInv'
<1>1. /\ UNCHANGED <<lastVars, told, client, base, behind>> /\ fresh' = fresh \cup {n}
      /\ \A o \in DOMAIN content : content'[o] = content[o]
  BY DEF Assign, IInv, TypeOK
<1>2. \A m \in Names \ {n} : /\ m \in DOMAIN env' <=> m \in DOMAIN env
                             /\ m \in DOMAIN env => env'[m] = env[m]
  BY DEF Assign, Bind, Over
<1>3. CapturedAgrees'
  BY <1>1 DEF IInv, TypeOK, CopyInv, CapturedAgrees, AsCaptured
<1>4. ClientAgrees'
  BY <1>1, <1>2 DEF IInv, TypeOK, CopyInv, ClientAgrees, Agrees
<1> QED BY <1>3, <1>4 DEF CopyInv

\* An object changes: of every name that has it, now or in the capture, the client
\* is not expected to know.
LEMMA InPlaceCopy ==
  ASSUME IInv, CopyInv, NEW n \in Names, ChangeInPlace(n)
  PROVE  CopyInv'
<1> DEFINE hit == {p \in Pairs(env) \cup lastVars : p[2] = env[n]}
<1>1. /\ UNCHANGED <<env, lastVars, told, client, fresh, base>>
      /\ behind' = behind \cup {p[1] : p \in hit}
      /\ \A o \in DOMAIN content : o # env[n] => content'[o] = content[o]
  BY DEF ChangeInPlace, IInv, TypeOK
<1>2. ASSUME NEW m \in Names \ behind'
      PROVE  /\ m \notin behind
             /\ m \in DOMAIN env => content'[env[m]] = content[env[m]]
             /\ \A p \in lastVars : p[1] = m => content'[p[2]] = content[p[2]]
  <2>1. m \in DOMAIN env => env[m] # env[n] /\ env[m] \in DOMAIN content
    <3> SUFFICES ASSUME m \in DOMAIN env PROVE env[m] # env[n]
      BY DEF IInv, TypeOK
    <3>1. <<m, env[m]>>[1] = m /\ <<m, env[m]>>[2] = env[m]
      OBVIOUS
    <3>2. <<m, env[m]>> \in Pairs(env)
      BY PairsOnce
    <3>3. env[m] = env[n] => <<m, env[m]>> \in hit
      BY <3>1, <3>2
    <3> QED BY <1>1, <1>2, <3>1, <3>3
  <2>2. \A p \in lastVars : p[1] = m => p[2] # env[n] /\ p[2] \in DOMAIN content
    BY <1>1, <1>2 DEF IInv, TypeOK
  <2> QED BY <1>1, <1>2, <2>1, <2>2
<1> HIDE DEF hit
<1>3. CapturedAgrees'
  BY <1>1, <1>2 DEF CopyInv, CapturedAgrees, AsCaptured
<1>4. ClientAgrees'
  BY <1>1, <1>2 DEF CopyInv, ClientAgrees, Agrees
<1> QED BY <1>3, <1>4 DEF CopyInv

\* A name goes.
LEMMA RemoveCopy ==
  ASSUME CopyInv, NEW n \in Names, Remove(n)
  PROVE  CopyInv'
<1>1. /\ UNCHANGED <<content, lastVars, told, client, base, behind>>
      /\ fresh' = fresh \cup {n}
      /\ \A m \in Names \ {n} : /\ m \in DOMAIN env' <=> m \in DOMAIN env
                                /\ m \in DOMAIN env => env'[m] = env[m]
  BY DEF Remove, Without, Restrict
<1> QED BY <1>1 DEF CopyInv, CapturedAgrees, ClientAgrees, AsCaptured, Agrees

\* Every step keeps what the copy promises.
LEMMA NextCopy == IInv /\ CopyInv /\ [Next]_vars => CopyInv'
<1> SUFFICES ASSUME IInv, CopyInv, [Next]_vars PROVE CopyInv'
  OBVIOUS
<1>1. CASE ExecScript \/ ExecFile
  BY <1>1, StartCopy
<1>2. CASE ToggleWatch \/ ListVariables \/ ListDelta \/ DelayedDelta
  BY <1>2, ListingCopy
<1>3. CASE EndEvaluation \/ UNCHANGED vars
  BY <1>3 DEF EndEvaluation, vars, history, CopyInv, CapturedAgrees, ClientAgrees,
              AsCaptured, Agrees
<1>4. CASE \E n \in Names : Assign(n) \/ ChangeInPlace(n) \/ Remove(n)
  BY <1>4, AssignCopy, InPlaceCopy, RemoveCopy
<1> QED BY <1>1, <1>2, <1>3, <1>4 DEF Next

-----------------------------------------------------------------------------
\* Whatever the variables and however often R changes them, the watcher's state
\* is well-typed (EnvironmentWatcher and the commands of RSession that use it).
THEOREM TypeCorrect == Spec => []TypeOK
<1>1. Init => IInv
  BY InitIInv
<1>2. IInv /\ [Next]_vars => IInv'
  BY NextIInv
<1>3. IInv => TypeOK
  BY DEF IInv
<1> QED BY <1>1, <1>2, <1>3, PTL DEF Spec

\* A delta names what changed since the capture and nothing else, at every moment
\* and not only when it is asked for (captureEnvironment, jsonDelta).
THEOREM DeltasExact == Spec => []DeltaExact
<1>1. Init => IInv
  BY InitIInv
<1>2. IInv /\ [Next]_vars => IInv'
  BY NextIInv
<1>3. IInv => DeltaExact
  BY OnceIsExact DEF IInv
<1> QED BY <1>1, <1>2, <1>3, PTL DEF Spec

\* A client that applies the listings and the deltas in the order they are sent is
\* right about every variable whose change was not hidden from the deltas: by a
\* capture that came too early, by a change in place, or by being undone
\* (captureEnvironment, jsonDelta, handleListVariablesCommand).
THEOREM ClientRight == Spec => []ClientAgrees
<1>1. Init => IInv /\ CopyInv
  BY InitIInv DEF Init, CopyInv, CapturedAgrees, ClientAgrees
<1>2. IInv /\ [Next]_vars => IInv'
  BY NextIInv
<1>3. IInv /\ CopyInv /\ [Next]_vars => CopyInv'
  BY NextCopy
<1>4. CopyInv => ClientAgrees
  BY DEF CopyInv
<1> QED BY <1>1, <1>2, <1>3, <1>4, PTL DEF Spec
=============================================================================

------------------------------- MODULE EnvDelta -------------------------------
(***************************************************************************)
(* src/src/EnvironmentWatcher.cpp and the commands of src/src/RSession.cpp *)
(* that use it: how a client keeps a copy of R's global environment.       *)
(*                                                                         *)
(* captureEnvironment remembers, before an evaluation, which object each   *)
(* variable is bound to; jsonDelta, run by a timer after it, reports the   *)
(* variables bound to another object and those that are gone.  An object   *)
(* is known by its address: a value that R changes in place keeps it.      *)
(*                                                                         *)
(* The client's copy is a history of what the session sent: a full listing *)
(* replaces it, a delta changes the variables it names.                    *)
(*                                                                         *)
(* Left out: how a value is written as JSON (EnvValues.tla); names that    *)
(* start with a dot, which ls(false) does not list.                        *)
(***************************************************************************)
EXTENDS Naturals, Sequences, Functions

CONSTANTS
  Names,        \* variables of the global environment
  MaxChanges,   \* bound: assignments and changes in place
  MaxCommands   \* bound: commands that evaluate code or list variables

ASSUME EnvDeltaAssumption == MaxChanges \in Nat /\ MaxCommands \in Nat

VARIABLES
  env,       \* the object each variable is bound to
  content,   \* the value of each object
  lastVars,  \* _lastVars: pairs of a name and an object
  watch,     \* watchVariables
  pc,        \* "idle", or what is being evaluated: "script", "file", "render"
  sendDelta, \* handleExecuteScript's local; executeFile's watchVariables
  deltas,    \* delayed listVariables commands that are scheduled
  told,      \* history: the client has had a full listing
  client,    \* history: the client's copy
  fresh,     \* history: names bound or removed since the last capture or report
  base,      \* history: names reported since the capture, as other than captured
  behind,    \* history: names whose change no delta will report
  count      \* what the bounds bound

history == <<told, client, fresh, base, behind>>
vars == <<env, content, lastVars, watch, pc, sendDelta, deltas, history, count>>

Pairs(e)  == {<<n, e[n]>> : n \in DOMAIN e}
Contents(e) == [n \in DOMAIN e |-> content[e[n]]]
\* An object is never reused while _lastVars holds it.  Mutant: not yet made.
FreshDangling == Len(content) + 2
Fresh == Len(content) + 1
Count(c)  == count' = [count EXCEPT ![c] = @ + 1]
Without(f, S) == Restrict(f, DOMAIN f \ S)

\* f, and g where f says nothing.
Over(f, g) ==
  [x \in DOMAIN f \cup DOMAIN g |-> IF x \in DOMAIN f THEN f[x] ELSE g[x]]
Bind(n, object) == env' = Over([m \in {n} |-> object], env)

\* A reader that keeps the names of _lastVars and not the objects (mutant).
jsonDeltaByName ==
  [removed  |-> {p[1] : p \in lastVars} \ DOMAIN env,
   assigned |-> Restrict(Contents(env), DOMAIN env \ {p[1] : p \in lastVars})]

\* Both differences are of lists sorted by name, the first by name alone.
jsonDelta ==
  [removed  |-> {p[1] : p \in lastVars} \ DOMAIN env,
   assigned |-> Restrict(Contents(env), {p[1] : p \in Pairs(env) \ lastVars})]

Reported == jsonDelta.removed \cup DOMAIN jsonDelta.assigned

\* The client applies what it is sent.
Applied(copy, delta) == Over(delta.assigned, Without(copy, delta.removed))

-----------------------------------------------------------------------------
Init ==
  /\ env = [n \in {} |-> 0] /\ content = <<>> /\ lastVars = {}
  /\ watch = FALSE /\ pc = "idle" /\ sendDelta = FALSE /\ deltas = 0
  /\ told = FALSE /\ client = [n \in {} |-> 0] /\ fresh = {} /\ base = {} /\ behind = {}
  /\ count = [changes |-> 0, commands |-> 0]

Command == pc = "idle" /\ count.commands < MaxCommands /\ Count("commands")

\* Mutant: the earlier list is not cleared.
captureEnvironmentAgain ==
  /\ lastVars' = lastVars \cup Pairs(env)
  /\ fresh' = {} /\ base' = {} /\ behind' = behind \cup fresh

\* What has changed since the last capture is out of every later delta's reach.
captureEnvironment ==
  /\ lastVars' = Pairs(env)
  /\ fresh' = {} /\ base' = {} /\ behind' = behind \cup fresh

\* toJson: the client gets everything.
FullListing ==
  /\ client' = Contents(env) /\ told' = TRUE /\ behind' = {}
  /\ fresh' = {} /\ base' = Reported

\* handleCommand on ToggleWatch, and on ListVariables without delta.
ToggleWatch ==
  /\ Command
  /\ \E w \in BOOLEAN : /\ watch' = w
                        /\ IF w THEN FullListing ELSE UNCHANGED history
  /\ UNCHANGED <<env, content, lastVars, pc, sendDelta, deltas>>

ListVariables ==
  /\ Command /\ FullListing
  /\ UNCHANGED <<env, content, lastVars, watch, pc, sendDelta, deltas>>

\* handleExecuteScript: a command may ask for its own delta.
ExecScript ==
  /\ Command /\ pc' = "script"
  /\ \E asked \in BOOLEAN :
       /\ sendDelta' = (watch \/ asked)
       /\ IF sendDelta' THEN captureEnvironment
          ELSE UNCHANGED <<lastVars, fresh, base, behind>>
  /\ UNCHANGED <<env, content, watch, deltas, told, client>>

\* executeFile of an .R file, or of one that is rendered (.Rmd, .Rnw).
ExecFile ==
  /\ Command /\ pc' \in {"file", "render"}
  /\ sendDelta' = watch
  /\ IF watch THEN captureEnvironment ELSE UNCHANGED <<lastVars, fresh, base, behind>>
  /\ UNCHANGED <<env, content, watch, deltas, told, client>>

-----------------------------------------------------------------------------
(* R code: external, through what the watcher sees of it *)

Change == pc # "idle" /\ count.changes < MaxChanges /\ Count("changes")

\* A name is bound to a new object, or to the object another name has.
Assign(n) ==
  /\ Change
  /\ \/ content' = Append(content, count.changes + 1) /\ Bind(n, Fresh)
     \/ \E m \in DOMAIN env : Bind(n, env[m]) /\ UNCHANGED content
  /\ fresh' = fresh \cup {n}
  /\ UNCHANGED <<lastVars, watch, pc, sendDelta, deltas, told, client, base,
                 behind>>

\* An environment, or a vector nobody else is known to use, changes in place: for
\* the names bound to it, and for those captured with it, which may be bound to it
\* again.
ChangeInPlace(n) ==
  /\ Change /\ n \in DOMAIN env
  /\ content' = [content EXCEPT ![env[n]] = count.changes + 1]
  /\ behind' = behind \cup {p[1] : p \in {q \in Pairs(env) \cup lastVars : q[2] = env[n]}}
  /\ UNCHANGED <<env, lastVars, watch, pc, sendDelta, deltas, told, client, fresh,
                 base>>

Remove(n) ==
  /\ Change /\ n \in DOMAIN env
  /\ env' = Without(env, {n}) /\ fresh' = fresh \cup {n}
  /\ UNCHANGED <<content, lastVars, watch, pc, sendDelta, deltas, told, client, base,
                 behind>>

-----------------------------------------------------------------------------
\* A script's delta is scheduled only on success, a file's always, and none
\* after a file is rendered.
EndEvaluation ==
  /\ pc # "idle" /\ pc' = "idle"
  /\ \E ok \in BOOLEAN :
       deltas' = IF sendDelta /\ (pc = "file" \/ (pc = "script" /\ ok))
                 THEN deltas + 1 ELSE deltas
  /\ UNCHANGED <<env, content, lastVars, watch, sendDelta, history, count>>

\* The delayed command; a client may also send it itself.
SendDelta ==
  /\ client' = Applied(client, jsonDelta)
  /\ behind' = (behind \cup base) \ Reported
  /\ fresh' = {} /\ base' = Reported
  /\ UNCHANGED <<env, content, lastVars, watch, pc, sendDelta, told>>

DelayedDelta ==
  /\ pc = "idle" /\ deltas > 0 /\ deltas' = deltas - 1
  /\ SendDelta /\ UNCHANGED count

ListDelta == Command /\ SendDelta /\ UNCHANGED deltas

Next ==
  \/ ToggleWatch \/ ListVariables \/ ExecScript \/ ExecFile \/ EndEvaluation
  \/ DelayedDelta \/ ListDelta
  \/ \E n \in Names : Assign(n) \/ ChangeInPlace(n) \/ Remove(n)

Spec == Init /\ [][Next]_vars

-----------------------------------------------------------------------------
(* Properties *)

\* What the variables hold; every object has a value.
TypeOK ==
  /\ DOMAIN env \subseteq Names /\ \A n \in DOMAIN env : env[n] \in DOMAIN content
  /\ content \in Seq(1..MaxChanges)
  /\ \A p \in lastVars : p[1] \in Names /\ p[2] \in DOMAIN content
  /\ {watch, sendDelta, told} \subseteq BOOLEAN
  /\ pc \in {"idle", "script", "file", "render"} /\ deltas \in 0..MaxCommands
  /\ DOMAIN client \subseteq Names /\ fresh \cup base \cup behind \subseteq Names

Agrees(n) == IF n \in DOMAIN env THEN n \in DOMAIN client /\ client[n] = content[env[n]]
             ELSE n \notin DOMAIN client

\* A client that has had a full listing is right about every variable that no
\* report is due for, except those whose object, or captured object, changed in
\* place, changed before a capture that came too early, or set back to what was
\* captured (captureEnvironment, jsonDelta, handleListVariablesCommand).
ClientAgrees == told => \A n \in Names \ (fresh \cup behind) : Agrees(n)

\* A delta reports exactly what changed between the capture and now: applied to
\* what was captured it gives the names of the environment, each bound to its
\* object (captureEnvironment, jsonDelta).
Captured == [n \in {p[1] : p \in lastVars} |-> (CHOOSE p \in lastVars : p[1] = n)[2]]
DeltaExact ==
  LET changed == {n \in DOMAIN env : n \in DOMAIN jsonDelta.assigned}
  IN Over([n \in changed |-> env[n]], Without(Captured, jsonDelta.removed)) = env
=============================================================================

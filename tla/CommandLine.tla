------------------------------ MODULE CommandLine ------------------------------
(***************************************************************************)
(* src/tclap: the command line of rserver (RServer::parseArgs) and of a    *)
(* session (RSession::parseArguments).                                     *)
(*                                                                         *)
(* A program adds its arguments to a CmdLine.  parse offers each word of   *)
(* the line to the arguments in the order of its list until one takes it;  *)
(* a switch that finds its letter among others in a word takes the letter  *)
(* only, and the word goes on to the next argument.  What required         *)
(* arguments were given is counted, and the count compared at the end.     *)
(*                                                                         *)
(* A word is a record: "--name", "-letters" or text, with a value when the *)
(* delimiter and a value follow in the same word.  Left out: usage and     *)
(* error messages, visitors other than those of the default arguments,     *)
(* delimiters other than the space, values that start with a dash and are  *)
(* read as numbers.                                                        *)
(***************************************************************************)
EXTENDS Naturals, Sequences, FiniteSets, SequencesExt

CONSTANTS
  Programs,    \* arguments to add, in order, and the words its lines are made of
  Numbers,     \* the texts that read as a number
  IllFormed,   \* flags and names that no argument may have
  MaxWords,    \* bound: words on a line
  MaxParses    \* bound: lines parsed by one process

\* An argument: its kind, flag and name ("" is no flag), description, whether it is
\* required, the number of its xor list (0: none), how a value reads, the values a
\* constraint allows ({}: any), the value it starts with, its visitor.
Argument(kind, flag, name, required, group) ==
  [kind |-> kind, flag |-> flag, name |-> name, desc |-> name, required |-> required,
   group |-> group, type |-> IF kind \in {"switch", "multiSwitch"} THEN "none" ELSE "text",
   allowed |-> {}, default |-> "none", visitor |-> "none"]
Number(b) == [b EXCEPT !.type = "number", !.default = "0"]

Labelled == {"switch", "multiSwitch", "value", "multi"}
Multiple == {"multi", "unlabeledMulti"}
Single   == {"value", "unlabeled"}

ArgumentType ==
  [kind: Labelled \cup Multiple \cup Single, flag: STRING, name: STRING, desc: STRING,
   required: BOOLEAN, group: Nat, type: {"none", "text", "number"}, allowed: SUBSET STRING,
   default: STRING, visitor: STRING]
WordType == [kind: {"letters"}, of: Seq(STRING), value: STRING]
              \cup [kind: {"name", "text"}, of: STRING, value: STRING]

Blank == "blank"

\* No constructor of a switch takes "required", and neither a flag nor a word has the
\* character that stands for a blanked letter (Arg::blankChar, a bell).
ASSUME CommandLineAssumption ==
  /\ \A p \in Programs :
       /\ p.adds \in Seq(ArgumentType) /\ p.words \subseteq WordType
       /\ \A b \in ToSet(p.adds) :
            b.flag # Blank /\ (b.kind \in {"switch", "multiSwitch"} => ~b.required)
       /\ \A w \in p.words : w.kind = "letters" => Blank \notin ToSet(w.of)
  /\ Numbers \subseteq STRING /\ MaxWords \in Nat

\* The arguments of the two programs.
parseArgs == <<Number(Argument("value", "p", "port", FALSE, 0)),
               Argument("switch", "v", "verbose", FALSE, 0)>>
parseArguments == <<Number(Argument("value", "s", "socket", TRUE, 0)),
                    Argument("switch", "v", "verbose", FALSE, 0)>>

VARIABLES
  program,        \* the program run
  argList,        \* _argList
  numRequired,    \* _numRequired
  alreadyOptional,\* OptionalUnlabeledTracker's static
  st,             \* what parsing changes in each argument, by name
  args,           \* the words of the line, blanked where switches took letters
  i, pos,         \* the word, and the argument it is offered to next
  requiredCount,  \* of parse
  ignoreRest,     \* Arg's static
  pc,
  parses,         \* what MaxParses bounds
  taken,          \* history: words or letters of the line, and who took them
  dropped         \* history: words that no argument took

definition == <<program, argList, numRequired, alreadyOptional>>
vars == <<definition, st, args, i, pos, requiredCount, ignoreRest, pc, parses, taken,
          dropped>>

-----------------------------------------------------------------------------
(* Adding arguments *)

DefaultSwitch(flag, name, visitor) ==
  [Argument("switch", flag, name, FALSE, 0) EXCEPT !.visitor = visitor]

\* CmdLine::_constructor: each is added at the front.
Defaults == <<DefaultSwitch("-", "ignore_rest", "ignore"), DefaultSwitch("", "version", "version"),
              DefaultSwitch("h", "help", "help")>>

\* operator==.  An unlabeled argument compares its description with what
\* getDescription returns of the other, which starts with "(required)" if it is.
SameUnlabeled(b, c) == b.name = c.name \/ (b.desc = c.desc /\ ~c.required)
Same(b, c) == IF b.kind \in Labelled
              THEN b.name = c.name \/ (b.flag # "" /\ b.flag = c.flag)
              ELSE SameUnlabeled(b, c)

StartVals(b)  == IF b.kind \in Single THEN <<b.default>> ELSE <<>>
StartState(b) == [set |-> FALSE, xorSet |-> FALSE, more |-> FALSE, vals |-> StartVals(b)]

Init ==
  /\ program \in Programs /\ argList = Defaults /\ numRequired = 0
  /\ alreadyOptional = FALSE
  /\ st = [n \in {"ignore_rest", "version", "help"} |-> StartState(Defaults[1])]
  /\ args = <<>> /\ i = 1 /\ pos = 1 /\ requiredCount = 0 /\ ignoreRest = FALSE
  /\ pc = "adding" /\ parses = 0 /\ taken = {} /\ dropped = {}

Toward(next) ==
  /\ pc' = next
  /\ UNCHANGED <<definition, st, args, i, pos, requiredCount, ignoreRest, parses, taken,
                 dropped>>

Adding == pc = "adding" /\ Len(argList) - Len(Defaults) < Len(program.adds)
Added  == program.adds[Len(argList) - Len(Defaults) + 1]

\* OptionalUnlabeledTracker::check, which an UnlabeledMultiArg never marks.
TrackerRefuses == Added.kind \notin Labelled /\ alreadyOptional
MarksOptional  == Added.kind = "unlabeled" /\ ~Added.required

\* The constructors and CmdLine::add throw a SpecificationException, which
\* parseArgs and parseArguments catch.
RefuseArg ==
  /\ Adding
  /\ \/ Added.flag \in IllFormed \/ Added.name \in IllFormed
     \/ TrackerRefuses
     \/ \E b \in ToSet(argList) : Same(Added, b)
  /\ Toward("specError")

\* An argument's constructor, and add or xorAdd.  Labelled arguments go before the
\* earlier ones, unlabeled ones after them.
add ==
  LET new == [Added EXCEPT !.required = @ \/ Added.group # 0]
  IN /\ Adding /\ {new.flag, new.name} \cap IllFormed = {} /\ ~TrackerRefuses
     /\ \A b \in ToSet(argList) : ~Same(new, b)
     /\ argList' = IF new.kind \in Labelled THEN <<new>> \o argList ELSE Append(argList, new)
     /\ numRequired' = numRequired + (IF new.required THEN 1 ELSE 0)
     /\ alreadyOptional' = (alreadyOptional \/ MarksOptional)
     /\ st' = [n \in DOMAIN st \cup {new.name} |->
                 IF n = new.name THEN StartState(new) ELSE st[n]]
     /\ UNCHANGED <<program, args, i, pos, requiredCount, ignoreRest, pc, parses, taken,
                    dropped>>

\* Mutant: the name of the program is still the first of the arguments.
ParseFromName ==
  /\ pc = "adding" /\ ~Adding /\ pc' = "parsing"
  /\ parses < MaxParses /\ parses' = parses + 1
  /\ args' \in BoundedSeq(program.words, MaxWords)
  /\ i' = 0 /\ pos' = 1 /\ requiredCount' = 0 /\ taken' = {} /\ dropped' = {}
  /\ UNCHANGED <<definition, st, ignoreRest>>

Parse ==
  /\ pc = "adding" /\ ~Adding /\ pc' = "parsing"
  /\ parses < MaxParses /\ parses' = parses + 1
  /\ args' \in BoundedSeq(program.words, MaxWords)
  /\ i' = 1 /\ pos' = 1 /\ requiredCount' = 0 /\ taken' = {} /\ dropped' = {}
  /\ UNCHANGED <<definition, st, ignoreRest>>

-----------------------------------------------------------------------------
(* A word and an argument *)

a == argList[pos]
t == args[i]

Offered == pc = "parsing" /\ i <= Len(args) /\ pos <= Len(argList)
Ignored == a.kind \in Labelled /\ ignoreRest

\* argMatches of what trimFlag leaves, the word without its value, and of the whole
\* word.  "--" is the flag "-".
trimmedMatches ==
  \/ t.kind = "letters" /\ t.of = <<a.flag>>
  \/ t.kind = "name" /\ (t.of = a.name \/ (t.of = "" /\ a.flag = "-"))
argMatches == trimmedMatches /\ t.value = ""

\* combinedSwitchesMatch, and the word with all of the argument's letters blanked.
\* A dash among the letters is not the flag of ignore_rest.
combinedSwitchesMatch ==
  t.kind = "letters" /\ t.value = "" /\ a.flag # "-" /\ a.flag \in ToSet(t.of)
Blanked == [t EXCEPT !.of = [k \in DOMAIN @ |-> IF @[k] = a.flag THEN Blank ELSE @[k]]]
Letters == {k \in DOMAIN t.of : t.of[k] = a.flag}
lastCombined(w) == \A k \in DOMAIN w.of : w.of[k] = Blank

HasBlanksNever == FALSE   \* mutant
HasBlanks == t.kind = "letters" /\ Blank \in ToSet(t.of)
_emptyCombined ==
  \/ t.kind = "letters" /\ t.value = "" /\ lastCombined(t)
  \/ t.kind = "text" /\ t.of = ""

Group(b) == {c \in ToSet(argList) : c.group # 0 /\ c.group = b.group}
IsSet(s, b) == s[b.name].set /\ ~s[b.name].xorSet

\* Mutant: a MultiArg stays required.
isRequiredAlways(s) == a.required
\* A required MultiArg is required until it has a second value.
isRequired(s) == a.required /\ ~(a.kind \in Multiple /\ Len(s[a.name].vals) > 1)

\* XorHandler::check of the argument that took the word; allowMore is FALSE for a
\* MultiArg only the first time.
AllowsMore(b) == b.kind \in Multiple
Clash(s) == \E b \in Group(a) \ {a} : IsSet(s, b)
XorMarked(s) ==
  [n \in DOMAIN s |->
     IF \E b \in Group(a) \ {a} : b.name = n
     THEN [s[n] EXCEPT !.set = TRUE, !.xorSet = TRUE]
     ELSE IF n = a.name /\ a.group # 0 THEN [s[n] EXCEPT !.more = AllowsMore(a)]
     ELSE s[n]]
XorCount(s) ==
  IF a.group # 0 THEN (IF s[a.name].more THEN 0 ELSE Cardinality(Group(a)))
  ELSE IF isRequired(s) THEN 1 ELSE 0

Set(v) == [st EXCEPT ![a.name].set = TRUE, ![a.name].vals = v]
On     == Append(st[a.name].vals, "on")
Units(at, units) == {<<at, u, a.name>> : u \in units}

\* The visitors of the default switches: two throw an ExitException, with status 0.
HelpVisitor       == a.visitor = "help"    /\ Toward("exit0")
VersionVisitor    == a.visitor = "version" /\ Toward("exit0")
IgnoreRestVisitor == ignoreRest' = (ignoreRest \/ a.visitor = "ignore")

\* An ArgException: StdOutput's failure throws an ExitException with status 1.
failure == "exit1"
Fail == Toward(failure)

\* processArg has returned true, with the arguments in s, word j the last read, and
\* the units taken.  A word whose letters are all blanked now is not read again.
Took(s, j, units) ==
  IF Clash(s) THEN Fail
  ELSE /\ st' = XorMarked(s) /\ requiredCount' = requiredCount + XorCount(s)
       /\ i' = j + 1 /\ pos' = 1 /\ taken' = taken \cup units
       /\ IgnoreRestVisitor
       /\ UNCHANGED <<definition, args, pc, parses, dropped>>

\* It has returned false: the word goes to the next argument.
Passed ==
  pos' = pos + 1 /\ UNCHANGED <<definition, i, requiredCount, ignoreRest, pc, parses, dropped>>

-----------------------------------------------------------------------------
(* processArg *)

\* The default switches' visitors exit, or have the rest ignored.
SwitchArg ==
  /\ Offered /\ a.kind = "switch" /\ ~Ignored
  /\ argMatches \/ combinedSwitchesMatch
  /\ IF \/ ~argMatches /\ Cardinality(Letters) > 1
        \/ st[a.name].xorSet \/ st[a.name].set
     THEN Fail
     ELSE IF a.visitor \in {"help", "version"} THEN HelpVisitor \/ VersionVisitor
     ELSE IF argMatches THEN Took(Set(On), i, Units(i, {0}))
     ELSE IF lastCombined(Blanked) THEN Took(Set(On), i, Units(i, Letters))
     ELSE /\ args' = [args EXCEPT ![i] = Blanked] /\ st' = Set(On)
          /\ taken' = taken \cup Units(i, Letters) /\ Passed

\* No argument of its xor list stops it, and one among letters
\* passes the word on, even when no letter is left.
MultiSwitchArg ==
  /\ Offered /\ a.kind = "multiSwitch" /\ ~Ignored
  /\ \/ argMatches /\ Took(Set(On), i, Units(i, {0}))
     \/ /\ ~argMatches /\ combinedSwitchesMatch
        /\ args' = [args EXCEPT ![i] = Blanked]
        /\ st' = Set(st[a.name].vals \o [k \in 1..Cardinality(Letters) |-> "on"])
        /\ taken' = taken \cup Units(i, Letters) /\ Passed

\* A word as the text of a value; ExtractValue leaves a number as it was when there
\* is nothing to read, and a MultiArg's is then not initialised.
Text(w) == IF w.kind = "text" THEN w.of ELSE "dashed"
ExtractValue(v) == IF a.type = "number" /\ v = ""
                   THEN (IF a.kind \in Single THEN ToSet(st[a.name].vals) ELSE Numbers)
                   ELSE {v}
Readable(v) == /\ a.type = "number" => v \in Numbers \cup {a.default}
               /\ a.allowed # {} => v \in a.allowed
NewVals(v) == IF a.kind \in Single THEN <<v>> ELSE Append(st[a.name].vals, v)

\* _extractValue of word j, then the rest of processArg.
Extract(v, j) ==
  \E w \in ExtractValue(v) :
    IF Readable(w) THEN Took(Set(NewVals(w)), j, Units(i, {0}) \cup Units(j, {0})) ELSE Fail

\* The value is in the word, or is the next word.
ReadsValue ==
  IF t.value # "" THEN Extract(t.value, i)
  ELSE IF i < Len(args) THEN Extract(Text(args[i + 1]), i + 1)
  ELSE Fail

ValueArg ==
  /\ Offered /\ a.kind = "value" /\ ~Ignored /\ ~HasBlanks /\ trimmedMatches
  /\ IF st[a.name].set THEN Fail ELSE ReadsValue

MultiArg ==
  /\ Offered /\ a.kind = "multi" /\ ~Ignored /\ ~HasBlanks /\ trimmedMatches
  /\ ReadsValue

\* These two are never ignored, whatever their ignoreable says.
UnlabeledValueArg ==
  /\ Offered /\ a.kind = "unlabeled" /\ ~HasBlanks /\ ~st[a.name].set
  /\ Extract(Text(t), i)

UnlabeledMultiArg ==
  /\ Offered /\ a.kind = "unlabeledMulti" /\ ~HasBlanks
  /\ Extract(Text(t), i)

PassedOver ==
  /\ Offered
  /\ \/ Ignored
     \/ /\ a.kind \in {"switch", "multiSwitch"}
        /\ ~argMatches /\ ~combinedSwitchesMatch
     \/ a.kind \in {"value", "multi"} /\ (HasBlanks \/ ~trimmedMatches)
     \/ a.kind \notin Labelled /\ (HasBlanks \/ (a.kind = "unlabeled" /\ st[a.name].set))
  /\ Passed /\ UNCHANGED <<st, args, taken>>

-----------------------------------------------------------------------------
\* No argument took the word.
Unmatched ==
  /\ pc = "parsing" /\ i <= Len(args) /\ pos > Len(argList)
  /\ IF _emptyCombined \/ ignoreRest
     THEN /\ i' = i + 1 /\ pos' = 1 /\ dropped' = dropped \cup {i}
          /\ UNCHANGED <<definition, st, args, requiredCount, ignoreRest, pc, parses, taken>>
     ELSE Fail

missingArgsException == requiredCount < numRequired /\ Fail

\* missingArgsException, "Too many arguments!", or parse returns.
EndOfLine ==
  /\ pc = "parsing" /\ i > Len(args)
  /\ \/ missingArgsException
     \/ requiredCount > numRequired /\ Fail
     \/ requiredCount = numRequired /\ Toward("accepted")

\* A MultiSwitchArg stays set, allowMore stays true, and so does ignoreRest.
AfterReset(b) == IF b.kind = "multiSwitch" THEN [st[b.name] EXCEPT !.vals = <<>>]
                 ELSE [StartState(b) EXCEPT !.more = st[b.name].more]
reset ==
  /\ pc = "accepted" /\ parses < MaxParses /\ pc' = "adding"
  /\ st' = [n \in DOMAIN st |-> AfterReset(CHOOSE b \in ToSet(argList) : b.name = n)]
  /\ args' = <<>> /\ i' = 1 /\ pos' = 1 /\ requiredCount' = 0 /\ taken' = {} /\ dropped' = {}
  /\ UNCHANGED <<definition, ignoreRest, parses>>

processArg == \/ SwitchArg \/ MultiSwitchArg \/ ValueArg \/ MultiArg
              \/ UnlabeledValueArg \/ UnlabeledMultiArg \/ PassedOver
Next == RefuseArg \/ add \/ Parse \/ processArg \/ Unmatched \/ EndOfLine \/ reset
Spec == Init /\ [][Next]_vars

-----------------------------------------------------------------------------
(* Properties *)

\* What the variables hold; parsing starts after the name of the program and stays
\* within the line (CmdLine::parse, Arg).
TypeOK ==
  /\ pc \in {"adding", "specError", "parsing", "accepted", "exit0", "exit1"}
  /\ i \in 1..Len(args) + 1 /\ pos \in 1..Len(argList) + 1
  /\ {b.name : b \in ToSet(argList)} = DOMAIN st
  /\ \A n \in DOMAIN st : st[n].xorSet => st[n].set
  /\ {alreadyOptional, ignoreRest} \subseteq BOOLEAN
  /\ numRequired \in 0..Len(argList) /\ requiredCount \in Nat

Given(b) == \E u \in taken : u[3] = b.name

\* A line that is accepted gives every required argument, and exactly one argument
\* of each xor list: counting what was matched (CmdLine::parse, XorHandler::check,
\* MultiArg::isRequired, allowMore) does not let one make up for another.  This is
\* of programs without a MultiSwitchArg in an xor list, which breaks the count.
AcceptedIsComplete ==
  (pc = "accepted" /\ \A b \in ToSet(argList) : b.group # 0 => b.kind # "multiSwitch")
  => \A b \in ToSet(argList) :
       /\ b.required /\ b.group = 0 => Given(b)
       /\ b.group # 0 => Cardinality({c \in Group(b) : Given(c)}) = 1

\* In a line that is accepted, each word is taken once: by one argument, or each of
\* its letters by one switch; or it was dropped, and none of it taken, because the
\* rest is ignored or because it is empty (processArg of each class, blanked letters,
\* CmdLine::_emptyCombined).
TakenOnce ==
  pc = "accepted" => \A k \in DOMAIN args :
    LET of == {u \in taken : u[1] = k} IN
    \/ Cardinality(of) = 1 /\ \A u \in of : u[2] = 0
    \/ /\ args[k].kind = "letters" /\ {u[2] : u \in of} = DOMAIN args[k].of
       /\ Cardinality(of) = Len(args[k].of)
    \/ of = {} /\ k \in dropped
=============================================================================

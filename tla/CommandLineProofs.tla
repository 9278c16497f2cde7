-------------------------- MODULE CommandLineProofs --------------------------
(***************************************************************************)
(* A line that parse accepts is read whole and complete, for any programs, *)
(* any words and lines of any length.                                      *)
(*                                                                         *)
(* What the seven kinds of processArg do comes to four things (Leaves,     *)
(* Passes, TakesLetters, Takes), which ProcessCases shows; the rest argues *)
(* about these.  WordInv follows a word: the letters taken of the one that *)
(* is offered are exactly its blanks, those before it are settled, those   *)
(* after it untouched.  CountInv follows requiredCount: what it counts are *)
(* different required arguments, all of an xor list at once when its first *)
(* is given, so that a count as high as numRequired means all of them.     *)
(***************************************************************************)
EXTENDS CommandLine, Integers, FiniteSetTheorems, SequenceTheorems, TLAPS

-----------------------------------------------------------------------------
(* The invariants *)

\* The provers do not take a literal for a STRING: Texts names those that are used.
Texts == STRING \cup {"", "-", "h", "ignore_rest", "version", "help", "ignore", "none", "on",
                      "dashed", Blank}
Arguments ==
  [kind: Labelled \cup Multiple \cup Single, flag: Texts, name: Texts, desc: Texts,
   required: BOOLEAN, group: Nat, type: {"none", "text", "number"}, allowed: SUBSET Texts,
   default: Texts, visitor: Texts]
Words == [kind: {"letters"}, of: Seq(Texts), value: Texts]
           \cup [kind: {"name", "text"}, of: Texts, value: Texts]

ArgsOf == ToSet(argList)
StateType == [set: BOOLEAN, xorSet: BOOLEAN, more: BOOLEAN, vals: Seq(Texts)]

Typed ==
  /\ program \in Programs /\ argList \in Seq(Arguments) /\ args \in Seq(Words)
  /\ i \in 1 .. Len(args) + 1 /\ pos \in 1 .. Len(argList) + 1 /\ Len(argList) >= 3
  /\ DOMAIN st = {b.name : b \in ArgsOf}
  /\ \A n \in DOMAIN st : st[n] \in StateType /\ (st[n].xorSet => st[n].set)
  /\ pc \in {"adding", "specError", "parsing", "accepted", "exit0", "exit1"}
  /\ alreadyOptional \in BOOLEAN /\ ignoreRest \in BOOLEAN
  /\ numRequired \in 0 .. Len(argList) /\ requiredCount \in Nat

\* No two arguments have one name, and numRequired is the number of those required:
\* all of an xor list, and no other switch.
Required == {b \in ArgsOf : b.required}
ListInv ==
  /\ \A b, c \in ArgsOf : b.name = c.name => b = c
  /\ \A b \in ArgsOf : /\ b.flag # Blank /\ (b.group # 0 => b.required)
                       /\ b.kind \in {"switch", "multiSwitch"} /\ b.required => b.group # 0
  /\ numRequired = Cardinality(Required)

\* What was taken of a word, and its blanks: exactly those letters were taken.
TakenOf(T, k) == {u \in T : u[1] = k}
Blanks(w) == IF w.kind = "letters" THEN {k \in DOMAIN w.of : w.of[k] = Blank} ELSE {}
LettersTaken(T, k, S) == \E o \in [S -> Texts] : TakenOf(T, k) = {<<k, l, o[l]>> : l \in S}
Settled(T, D, k, w) ==
  \/ \E n \in Texts : TakenOf(T, k) = {<<k, 0, n>>}
  \/ w.kind = "letters" /\ LettersTaken(T, k, DOMAIN w.of)
  \/ TakenOf(T, k) = {} /\ k \in D
WordInv ==
  /\ \A k \in DOMAIN args : k < i => Settled(taken, dropped, k, args[k])
  /\ \A k \in DOMAIN args : k >= i => LettersTaken(taken, k, Blanks(args[k]))
  /\ \A k \in DOMAIN args : k > i => Blanks(args[k]) = {}
  /\ ignoreRest /\ i \in DOMAIN args => Blanks(args[i]) = {}
  /\ pc = "accepted" => i > Len(args)

\* An argument of an xor list stops the others from the moment it is given.  It
\* counts once the others have not been given either.
XorSwitchless == \A b \in ArgsOf : b.group # 0 => b.kind # "multiSwitch"
Others(b) == Group(b) \ {b}
Chosen(b) == Given(b) /\ \A c \in Others(b) : st[c.name].set /\ ~Given(c)
Counted == {b \in Required : IF b.group = 0 THEN Given(b) ELSE \E c \in Group(b) : Chosen(c)}
XorInv ==
  \A b \in ArgsOf :
    /\ st[b.name].xorSet => b.group # 0 /\ \E c \in Others(b) : IsSet(st, c)
    /\ Given(b) => /\ IsSet(st, b)
                   /\ b.kind \in Multiple =>
                        /\ st[b.name].vals # <<>>
                        /\ b.group # 0 => st[b.name].more
CountInv ==
  /\ XorSwitchless => XorInv /\ requiredCount <= Cardinality(Counted)
  /\ pc = "adding" => taken = {} /\ requiredCount = 0
  /\ pc = "accepted" => requiredCount = numRequired

-----------------------------------------------------------------------------
(* Sequences *)

LEMMA ListFacts ==
  ASSUME NEW X, NEW s \in Seq(X), NEW x \in X
  PROVE  /\ \A k \in 1 .. Len(s) : s[k] \in X /\ s[k] \in ToSet(s)
         /\ ToSet(s) \subseteq X
         /\ Append(s, x) \in Seq(X) /\ Len(Append(s, x)) = Len(s) + 1
         /\ ToSet(Append(s, x)) = ToSet(s) \cup {x}
         /\ <<x>> \o s \in Seq(X) /\ Len(<<x>> \o s) = Len(s) + 1
         /\ ToSet(<<x>> \o s) = ToSet(s) \cup {x}
<1>1. /\ Len(s) \in Nat /\ DOMAIN s = 1 .. Len(s)
      /\ \A k \in 1 .. Len(s) : s[k] \in X /\ s[k] \in ToSet(s)
  BY DEF ToSet
<1>2. ToSet(s) \subseteq X
  BY <1>1 DEF ToSet
<1>3. /\ Append(s, x) \in Seq(X) /\ Len(Append(s, x)) = Len(s) + 1
      /\ DOMAIN Append(s, x) = 1 .. Len(s) + 1
      /\ Append(s, x)[Len(s) + 1] = x /\ \A k \in 1 .. Len(s) : Append(s, x)[k] = s[k]
  BY <1>1, AppendProperties
<1>4. ToSet(Append(s, x)) = ToSet(s) \cup {x}
  <2>1. 1 .. Len(s) + 1 = 1 .. Len(s) \cup {Len(s) + 1}
    BY <1>1
  <2> QED
    BY <1>1, <1>3, <2>1 DEF ToSet
<1>5. /\ <<x>> \o s \in Seq(X) /\ Len(<<x>> \o s) = Len(s) + 1
      /\ (<<x>> \o s)[1] = x /\ \A k \in 1 .. Len(s) : (<<x>> \o s)[1 + k] = s[k]
  <2>1. <<x>> \in Seq(X) /\ Len(<<x>>) = 1 /\ <<x>>[1] = x
    OBVIOUS
  <2> DEFINE p == <<x>>
  <2>2. p \in Seq(X) /\ Len(p) = 1 /\ p[1] = x
    BY <2>1
  <2> HIDE DEF p
  <2>3. p \o s \in Seq(X) /\ Len(p \o s) = Len(p) + Len(s)
    BY <2>2, ConcatProperties
  <2>4. \A m \in 1 .. 1 + Len(s) : (p \o s)[m] = IF m <= 1 THEN x ELSE s[m - 1]
    <3>1. \A m \in 1 .. Len(p) + Len(s) :
            (p \o s)[m] = IF m <= Len(p) THEN p[m] ELSE s[m - Len(p)]
      BY <2>2, ConcatProperties
    <3>2. \A m \in 1 .. 1 + Len(s) : m <= 1 => m = 1
      BY <1>1
    <3>3. Len(p) + Len(s) = 1 + Len(s)
      BY <1>1, <2>2
    <3>4. ASSUME NEW m \in 1 .. 1 + Len(s) PROVE (p \o s)[m] = IF m <= 1 THEN x ELSE s[m - 1]
      <4>1. (p \o s)[m] = IF m <= 1 THEN p[m] ELSE s[m - 1]
        BY <2>2, <3>1, <3>3
      <4> QED
        BY <2>2, <3>2, <4>1
    <3> QED
      BY <3>4
  <2>5. p \o s \in Seq(X) /\ Len(p \o s) = Len(s) + 1 /\ (p \o s)[1] = x
        /\ \A k \in 1 .. Len(s) : (p \o s)[1 + k] = s[k]
    BY <1>1, <2>2, <2>3, <2>4
  <2> QED
    BY <2>5 DEF p
<1>6. ToSet(<<x>> \o s) = ToSet(s) \cup {x}
  <2> DEFINE q == <<x>> \o s
  <2>1. DOMAIN q = 1 .. Len(s) + 1 /\ q[1] = x /\ \A k \in 1 .. Len(s) : q[1 + k] = s[k]
    BY <1>1, <1>5
  <2> HIDE DEF q
  <2>2. \A m \in DOMAIN q : q[m] \in ToSet(s) \cup {x}
    <3>1. \A m \in DOMAIN q : m = 1 \/ (m - 1 \in 1 .. Len(s) /\ 1 + (m - 1) = m)
      BY <1>1, <2>1
    <3> QED
      BY <1>1, <2>1, <3>1
  <2>3. \A k \in DOMAIN s : 1 + k \in DOMAIN q /\ q[1 + k] = s[k]
    BY <1>1, <2>1
  <2>4. 1 \in DOMAIN q
    BY <1>1, <2>1
  <2>5. ToSet(q) = {q[m] : m \in DOMAIN q} /\ ToSet(s) = {s[k] : k \in DOMAIN s}
    BY DEF ToSet
  <2>6. \A y \in ToSet(s) : y \in ToSet(q)
    BY <2>3, <2>5
  <2>7. x \in ToSet(q)
    BY <2>1, <2>4, <2>5
  <2>8. \A y \in ToSet(q) : y \in ToSet(s) \cup {x}
    BY <2>2, <2>5
  <2>9. ToSet(q) = ToSet(s) \cup {x}
    BY <2>6, <2>7, <2>8
  <2> QED
    BY <2>9 DEF q
<1> QED
  BY <1>1, <1>2, <1>3, <1>4, <1>5, <1>6

LEMMA SeqWithin == ASSUME NEW X, NEW Y, X \subseteq Y PROVE Seq(X) \subseteq Seq(Y)
<1> SUFFICES ASSUME NEW s \in Seq(X) PROVE s \in Seq(Y)
  OBVIOUS
<1>1. Len(s) \in Nat /\ s = [k \in 1 .. Len(s) |-> s[k]] /\ \A k \in 1 .. Len(s) : s[k] \in Y
  OBVIOUS
<1>2. s \in [1 .. Len(s) -> Y]
  BY <1>1
<1> QED
  BY <1>1, <1>2

LEMMA FiniteList == ASSUME NEW X, NEW s \in Seq(X) PROVE IsFiniteSet(ToSet(s))
<1>1. Len(s) \in Nat /\ DOMAIN s = 1 .. Len(s)
  OBVIOUS
<1>2. IsFiniteSet(DOMAIN s)
  BY <1>1, FS_Interval
<1> DEFINE f == [k \in DOMAIN s |-> s[k]]
<1>3. f \in Surjection(DOMAIN s, ToSet(s))
  BY DEF ToSet, Surjection
<1> QED
  BY <1>2, <1>3, FS_Surjection

-----------------------------------------------------------------------------
(* What processArg may do: fail or leave, take the word (and the next one, as the *)
(* value), take letters of it and pass it on, or pass it on as it is.             *)

Leaves == pc = "parsing" /\ \E next \in {"exit0", "exit1"} : Toward(next)

Takes(v, j, units) ==
  /\ Offered /\ v \in Seq(Texts) /\ j \in {i, i + 1} /\ j <= Len(args)
  /\ a.kind \notin Multiple \cup {"multiSwitch"} => ~st[a.name].set
  /\ a.kind \in Multiple => Len(v) = Len(st[a.name].vals) + 1
  /\ \/ Blanks(t) = {} /\ units = Units(i, {0}) \cup Units(j, {0})
     \/ /\ j = i /\ t.kind = "letters" /\ Letters # {} /\ units = Units(i, Letters)
        /\ Blanks(t) \cup Letters = DOMAIN t.of
  /\ ~Clash(Set(v)) /\ Took(Set(v), j, units)

TakesLetters(v) ==
  /\ Offered /\ v \in Seq(Texts) /\ ~ignoreRest /\ combinedSwitchesMatch
  /\ a.kind \in {"switch", "multiSwitch"} /\ (a.kind = "switch" => ~st[a.name].set)
  /\ args' = [args EXCEPT ![i] = Blanked] /\ st' = Set(v)
  /\ taken' = taken \cup Units(i, Letters) /\ Passed

Passes == Offered /\ Passed /\ UNCHANGED <<st, args, taken>>

LEMMA OfferFacts ==
  ASSUME Typed, Offered
  PROVE  /\ a \in ArgsOf /\ a \in Arguments /\ a.name \in DOMAIN st
         /\ a.kind \in Labelled \cup Multiple \cup Single /\ a.flag \in Texts
         /\ st[a.name] \in StateType /\ st[a.name].vals \in Seq(Texts)
         /\ t \in Words /\ i \in DOMAIN args /\ i \in Nat /\ pos \in Nat /\ Len(args) \in Nat
<1>1. /\ pos \in 1 .. Len(argList) /\ Len(argList) \in Nat /\ argList \in Seq(Arguments)
      /\ i \in 1 .. Len(args) /\ Len(args) \in Nat /\ args \in Seq(Words)
  BY DEF Typed, Offered
<1>2. a \in Arguments /\ a \in ArgsOf
  BY <1>1 DEF a, ArgsOf, ToSet
<1>3. t \in Words /\ i \in DOMAIN args
  BY <1>1 DEF t
<1>4. a.name \in DOMAIN st /\ st[a.name] \in StateType
  BY <1>2 DEF Typed
<1>5. st[a.name].vals \in Seq(Texts)
  BY <1>4 DEF StateType
<1>6. a.kind \in Labelled \cup Multiple \cup Single /\ a.flag \in Texts
  BY <1>2 DEF Arguments
<1> QED
  BY <1>1, <1>2, <1>3, <1>4, <1>5, <1>6

\* What matches a flag or a name has no blanks.
LEMMA MatchUnblanked ==
  ASSUME Typed, ListInv, Offered
  PROVE  /\ trimmedMatches => Blanks(t) = {}
         /\ ~HasBlanks => Blanks(t) = {}
<1>1. a.flag # Blank
  BY OfferFacts DEF ListInv
<1>2. ASSUME trimmedMatches PROVE Blanks(t) = {}
  <2>1. CASE t.kind = "letters"
    <3>1. t.of = <<a.flag>>
      BY <1>2, <2>1 DEF trimmedMatches
    <3>2. DOMAIN t.of = {1} /\ t.of[1] = a.flag
      BY <3>1
    <3> QED
      BY <1>1, <3>2 DEF Blanks
  <2>2. CASE t.kind # "letters"
    BY <2>2 DEF Blanks
  <2> QED
    BY <2>1, <2>2
<1>3. ASSUME ~HasBlanks PROVE Blanks(t) = {}
  BY <1>3 DEF HasBlanks, Blanks, ToSet
<1> QED
  BY <1>2, <1>3

LEMMA LettersFacts ==
  ASSUME Typed, Offered, combinedSwitchesMatch
  PROVE  /\ t.of \in Seq(Texts) /\ Letters \subseteq DOMAIN t.of /\ Letters # {}
         /\ Cardinality(Letters) \in Nat /\ Blanked \in Words
         /\ Blanks(Blanked) = Blanks(t) \cup Letters
         /\ lastCombined(Blanked) => Blanks(t) \cup Letters = DOMAIN t.of
<1>1. t \in Words /\ t.kind = "letters" /\ t.value = "" /\ a.flag \in ToSet(t.of)
  BY OfferFacts DEF combinedSwitchesMatch
<1>2. t.of \in Seq(Texts) /\ Letters \subseteq DOMAIN t.of /\ Letters # {}
  BY <1>1 DEF Words, Letters, ToSet
<1>3. IsFiniteSet(DOMAIN t.of)
  BY <1>2, FS_Interval
<1>4. Cardinality(Letters) \in Nat
  BY <1>2, <1>3, FS_Subset, FS_CardinalityType
<1> DEFINE of == [k \in DOMAIN t.of |-> IF t.of[k] = a.flag THEN Blank ELSE t.of[k]]
<1>5. Blanked = [t EXCEPT !.of = of]
  BY DEF Blanked
<1>6. of \in Seq(Texts) /\ DOMAIN of = DOMAIN t.of
  <2>1. DOMAIN t.of = 1 .. Len(t.of) /\ Len(t.of) \in Nat
        /\ \A k \in DOMAIN t.of : t.of[k] \in Texts
    BY <1>2
  <2>2. Blank \in Texts
    BY DEF Texts
  <2>3. \A k \in DOMAIN t.of : (IF t.of[k] = a.flag THEN Blank ELSE t.of[k]) \in Texts
    BY <2>1, <2>2
  <2>4. of \in [DOMAIN t.of -> Texts]
    BY <2>3
  <2>5. \A f \in [1 .. Len(t.of) -> Texts] : f \in Seq(Texts)
    BY <2>1
  <2> QED
    BY <2>1, <2>4, <2>5
<1>7. \A k \in DOMAIN of : of[k] = Blank <=> t.of[k] = Blank \/ t.of[k] = a.flag
  OBVIOUS
<1> HIDE DEF of
<1>8. /\ Blanked \in Words /\ Blanked.of = of /\ Blanked.kind = "letters"
  BY <1>1, <1>5, <1>6 DEF Words
<1>9. Blanks(Blanked) = Blanks(t) \cup Letters
  BY <1>1, <1>6, <1>7, <1>8 DEF Blanks, Letters
<1>10. lastCombined(Blanked) => Blanks(t) \cup Letters = DOMAIN t.of
  BY <1>1, <1>6, <1>8, <1>9 DEF lastCombined, Blanks
<1> QED
  BY <1>2, <1>4, <1>8, <1>9, <1>10

\* A value that is read is a text, and one more for an argument with many.
LEMMA ReadFacts ==
  ASSUME Typed, Offered
  PROVE  /\ \A w \in Texts : a.kind \in Single \cup Multiple =>
              /\ NewVals(w) \in Seq(Texts)
              /\ a.kind \in Multiple => Len(NewVals(w)) = Len(st[a.name].vals) + 1
         /\ \A v \in Texts : ExtractValue(v) \subseteq Texts
         /\ \A w \in Words : Text(w) \in Texts /\ w.value \in Texts
<1>1. st[a.name].vals \in Seq(Texts) /\ a.kind \in Labelled \cup Multiple \cup Single
  BY OfferFacts
<1>2. ASSUME NEW w \in Texts
      PROVE  /\ NewVals(w) \in Seq(Texts)
             /\ a.kind \in Multiple => Len(NewVals(w)) = Len(st[a.name].vals) + 1
  <2>1. /\ <<w>> \in Seq(Texts) /\ Append(st[a.name].vals, w) \in Seq(Texts)
        /\ Len(Append(st[a.name].vals, w)) = Len(st[a.name].vals) + 1
    BY <1>1
  <2>2. a.kind \in Multiple => a.kind \notin Single
    BY DEF Multiple, Single
  <2> QED
    BY <2>1, <2>2 DEF NewVals
<1>3. ASSUME NEW v \in Texts PROVE ExtractValue(v) \subseteq Texts
  <2>1. ToSet(st[a.name].vals) \subseteq Texts
    BY <1>1 DEF ToSet
  <2>2. Numbers \subseteq Texts
    BY CommandLineAssumption DEF Texts
  <2> QED
    BY <2>1, <2>2 DEF ExtractValue
<1>4. ASSUME NEW w \in Words PROVE Text(w) \in Texts /\ w.value \in Texts
  BY DEF Words, Text, Texts
<1> QED
  BY <1>2, <1>3, <1>4

\* What Took leaves: it fails on a clash, and takes the word without one.
LEMMA TookCases ==
  ASSUME NEW s, NEW j, NEW units, pc = "parsing", Took(s, j, units)
  PROVE  Leaves \/ (~Clash(s) /\ Took(s, j, units))
BY DEF Took, Fail, failure, Leaves

LEMMA ExtractCases ==
  ASSUME Typed, Offered, a.kind \in Single \cup Multiple, Blanks(t) = {},
         a.kind \notin Multiple => ~st[a.name].set,
         NEW v \in Texts, NEW j \in {i, i + 1}, j <= Len(args), Extract(v, j)
  PROVE  Leaves \/ \E w \in Seq(Texts), m \in Nat : \E units : Takes(w, m, units)
<1> DEFINE units == Units(i, {0}) \cup Units(j, {0})
<1>1. PICK w \in ExtractValue(v) :
        IF Readable(w) THEN Took(Set(NewVals(w)), j, units) ELSE Fail
  BY DEF Extract
<1>2. w \in Texts /\ i \in Nat /\ j \in Nat /\ pc = "parsing"
  BY <1>1, ReadFacts, OfferFacts DEF Offered
<1> DEFINE vals == NewVals(w)
<1>3. vals \in Seq(Texts) /\ (a.kind \in Multiple => Len(vals) = Len(st[a.name].vals) + 1)
  BY <1>2, ReadFacts
<1> HIDE DEF vals
<1>4. CASE Fail
  BY <1>2, <1>4 DEF Fail, failure, Leaves
<1>5. CASE Took(Set(vals), j, units)
  <2>1. CASE Clash(Set(vals))
    BY <1>2, <1>5, <2>1, TookCases
  <2>2. CASE ~Clash(Set(vals))
    <3>1. Takes(vals, j, units)
      BY <1>3, <1>5, <2>2 DEF Takes
    <3> QED
      BY <1>2, <1>3, <3>1
  <2> QED
    BY <2>1, <2>2
<1> QED
  BY <1>1, <1>4, <1>5 DEF vals

LEMMA ReadsCases ==
  ASSUME Typed, Offered, a.kind \in Single \cup Multiple, Blanks(t) = {},
         a.kind \notin Multiple => ~st[a.name].set, ReadsValue
  PROVE  Leaves \/ \E w \in Seq(Texts), m \in Nat : \E units : Takes(w, m, units)
<1>1. t \in Words /\ i \in Nat /\ Len(args) \in Nat /\ i <= Len(args) /\ args \in Seq(Words)
      /\ pc = "parsing"
  BY OfferFacts DEF Offered, Typed
<1>2. CASE t.value # ""
  <2>1. Extract(t.value, i) /\ t.value \in Texts
    BY <1>1, <1>2, ReadFacts DEF ReadsValue
  <2> QED
    BY <1>1, <2>1, ExtractCases
<1>3. CASE t.value = "" /\ i < Len(args)
  <2>1. Extract(Text(args[i + 1]), i + 1)
    BY <1>3, Zenon DEF ReadsValue
  <2>2. i + 1 <= Len(args) /\ i + 1 \in 1 .. Len(args)
    <3>1. i \in Nat /\ Len(args) \in Nat /\ i < Len(args)
      BY <1>1, <1>3
    <3> QED
      BY <3>1
  <2>3. args[i + 1] \in Words
    BY <1>1, <2>2
  <2>4. Text(args[i + 1]) \in Texts
    BY <2>3, ReadFacts
  <2> QED
    BY <1>1, <2>1, <2>2, <2>4, ExtractCases
<1>4. CASE t.value = "" /\ ~(i < Len(args))
  BY <1>1, <1>4 DEF ReadsValue, Fail, failure, Leaves
<1> QED
  BY <1>2, <1>3, <1>4

LEMMA SwitchCases ==
  ASSUME Typed, ListInv, SwitchArg
  PROVE  \/ Leaves \/ \E v \in Seq(Texts) : TakesLetters(v)
         \/ \E v \in Seq(Texts), j \in Nat : \E units : Takes(v, j, units)
<1>1. /\ Offered /\ a.kind = "switch" /\ ~Ignored /\ pc = "parsing" /\ ~ignoreRest
      /\ a.kind \notin Multiple
  BY DEF SwitchArg, Offered, Ignored, Labelled, Multiple
<1>2. i \in Nat /\ Len(args) \in Nat /\ i <= Len(args) /\ st[a.name].vals \in Seq(Texts)
  BY <1>1, OfferFacts DEF Offered
<1> DEFINE vals == On
<1>3. vals \in Seq(Texts)
  <2>1. "on" \in Texts
    BY DEF Texts
  <2> QED
    BY <1>2, <2>1 DEF On
<1> HIDE DEF vals
<1>4. CASE Fail \/ HelpVisitor \/ VersionVisitor
  BY <1>1, <1>4 DEF Fail, failure, HelpVisitor, VersionVisitor, Leaves
<1>5. CASE ~st[a.name].set /\ argMatches /\ Took(Set(vals), i, Units(i, {0}))
  <2> DEFINE units == Units(i, {0})
  <2>1. units = units \cup Units(i, {0}) /\ Blanks(t) = {}
    BY <1>1, <1>5, MatchUnblanked DEF argMatches
  <2>2. CASE ~Clash(Set(vals))
    <3>1. Takes(vals, i, units)
      BY <1>1, <1>2, <1>3, <1>5, <2>1, <2>2 DEF Takes
    <3> QED
      BY <1>2, <1>3, <3>1
  <2> QED
    BY <1>1, <1>5, <2>2, TookCases
<1>6. CASE /\ ~st[a.name].set /\ combinedSwitchesMatch /\ lastCombined(Blanked)
           /\ Took(Set(vals), i, Units(i, Letters))
  <2>1. /\ Letters # {} /\ Blanks(t) \cup Letters = DOMAIN t.of /\ t.kind = "letters"
    BY <1>1, <1>6, LettersFacts DEF combinedSwitchesMatch
  <2>2. CASE ~Clash(Set(vals))
    <3>1. Takes(vals, i, Units(i, Letters))
      BY <1>1, <1>2, <1>3, <1>6, <2>1, <2>2 DEF Takes
    <3> QED
      BY <1>2, <1>3, <3>1
  <2> QED
    BY <1>1, <1>6, <2>2, TookCases
<1>7. CASE /\ ~st[a.name].set /\ combinedSwitchesMatch
           /\ args' = [args EXCEPT ![i] = Blanked] /\ st' = Set(vals)
           /\ taken' = taken \cup Units(i, Letters) /\ Passed
  <2>1. TakesLetters(vals)
    BY <1>1, <1>3, <1>7 DEF TakesLetters
  <2> QED
    BY <1>3, <2>1
<1> QED
  BY <1>4, <1>5, <1>6, <1>7 DEF SwitchArg, vals

LEMMA MultiSwitchCases ==
  ASSUME Typed, ListInv, MultiSwitchArg
  PROVE  \/ Leaves \/ \E v \in Seq(Texts) : TakesLetters(v)
         \/ \E v \in Seq(Texts), j \in Nat : \E units : Takes(v, j, units)
<1>1. /\ Offered /\ a.kind = "multiSwitch" /\ ~Ignored /\ pc = "parsing" /\ ~ignoreRest
      /\ a.kind \notin Multiple
  BY DEF MultiSwitchArg, Offered, Ignored, Labelled, Multiple
<1>2. i \in Nat /\ Len(args) \in Nat /\ i <= Len(args) /\ st[a.name].vals \in Seq(Texts)
      /\ "on" \in Texts
  BY <1>1, OfferFacts DEF Offered, Texts
<1>3. CASE argMatches /\ Took(Set(On), i, Units(i, {0}))
  <2> DEFINE vals == On
             units == Units(i, {0})
  <2>1. vals \in Seq(Texts)
    BY <1>2 DEF On
  <2>2. units = units \cup Units(i, {0}) /\ Blanks(t) = {}
    BY <1>1, <1>3, MatchUnblanked DEF argMatches
  <2> HIDE DEF vals
  <2>3. CASE ~Clash(Set(vals))
    <3>1. Takes(vals, i, units)
      BY <1>1, <1>2, <1>3, <2>1, <2>2, <2>3 DEF Takes, vals
    <3> QED
      BY <1>2, <2>1, <3>1
  <2> QED
    BY <1>1, <1>3, <2>3, TookCases DEF vals
<1>4. CASE /\ combinedSwitchesMatch /\ args' = [args EXCEPT ![i] = Blanked]
           /\ st' = Set(st[a.name].vals \o [k \in 1 .. Cardinality(Letters) |-> "on"])
           /\ taken' = taken \cup Units(i, Letters) /\ Passed
  <2> DEFINE more == [k \in 1 .. Cardinality(Letters) |-> "on"]
             vals == st[a.name].vals \o more
  <2>1. Cardinality(Letters) \in Nat
    BY <1>1, <1>4, LettersFacts
  <2>2. more \in Seq(Texts)
    BY <1>2, <2>1
  <2> HIDE DEF more
  <2>3. vals \in Seq(Texts)
    BY <1>2, <2>2, ConcatProperties
  <2> HIDE DEF vals
  <2>4. st' = Set(vals)
    BY <1>4 DEF vals, more
  <2>5. TakesLetters(vals)
    BY <1>1, <1>4, <2>3, <2>4 DEF TakesLetters
  <2> QED
    BY <2>3, <2>5
<1> QED
  BY <1>3, <1>4 DEF MultiSwitchArg

LEMMA ProcessCases ==
  ASSUME Typed, ListInv, processArg
  PROVE  \/ Leaves \/ Passes \/ \E v \in Seq(Texts) : TakesLetters(v)
         \/ \E v \in Seq(Texts), j \in Nat : \E units : Takes(v, j, units)
<1>1. CASE SwitchArg
  BY <1>1, SwitchCases
<1>2. CASE MultiSwitchArg
  BY <1>2, MultiSwitchCases
<1>3. CASE ValueArg
  <2>1. /\ Offered /\ a.kind \in Single \cup Multiple /\ Blanks(t) = {} /\ pc = "parsing"
        /\ IF st[a.name].set THEN Fail ELSE ReadsValue
    BY <1>3, MatchUnblanked DEF ValueArg, Offered, Single
  <2> QED
    BY <2>1, ReadsCases DEF Fail, failure, Leaves
<1>4. CASE MultiArg
  <2>1. /\ Offered /\ a.kind \in Multiple /\ Blanks(t) = {} /\ ReadsValue
    BY <1>4, MatchUnblanked DEF MultiArg, Offered, Multiple
  <2> QED
    BY <2>1, ReadsCases
<1>5. CASE UnlabeledValueArg \/ UnlabeledMultiArg
  <2>1. /\ Offered /\ a.kind \in Single \cup Multiple /\ Blanks(t) = {}
        /\ (a.kind \notin Multiple => ~st[a.name].set) /\ Extract(Text(t), i)
    BY <1>5, MatchUnblanked DEF UnlabeledValueArg, UnlabeledMultiArg, Offered, Multiple, Single
  <2>2. t \in Words /\ i \in Nat /\ i <= Len(args)
    BY <2>1, OfferFacts DEF Offered
  <2>3. Text(t) \in Texts
    BY <2>1, <2>2, ReadFacts
  <2> QED
    BY <2>1, <2>2, <2>3, ExtractCases
<1>6. CASE PassedOver
  BY <1>6 DEF PassedOver, Passes
<1> QED
  BY <1>1, <1>2, <1>3, <1>4, <1>5, <1>6 DEF processArg

-----------------------------------------------------------------------------
(* What an argument that takes a word makes of the arguments. *)

LEMMA SetFacts ==
  ASSUME Typed, Offered, NEW v \in Seq(Texts)
  PROVE  /\ DOMAIN Set(v) = DOMAIN st
         /\ \A n \in DOMAIN st : Set(v)[n] \in StateType /\ (Set(v)[n].xorSet => Set(v)[n].set)
         /\ \A n \in DOMAIN st \ {a.name} : Set(v)[n] = st[n]
         /\ Set(v)[a.name].set /\ Set(v)[a.name].vals = v
         /\ Set(v)[a.name].xorSet = st[a.name].xorSet /\ Set(v)[a.name].more = st[a.name].more
<1>1. a.name \in DOMAIN st /\ st[a.name] \in StateType
  BY OfferFacts
<1> DEFINE e == [st[a.name] EXCEPT !.set = TRUE, !.vals = v]
<1>2. /\ e \in StateType /\ e.set /\ e.vals = v
      /\ e.xorSet = st[a.name].xorSet /\ e.more = st[a.name].more
  BY <1>1 DEF StateType
<1>3. Set(v) = [st EXCEPT ![a.name] = e]
  BY <1>1 DEF Set, StateType
<1> HIDE DEF e
<1>4. /\ DOMAIN Set(v) = DOMAIN st /\ Set(v)[a.name] = e
      /\ \A n \in DOMAIN st \ {a.name} : Set(v)[n] = st[n]
  BY <1>1, <1>3
<1>5. \A n \in DOMAIN st : Set(v)[n] \in StateType /\ (Set(v)[n].xorSet => Set(v)[n].set)
  BY <1>2, <1>4 DEF Typed
<1> QED
  BY <1>2, <1>4, <1>5

\* The names of the others of the argument's xor list.
Rivals(n) == \E b \in Group(a) \ {a} : b.name = n

LEMMA MarkedFacts ==
  ASSUME NEW s, \A n \in DOMAIN s : s[n] \in StateType /\ (s[n].xorSet => s[n].set)
  PROVE  /\ DOMAIN XorMarked(s) = DOMAIN s
         /\ \A n \in DOMAIN s :
              /\ XorMarked(s)[n] \in StateType
              /\ XorMarked(s)[n].xorSet => XorMarked(s)[n].set
              /\ XorMarked(s)[n].vals = s[n].vals
              /\ XorMarked(s)[n].set = (Rivals(n) \/ s[n].set)
              /\ XorMarked(s)[n].xorSet = (Rivals(n) \/ s[n].xorSet)
              /\ XorMarked(s)[n].more = IF ~Rivals(n) /\ n = a.name /\ a.group # 0
                                        THEN AllowsMore(a) ELSE s[n].more
<1>1. /\ DOMAIN XorMarked(s) = DOMAIN s
      /\ \A n \in DOMAIN s :
           XorMarked(s)[n] = IF Rivals(n) THEN [s[n] EXCEPT !.set = TRUE, !.xorSet = TRUE]
                             ELSE IF n = a.name /\ a.group # 0
                                  THEN [s[n] EXCEPT !.more = AllowsMore(a)] ELSE s[n]
  BY DEF XorMarked, Rivals
<1>2. AllowsMore(a) \in BOOLEAN
  BY DEF AllowsMore
<1> SUFFICES ASSUME NEW n \in DOMAIN s
             PROVE  /\ XorMarked(s)[n] \in StateType
                    /\ XorMarked(s)[n].xorSet => XorMarked(s)[n].set
                    /\ XorMarked(s)[n].vals = s[n].vals
                    /\ XorMarked(s)[n].set = (Rivals(n) \/ s[n].set)
                    /\ XorMarked(s)[n].xorSet = (Rivals(n) \/ s[n].xorSet)
                    /\ XorMarked(s)[n].more = IF ~Rivals(n) /\ n = a.name /\ a.group # 0
                                              THEN AllowsMore(a) ELSE s[n].more
  BY <1>1
<1>3. s[n] \in StateType /\ (s[n].xorSet => s[n].set)
  OBVIOUS
<1>4. CASE Rivals(n)
  <2>1. XorMarked(s)[n] = [s[n] EXCEPT !.set = TRUE, !.xorSet = TRUE]
    BY <1>1, <1>4
  <2> QED
    BY <1>3, <1>4, <2>1 DEF StateType
<1>5. CASE ~Rivals(n) /\ n = a.name /\ a.group # 0
  <2>1. XorMarked(s)[n] = [s[n] EXCEPT !.more = AllowsMore(a)]
    BY <1>1, <1>5
  <2> QED
    BY <1>2, <1>3, <1>5, <2>1 DEF StateType
<1>6. CASE ~Rivals(n) /\ ~(n = a.name /\ a.group # 0)
  <2>1. XorMarked(s)[n] = s[n]
    BY <1>1, <1>6
  <2> QED
    BY <1>3, <1>6, <2>1 DEF StateType
<1> QED
  BY <1>4, <1>5, <1>6

LEMMA GroupFacts ==
  ASSUME Typed
  PROVE  /\ IsFiniteSet(ArgsOf)
         /\ \A b \in ArgsOf : IsFiniteSet(Group(b)) /\ Cardinality(Group(b)) \in Nat
<1>1. IsFiniteSet(ArgsOf)
  BY FiniteList DEF Typed, ArgsOf
<1>2. \A b \in ArgsOf : Group(b) \subseteq ArgsOf
  BY DEF Group, ArgsOf
<1> QED
  BY <1>1, <1>2, FS_Subset, FS_CardinalityType

-----------------------------------------------------------------------------
(* Every step keeps the types and the list. *)

LEMMA InitTyped == Init => Typed /\ ListInv
<1> SUFFICES ASSUME Init PROVE Typed /\ ListInv
  OBVIOUS
<1> DEFINE d == Defaults
<1>1. /\ argList = d /\ args = <<>> /\ i = 1 /\ pos = 1 /\ numRequired = 0
      /\ program \in Programs /\ pc = "adding" /\ requiredCount = 0
      /\ alreadyOptional = FALSE /\ ignoreRest = FALSE
      /\ st = [n \in {"ignore_rest", "version", "help"} |-> StartState(d[1])]
  BY DEF Init
<1>2. /\ d = <<d[1], d[2], d[3]>>
      /\ \A k \in 1 .. 3 : /\ d[k].kind = "switch" /\ d[k].group = 0 /\ ~d[k].required
                           /\ d[k].flag # Blank /\ d[k] \in Arguments
      /\ d[1].name = "ignore_rest" /\ d[2].name = "version" /\ d[3].name = "help"
  <2>1. ASSUME NEW flag \in Texts, NEW name \in Texts, NEW visitor \in Texts
        PROVE  /\ DefaultSwitch(flag, name, visitor) \in Arguments
               /\ DefaultSwitch(flag, name, visitor).flag = flag
               /\ DefaultSwitch(flag, name, visitor).name = name
               /\ DefaultSwitch(flag, name, visitor).kind = "switch"
               /\ ~DefaultSwitch(flag, name, visitor).required
               /\ DefaultSwitch(flag, name, visitor).group = 0
    <3>1. Argument("switch", flag, name, FALSE, 0) \in Arguments
      BY DEF Argument, Arguments, Texts, Labelled
    <3> QED
      BY <3>1 DEF DefaultSwitch, Argument, Arguments
  <2>2. /\ "-" \in Texts /\ "ignore_rest" \in Texts /\ "ignore" \in Texts /\ "" \in Texts
        /\ "version" \in Texts /\ "h" \in Texts /\ "help" \in Texts
    BY DEF Texts
  <2>3. /\ d[1] = DefaultSwitch("-", "ignore_rest", "ignore")
        /\ d[2] = DefaultSwitch("", "version", "version")
        /\ d[3] = DefaultSwitch("h", "help", "help") /\ d = <<d[1], d[2], d[3]>>
    BY DEF Defaults
  <2> HIDE DEF d
  <2> DEFINE Is(x, flag, name) == /\ x \in Arguments /\ x.flag = flag /\ x.name = name
                                  /\ x.kind = "switch" /\ ~x.required /\ x.group = 0
  <2>4. Is(d[1], "-", "ignore_rest") /\ Is(d[2], "", "version") /\ Is(d[3], "h", "help")
    <3>1. \A flag \in Texts, name \in Texts, visitor \in Texts :
            Is(DefaultSwitch(flag, name, visitor), flag, name)
      BY <2>1
    <3> HIDE DEF Is
    <3>2. Is(DefaultSwitch("-", "ignore_rest", "ignore"), "-", "ignore_rest")
      BY <2>2, <3>1
    <3>3. Is(DefaultSwitch("", "version", "version"), "", "version")
      BY <2>2, <3>1
    <3>4. Is(DefaultSwitch("h", "help", "help"), "h", "help")
      BY <2>2, <3>1
    <3> QED
      BY <2>3, <3>2, <3>3, <3>4
  <2>5. \A k \in 1 .. 3 : k = 1 \/ k = 2 \/ k = 3
    OBVIOUS
  <2>6. \A k \in 1 .. 3 : /\ d[k].kind = "switch" /\ d[k].group = 0 /\ ~d[k].required
                           /\ d[k] \in Arguments
    BY <2>4, <2>5
  <2>7. \A k \in 1 .. 3 : d[k].flag # Blank
    BY <2>4, <2>5 DEF Blank
  <2> QED
    BY <2>3, <2>4, <2>6, <2>7
<1> HIDE DEF d
<1>3. d \in Seq(Arguments) /\ Len(d) = 3
  <2>1. <<d[1], d[2], d[3]>> \in Seq(Arguments) /\ Len(<<d[1], d[2], d[3]>>) = 3
    BY <1>2
  <2> QED
    BY <1>2, <2>1
<1>4. ToSet(d) = {d[1], d[2], d[3]}
  BY <1>2, <1>3 DEF ToSet
<1>5. StartState(d[1]) \in StateType /\ ~StartState(d[1]).xorSet
  <2>1. StartVals(d[1]) = <<>> /\ <<>> \in Seq(Texts)
    BY <1>2 DEF StartVals, Single
  <2> QED
    BY <2>1 DEF StartState, StateType
<1>6. Typed
  <2>1. DOMAIN st = {b.name : b \in ArgsOf}
    BY <1>1, <1>2, <1>4 DEF ArgsOf
  <2>2. \A n \in DOMAIN st : st[n] \in StateType /\ (st[n].xorSet => st[n].set)
    BY <1>1, <1>5
  <2>3. args \in Seq(Words) /\ Len(args) = 0
    BY <1>1
  <2>4. /\ i \in 1 .. Len(args) + 1 /\ pos \in 1 .. Len(argList) + 1 /\ Len(argList) >= 3
        /\ numRequired \in 0 .. Len(argList)
    BY <1>1, <1>3, <2>3
  <2> QED
    BY <1>1, <1>3, <2>1, <2>2, <2>3, <2>4 DEF Typed
<1>7. Required = {}
  BY <1>1, <1>2, <1>4 DEF Required, ArgsOf
<1>8. ListInv
  BY <1>1, <1>2, <1>4, <1>7, FS_EmptySet DEF ListInv, ArgsOf
<1> QED
  BY <1>6, <1>8

LEMMA ListKept == ListInv /\ UNCHANGED definition => ListInv'
BY DEF ListInv, definition, Required, ArgsOf

LEMMA AddTyped == ASSUME Typed, ListInv, add PROVE Typed' /\ ListInv'
<1> DEFINE new == [Added EXCEPT !.required = @ \/ Added.group # 0]
<1>1. /\ Adding /\ \A b \in ArgsOf : ~Same(new, b)
      /\ argList' = IF new.kind \in Labelled THEN <<new>> \o argList ELSE Append(argList, new)
      /\ numRequired' = numRequired + (IF new.required THEN 1 ELSE 0)
      /\ alreadyOptional' = (alreadyOptional \/ MarksOptional)
      /\ st' = [n \in DOMAIN st \cup {new.name} |->
                  IF n = new.name THEN StartState(new) ELSE st[n]]
      /\ UNCHANGED <<program, args, i, pos, requiredCount, ignoreRest, pc>>
  BY DEF add, ArgsOf
<1>2. Added \in ArgumentType /\ Added.flag # Blank
      /\ (Added.kind \in {"switch", "multiSwitch"} => ~Added.required)
  <2>1. program.adds \in Seq(ArgumentType) /\ program \in Programs
    BY CommandLineAssumption DEF Typed
  <2>2. /\ Len(argList) \in Nat /\ Len(argList) >= 3 /\ Len(Defaults) = 3
        /\ Len(program.adds) \in Nat
    BY <2>1 DEF Typed, Defaults
  <2>3. Len(argList) - 3 + 1 \in 1 .. Len(program.adds)
    BY <1>1, <2>2 DEF Adding
  <2>4. Added = program.adds[Len(argList) - 3 + 1]
    BY <2>2 DEF Added
  <2>5. Added \in ArgumentType /\ Added \in ToSet(program.adds)
    BY <2>1, <2>3, <2>4 DEF ToSet
  <2> QED
    BY <2>1, <2>5, CommandLineAssumption
<1>3. Added \in Arguments
  BY <1>2 DEF ArgumentType, Arguments, Texts
<1>4. /\ new \in Arguments /\ new.flag # Blank /\ (new.group # 0 => new.required)
      /\ new.kind \in {"switch", "multiSwitch"} /\ new.required => new.group # 0
  BY <1>2, <1>3 DEF Arguments
<1>5. new.kind \in Labelled \/ new.kind \notin Labelled
  OBVIOUS
<1>6. \A b \in ArgsOf : b.name # new.name
  BY <1>1 DEF Same, SameUnlabeled
<1>7. StartState(new) \in StateType /\ ~StartState(new).xorSet
  <2>1. StartVals(new) \in Seq(Texts)
    BY <1>4 DEF StartVals, Arguments
  <2> QED
    BY <2>1 DEF StartState, StateType
<1> HIDE DEF new
<1>8. /\ argList' \in Seq(Arguments) /\ Len(argList') = Len(argList) + 1
      /\ ArgsOf' = ArgsOf \cup {new}
  <2>1. argList \in Seq(Arguments)
    BY DEF Typed
  <2>2. ToSet(argList') = ToSet(argList) \cup {new}
    BY <1>1, <1>4, <2>1, ListFacts
  <2>3. ArgsOf' = ToSet(argList')
    BY DEF ArgsOf, ToSet
  <2>4. argList' \in Seq(Arguments) /\ Len(argList') = Len(argList) + 1
    BY <1>1, <1>4, <2>1, ListFacts
  <2> QED
    BY <2>2, <2>3, <2>4 DEF ArgsOf
<1>9. Required' = IF new.required THEN Required \cup {new} ELSE Required
  <2>1. Required' = {b \in ArgsOf' : b.required}
    BY DEF Required
  <2> QED
    BY <1>8, <2>1 DEF Required
<1>10. /\ IsFiniteSet(Required) /\ new \notin Required
  <2>1. Required \subseteq ArgsOf
    BY DEF Required
  <2> QED
    BY <1>6, <2>1, GroupFacts, FS_Subset
<1>11. numRequired' = Cardinality(Required')
  <2>1. numRequired = Cardinality(Required)
    BY DEF ListInv
  <2>2. Cardinality(Required \cup {new}) = Cardinality(Required) + 1
    BY <1>10, FS_AddElement
  <2>3. numRequired \in Nat
    BY DEF Typed
  <2> QED
    BY <1>1, <1>9, <2>1, <2>2, <2>3
<1>12. ListInv'
  <2>1. \A b, c \in ArgsOf' : b.name = c.name => b = c
    BY <1>6, <1>8 DEF ListInv
  <2>2. \A b \in ArgsOf' : /\ b.flag # Blank /\ (b.group # 0 => b.required)
                           /\ b.kind \in {"switch", "multiSwitch"} /\ b.required => b.group # 0
    BY <1>4, <1>8 DEF ListInv
  <2> QED
    BY <1>11, <2>1, <2>2 DEF ListInv
<1>13. /\ numRequired' \in 0 .. Len(argList') /\ pos \in 1 .. Len(argList') + 1
       /\ Len(argList') >= 3
  <2>1. /\ Len(argList) \in Nat /\ Len(argList) >= 3
        /\ numRequired \in 0 .. Len(argList) /\ pos \in 1 .. Len(argList) + 1
    BY DEF Typed
  <2> QED
    BY <1>1, <1>8, <2>1
<1>14. DOMAIN st' = {b.name : b \in ArgsOf'}
  BY <1>1, <1>8 DEF Typed
<1>15. \A n \in DOMAIN st' : st'[n] \in StateType /\ (st'[n].xorSet => st'[n].set)
  BY <1>1, <1>7 DEF Typed
<1>16. alreadyOptional' \in BOOLEAN
  BY <1>1 DEF Typed, MarksOptional
<1>17. Typed'
  BY <1>1, <1>8, <1>13, <1>14, <1>15, <1>16 DEF Typed
<1> QED
  BY <1>12, <1>17

\* A line that parse reads is made of the program's words: none has a blank yet.
LEMMA ParseFacts ==
  ASSUME Typed, Parse
  PROVE  args' \in Seq(Words) /\ \A k \in DOMAIN args' : Blanks(args'[k]) = {}
<1>1. program \in Programs /\ args' \in BoundedSeq(program.words, MaxWords) /\ MaxWords \in Nat
  BY CommandLineAssumption DEF Typed, Parse
<1>2. PICK m \in 0 .. MaxWords : args' \in [1 .. m -> program.words]
  BY <1>1 DEF BoundedSeq, SeqOf
<1>3. \A w \in program.words : w \in Words /\ Blanks(w) = {}
  <2>1. program.words \subseteq WordType
        /\ \A w \in program.words : w.kind = "letters" => Blank \notin ToSet(w.of)
    BY <1>1, CommandLineAssumption
  <2>2. STRING \subseteq Texts
    BY DEF Texts
  <2>3. Seq(STRING) \subseteq Seq(Texts)
    BY <2>2, SeqWithin
  <2>4. WordType \subseteq Words
    BY <2>2, <2>3 DEF WordType, Words
  <2> QED
    BY <2>1, <2>4 DEF Blanks, ToSet
<1>4. DOMAIN args' = 1 .. m /\ \A k \in 1 .. m : args'[k] \in program.words
  BY <1>2
<1>5. args' \in Seq(Words)
  BY <1>2, <1>3
<1> QED
  BY <1>3, <1>4, <1>5

LEMMA ParseTyped == ASSUME Typed, Parse PROVE Typed'
<1>1. args' \in Seq(Words)
  BY ParseFacts
<1>2. Len(args') \in Nat /\ Len(argList) \in Nat
  BY <1>1 DEF Typed
<1>3. i' \in 1 .. Len(args') + 1 /\ pos' \in 1 .. Len(argList) + 1 /\ requiredCount' \in Nat
  BY <1>2 DEF Parse
<1>4. ArgsOf' = ArgsOf
  BY DEF Parse, definition, ArgsOf
<1> QED
  BY <1>1, <1>3, <1>4 DEF Parse, Typed, definition

\* What an argument adds to requiredCount.
LEMMA CountFacts ==
  ASSUME Typed, Offered, NEW s, \A n \in DOMAIN s : s[n] \in StateType, a.name \in DOMAIN s
  PROVE  XorCount(s) \in Nat
<1>1. a \in ArgsOf
  BY OfferFacts
<1>2. Cardinality(Group(a)) \in Nat
  BY <1>1, GroupFacts
<1> QED
  BY <1>2 DEF XorCount

LEMMA TakesTyped ==
  ASSUME Typed, NEW v, NEW j, NEW units, Takes(v, j, units)
  PROVE  Typed'
<1>1. /\ Offered /\ v \in Seq(Texts) /\ j \in {i, i + 1} /\ j <= Len(args)
      /\ ~Clash(Set(v)) /\ Took(Set(v), j, units)
  BY DEF Takes
<1> DEFINE s == Set(v)
<1>2. /\ st' = XorMarked(s) /\ requiredCount' = requiredCount + XorCount(s)
      /\ i' = j + 1 /\ pos' = 1 /\ ignoreRest' = (ignoreRest \/ a.visitor = "ignore")
      /\ UNCHANGED <<definition, args, pc>>
  BY <1>1 DEF Took, IgnoreRestVisitor
<1>3. /\ DOMAIN s = DOMAIN st
      /\ \A n \in DOMAIN s : s[n] \in StateType /\ (s[n].xorSet => s[n].set)
  BY <1>1, SetFacts
<1>4. a.name \in DOMAIN st /\ i \in Nat /\ Len(args) \in Nat /\ Len(argList) \in Nat
  BY <1>1, OfferFacts DEF Typed
<1> HIDE DEF s
<1>5. /\ DOMAIN st' = DOMAIN st
      /\ \A n \in DOMAIN st : st'[n] \in StateType /\ (st'[n].xorSet => st'[n].set)
  BY <1>2, <1>3, MarkedFacts
<1>6. requiredCount' \in Nat
  <2>1. XorCount(s) \in Nat
    BY <1>1, <1>3, <1>4, CountFacts
  <2>2. requiredCount \in Nat
    BY DEF Typed
  <2> QED
    BY <1>2, <2>1, <2>2
<1>7. i' \in 1 .. Len(args') + 1 /\ pos' \in 1 .. Len(argList') + 1
  <2>1. args' = args /\ argList' = argList
    BY <1>2 DEF definition
  <2>2. j \in Nat
    BY <1>1, <1>4
  <2> QED
    BY <1>1, <1>2, <1>4, <2>1, <2>2
<1>8. ArgsOf' = ArgsOf /\ UNCHANGED definition
  BY <1>2 DEF definition, ArgsOf
<1>9. ignoreRest' \in BOOLEAN
  BY <1>2 DEF Typed
<1> QED
  BY <1>2, <1>5, <1>6, <1>7, <1>8, <1>9 DEF Typed, definition

\* The word goes on to the next argument.
LEMMA PassedTyped ==
  ASSUME Typed, Offered, Passed, args' \in Seq(Words), Len(args') = Len(args),
         DOMAIN st' = DOMAIN st,
         \A n \in DOMAIN st : st'[n] \in StateType /\ (st'[n].xorSet => st'[n].set)
  PROVE  Typed'
<1>1. pos' = pos + 1 /\ UNCHANGED <<definition, i, requiredCount, ignoreRest, pc>>
  BY DEF Passed
<1>2. /\ pos \in Nat /\ pos <= Len(argList) /\ Len(argList) \in Nat /\ pos >= 1
  BY DEF Typed, Offered
<1>3. pos' \in 1 .. Len(argList) + 1
  BY <1>1, <1>2
<1>4. ArgsOf' = ArgsOf
  BY <1>1 DEF definition, ArgsOf
<1> QED
  BY <1>1, <1>3, <1>4 DEF Typed, definition

LEMMA LettersTyped ==
  ASSUME Typed, NEW v, TakesLetters(v)
  PROVE  /\ Typed' /\ args' \in Seq(Words) /\ Len(args') = Len(args) /\ args'[i] = Blanked
         /\ \A k \in DOMAIN args \ {i} : args'[k] = args[k]
<1>1. /\ Offered /\ v \in Seq(Texts) /\ combinedSwitchesMatch /\ Passed
      /\ args' = [args EXCEPT ![i] = Blanked] /\ st' = Set(v)
  BY DEF TakesLetters
<1>2. args \in Seq(Words) /\ i \in DOMAIN args /\ Blanked \in Words
  BY <1>1, OfferFacts, LettersFacts DEF Typed
<1>3. /\ args' \in Seq(Words) /\ Len(args') = Len(args) /\ args'[i] = Blanked
      /\ \A k \in DOMAIN args \ {i} : args'[k] = args[k]
  BY <1>1, <1>2
<1>4. /\ DOMAIN st' = DOMAIN st
      /\ \A n \in DOMAIN st : st'[n] \in StateType /\ (st'[n].xorSet => st'[n].set)
  BY <1>1, SetFacts
<1> QED
  BY <1>1, <1>3, <1>4, PassedTyped

LEMMA ResetTyped == ASSUME Typed, reset PROVE Typed'
<1>1. /\ pc' = "adding" /\ args' = <<>> /\ i' = 1 /\ pos' = 1 /\ requiredCount' = 0
      /\ st' = [n \in DOMAIN st |-> AfterReset(CHOOSE b \in ToSet(argList) : b.name = n)]
      /\ UNCHANGED <<definition, ignoreRest>>
  BY DEF reset
<1>2. ASSUME NEW b \in ArgsOf
      PROVE  AfterReset(b) \in StateType /\ (AfterReset(b).xorSet => AfterReset(b).set)
  <2>1. b \in Arguments /\ st[b.name] \in StateType /\ (st[b.name].xorSet => st[b.name].set)
    <3>1. argList \in Seq(Arguments)
      BY DEF Typed
    <3>2. ArgsOf \subseteq Arguments
      BY <3>1 DEF ArgsOf, ToSet
    <3> QED
      BY <3>2 DEF Typed
  <2>2. <<>> \in Seq(Texts) /\ StartVals(b) \in Seq(Texts)
    <3>1. b.default \in Texts
      BY <2>1 DEF Arguments
    <3> QED
      BY <3>1 DEF StartVals
  <2>3. CASE b.kind = "multiSwitch"
    BY <2>1, <2>2, <2>3 DEF AfterReset, StateType
  <2>4. CASE b.kind # "multiSwitch"
    <3>1. StartState(b) \in StateType /\ ~StartState(b).xorSet /\ st[b.name].more \in BOOLEAN
      BY <2>1, <2>2 DEF StartState, StateType
    <3> QED
      BY <2>4, <3>1 DEF AfterReset, StateType
  <2> QED
    BY <2>3, <2>4
<1>3. \A n \in DOMAIN st : (CHOOSE b \in ToSet(argList) : b.name = n) \in ArgsOf
  BY DEF Typed, ArgsOf
<1>4. /\ DOMAIN st' = DOMAIN st
      /\ \A n \in DOMAIN st : st'[n] \in StateType /\ (st'[n].xorSet => st'[n].set)
  <2>1. DOMAIN st' = DOMAIN st /\ \A n \in DOMAIN st :
          st'[n] = AfterReset(CHOOSE b \in ToSet(argList) : b.name = n)
    BY <1>1
  <2> QED
    BY <1>2, <1>3, <2>1
<1>5. /\ args' \in Seq(Words) /\ i' \in 1 .. Len(args') + 1 /\ pos' \in 1 .. Len(argList) + 1
      /\ requiredCount' \in Nat
  <2>1. Len(argList) \in Nat
    BY DEF Typed
  <2> QED
    BY <1>1, <2>1
<1>6. ArgsOf' = ArgsOf
  BY <1>1 DEF definition, ArgsOf
<1> QED
  BY <1>1, <1>4, <1>5, <1>6 DEF Typed, definition

LEMMA UnmatchedTyped == ASSUME Typed, Unmatched PROVE Typed'
<1>1. /\ i \in Nat /\ i >= 1 /\ i <= Len(args) /\ Len(args) \in Nat /\ Len(argList) \in Nat
  BY DEF Typed, Unmatched
<1>2. CASE Fail
  BY <1>2 DEF Fail, failure, Toward, Typed, definition, ArgsOf
<1>3. CASE ~Fail
  <2>1. /\ i' = i + 1 /\ pos' = 1
        /\ UNCHANGED <<definition, st, args, requiredCount, ignoreRest, pc>>
    BY <1>3 DEF Unmatched
  <2>2. i' \in 1 .. Len(args) + 1 /\ pos' \in 1 .. Len(argList) + 1
    BY <1>1, <2>1
  <2>3. ArgsOf' = ArgsOf
    BY <2>1 DEF definition, ArgsOf
  <2> QED
    BY <2>1, <2>2, <2>3 DEF Typed, definition
<1> QED
  BY <1>2, <1>3

\* Steps that change pc only.
Settles == \E next \in {"specError", "accepted", "exit0", "exit1"} : Toward(next)

LEMMA EndsSettle ==
  /\ Leaves => Settles
  /\ RefuseArg => Settles
  /\ EndOfLine => Settles
BY DEF Leaves, RefuseArg, EndOfLine, missingArgsException, Fail, failure, Settles

LEMMA StepTyped == Typed /\ ListInv /\ [Next]_vars => Typed' /\ ListInv'
<1> SUFFICES ASSUME Typed, ListInv, [Next]_vars PROVE Typed' /\ ListInv'
  OBVIOUS
<1>1. CASE Settles \/ UNCHANGED vars
  <2>1. Typed'
    BY <1>1 DEF Settles, Toward, Typed, definition, ArgsOf, vars
  <2>2. UNCHANGED definition
    BY <1>1 DEF Settles, Toward, vars
  <2> QED
    BY <2>1, <2>2, ListKept
<1>2. CASE add
  BY <1>2, AddTyped
<1>3. CASE Parse
  BY <1>3, ParseTyped, ListKept DEF Parse
<1>4. CASE Passes
  <2>1. Typed'
    BY <1>4, PassedTyped DEF Passes, Typed
  <2> QED
    BY <1>4, <2>1, ListKept DEF Passes, Passed
<1>5. ASSUME NEW v \in Seq(Texts), TakesLetters(v) PROVE Typed' /\ ListInv'
  <2>1. UNCHANGED definition
    BY <1>5 DEF TakesLetters, Passed
  <2> QED
    BY <1>5, <2>1, LettersTyped, ListKept
<1>6. ASSUME NEW v \in Seq(Texts), NEW j \in Nat, NEW units, Takes(v, j, units)
      PROVE  Typed' /\ ListInv'
  <2>1. UNCHANGED definition
    BY <1>6 DEF Takes, Took
  <2> QED
    BY <1>6, <2>1, TakesTyped, ListKept
<1>7. CASE Unmatched
  <2>1. UNCHANGED definition
    BY <1>7 DEF Unmatched, Fail, failure, Toward
  <2> QED
    BY <1>7, <2>1, UnmatchedTyped, ListKept
<1>8. CASE reset
  <2>1. UNCHANGED definition
    BY <1>8 DEF reset
  <2> QED
    BY <1>8, <2>1, ResetTyped, ListKept
<1>9. CASE processArg
  BY <1>1, <1>4, <1>5, <1>6, <1>9, EndsSettle, ProcessCases
<1> QED
  BY <1>1, <1>2, <1>3, <1>7, <1>8, <1>9, EndsSettle DEF Next

\* At every moment of a run the variables hold what they should: parsing stays
\* within the line and the list of arguments, and the states of the arguments are of
\* the arguments on the list (CmdLine::add, parse, Arg::processArg, reset).
THEOREM TypeCorrect == Spec => []TypeOK
<1>1. Typed /\ ListInv => TypeOK
  BY DEF Typed, TypeOK, ArgsOf
<1> QED
  BY <1>1, InitTyped, StepTyped, PTL DEF Spec

-----------------------------------------------------------------------------
(* Each word is taken once. *)

LEMMA Untouched == ASSUME NEW T, NEW k PROVE LettersTaken(T, k, {}) <=> TakenOf(T, k) = {}
<1>1. \A o : {<<k, l, o[l]>> : l \in {}} = {}
  OBVIOUS
<1>2. [l \in {} |-> l] \in [{} -> Texts]
  OBVIOUS
<1> QED
  BY <1>1, <1>2 DEF LettersTaken

\* What is taken of a word leaves the others alone.
LEMMA OtherWord ==
  ASSUME NEW T, NEW U, NEW k, \A u \in U : u[1] # k
  PROVE  TakenOf(T \cup U, k) = TakenOf(T, k)
BY DEF TakenOf

\* The letters taken before and those taken now are all of the blanks.
LEMMA LettersJoin ==
  ASSUME NEW T, NEW U, NEW k, NEW S, NEW L, NEW n \in Texts, LettersTaken(T, k, S),
         S \cap L = {}, U = {<<k, l, n>> : l \in L}
  PROVE  LettersTaken(T \cup U, k, S \cup L)
<1>1. PICK o \in [S -> Texts] : TakenOf(T, k) = {<<k, l, o[l]>> : l \in S}
  BY DEF LettersTaken
<1> DEFINE q == [l \in S \cup L |-> IF l \in L THEN n ELSE o[l]]
<1>2. q \in [S \cup L -> Texts]
  OBVIOUS
<1>3. TakenOf(T \cup U, k) = TakenOf(T, k) \cup U
  <2>1. \A u \in U : u[1] = k
    OBVIOUS
  <2> QED
    BY <2>1 DEF TakenOf
<1>4. /\ \A l \in S : <<k, l, q[l]>> = <<k, l, o[l]>>
      /\ \A l \in L : <<k, l, q[l]>> = <<k, l, n>>
  OBVIOUS
<1> HIDE DEF q
<1>5. TakenOf(T, k) \cup U = {<<k, l, q[l]>> : l \in S \cup L}
  <2>1. \A u \in TakenOf(T, k) \cup U : \E l \in S \cup L : u = <<k, l, q[l]>>
    BY <1>1, <1>4
  <2>2. \A l \in S \cup L : <<k, l, q[l]>> \in TakenOf(T, k) \cup U
    BY <1>1, <1>4
  <2> QED
    BY <2>1, <2>2
<1> QED
  BY <1>2, <1>3, <1>5 DEF LettersTaken

\* The letters that the argument takes were not blanks, and are now.
LEMMA NewLetters ==
  ASSUME Typed, ListInv, WordInv, Offered, t.kind = "letters"
  PROVE  LettersTaken(taken \cup Units(i, Letters), i, Blanks(t) \cup Letters)
<1>1. i \in DOMAIN args /\ i \in Nat /\ a.name \in Texts /\ t = args[i] /\ a.flag # Blank
  BY OfferFacts DEF Arguments, t, ListInv
<1>2. LettersTaken(taken, i, Blanks(t))
  <2>1. i >= i
    BY <1>1
  <2> QED
    BY <1>1, <2>1 DEF WordInv
<1>3. Blanks(t) \cap Letters = {}
  BY <1>1 DEF Blanks, Letters
<1>4. Units(i, Letters) = {<<i, l, a.name>> : l \in Letters}
  BY DEF Units
<1> QED
  BY <1>1, <1>2, <1>3, <1>4, LettersJoin

LEMMA TakesWord ==
  ASSUME Typed, ListInv, WordInv, NEW v, NEW j, NEW units, Takes(v, j, units)
  PROVE  WordInv'
<1>1. /\ Offered /\ j \in {i, i + 1} /\ j <= Len(args) /\ Took(Set(v), j, units)
      /\ ~Clash(Set(v))
      /\ \/ Blanks(t) = {} /\ units = Units(i, {0}) \cup Units(j, {0})
         \/ /\ j = i /\ t.kind = "letters" /\ units = Units(i, Letters)
            /\ Blanks(t) \cup Letters = DOMAIN t.of
  BY DEF Takes
<1>2. /\ i' = j + 1 /\ taken' = taken \cup units /\ UNCHANGED <<args, pc, dropped>>
      /\ pc = "parsing"
  BY <1>1 DEF Took, Offered
<1>3. /\ i \in Nat /\ Len(args) \in Nat /\ DOMAIN args = 1 .. Len(args) /\ t = args[i]
      /\ i \in DOMAIN args /\ a.name \in Texts
  BY <1>1, OfferFacts DEF Arguments, t, Typed
<1>4. /\ \A u \in units : u[1] = i \/ u[1] = j
  BY <1>1 DEF Units
<1>5. j \in Nat /\ j >= i
  BY <1>1, <1>3
<1>6. Settled(taken', dropped', i, args'[i])
  <2>1. CASE Blanks(t) = {} /\ units = Units(i, {0}) \cup Units(j, {0})
    <3>1. TakenOf(taken, i) = {}
      <4>1. i >= i
        BY <1>3
      <4> QED
        BY <1>3, <2>1, <4>1, Untouched DEF WordInv
    <3>2. TakenOf(taken', i) = {<<i, 0, a.name>>}
      <4>1. \A u \in units : u[1] = i <=> u = <<i, 0, a.name>>
        BY <2>1 DEF Units
      <4>2. <<i, 0, a.name>> \in units /\ <<i, 0, a.name>>[1] = i
        BY <2>1 DEF Units
      <4> QED
        BY <1>2, <3>1, <4>1, <4>2 DEF TakenOf
    <3> QED
      BY <1>3, <3>2 DEF Settled
  <2>2. CASE /\ t.kind = "letters" /\ units = Units(i, Letters)
             /\ Blanks(t) \cup Letters = DOMAIN t.of
    <3>1. LettersTaken(taken', i, DOMAIN t.of)
      BY <1>1, <1>2, <2>2, NewLetters
    <3> QED
      BY <1>2, <1>3, <2>2, <3>1 DEF Settled
  <2> QED
    BY <1>1, <2>1, <2>2
<1>7. j # i => Settled(taken', dropped', j, args'[j])
  <2> SUFFICES ASSUME j # i PROVE Settled(taken', dropped', j, args'[j])
    OBVIOUS
  <2>1. j > i /\ j \in DOMAIN args
    BY <1>1, <1>3, <1>5
  <2>2. units = Units(i, {0}) \cup Units(j, {0})
    BY <1>1
  <2>3. TakenOf(taken, j) = {}
    BY <1>3, <1>5, <2>1, Untouched DEF WordInv
  <2>4. TakenOf(taken', j) = {<<j, 0, a.name>>}
    <3>1. \A u \in units : u[1] = j <=> u = <<j, 0, a.name>>
      BY <2>2 DEF Units
    <3>2. <<j, 0, a.name>> \in units /\ <<j, 0, a.name>>[1] = j
      BY <2>2 DEF Units
    <3> QED
      BY <1>2, <2>3, <3>1, <3>2 DEF TakenOf
  <2> QED
    BY <1>3, <2>4 DEF Settled
<1>8. \A k \in DOMAIN args : k # i /\ k # j => TakenOf(taken', k) = TakenOf(taken, k)
  <2> SUFFICES ASSUME NEW k, k # i, k # j PROVE TakenOf(taken', k) = TakenOf(taken, k)
    OBVIOUS
  <2>1. \A u \in units : u[1] # k
    BY <1>4
  <2> QED
    BY <1>2, <2>1, OtherWord
<1>9. ASSUME NEW k \in DOMAIN args, k < i' PROVE Settled(taken', dropped', k, args'[k])
  <2>1. k = i \/ k = j \/ k < i
    BY <1>1, <1>2, <1>3, <1>5, <1>9
  <2>2. CASE k < i
    <3>1. k # i /\ k # j
      BY <1>3, <1>5, <2>2
    <3>2. TakenOf(taken', k) = TakenOf(taken, k) /\ Settled(taken, dropped, k, args[k])
      BY <1>8, <2>2, <3>1 DEF WordInv
    <3> QED
      BY <1>2, <3>2 DEF Settled, LettersTaken
  <2> QED
    BY <1>6, <1>7, <2>1, <2>2
<1>10. ASSUME NEW k \in DOMAIN args, k >= i'
       PROVE  LettersTaken(taken', k, Blanks(args'[k])) /\ Blanks(args'[k]) = {}
  <2>1. k > i /\ k # j
    BY <1>2, <1>3, <1>5, <1>10
  <2>2. k >= i
    BY <1>3, <2>1
  <2>3. Blanks(args[k]) = {} /\ LettersTaken(taken, k, Blanks(args[k]))
    BY <2>1, <2>2 DEF WordInv
  <2>4. TakenOf(taken', k) = TakenOf(taken, k)
    BY <1>3, <1>8, <2>1
  <2> QED
    BY <1>2, <2>3, <2>4 DEF LettersTaken
<1>11. \A k \in DOMAIN args : k > i' => k >= i'
  BY <1>2, <1>3, <1>5
<1>12. i' >= i'
  BY <1>2, <1>5
<1> QED
  BY <1>2, <1>9, <1>10, <1>11, <1>12 DEF WordInv

LEMMA TakesLettersOfWord ==
  ASSUME Typed, ListInv, WordInv, NEW v, TakesLetters(v)
  PROVE  WordInv'
<1>1. /\ Offered /\ ~ignoreRest /\ combinedSwitchesMatch /\ t.kind = "letters" /\ pc = "parsing"
      /\ taken' = taken \cup Units(i, Letters)
      /\ UNCHANGED <<i, ignoreRest, pc, dropped>>
  BY DEF TakesLetters, Passed, combinedSwitchesMatch, Offered
<1>2. /\ i \in Nat /\ i \in DOMAIN args /\ t = args[i] /\ Blanks(Blanked) = Blanks(t) \cup Letters
      /\ DOMAIN args = 1 .. Len(args)
  BY <1>1, OfferFacts, LettersFacts DEF t, Typed
<1>3. /\ DOMAIN args' = DOMAIN args /\ args'[i] = Blanked
      /\ \A k \in DOMAIN args \ {i} : args'[k] = args[k]
  <2>1. args' \in Seq(Words) /\ Len(args') = Len(args)
    BY LettersTyped
  <2> QED
    BY <1>2, <2>1, LettersTyped
<1>4. LettersTaken(taken', i, Blanks(args'[i]))
  BY <1>1, <1>2, <1>3, NewLetters
<1>5. \A k \in DOMAIN args : k # i => TakenOf(taken', k) = TakenOf(taken, k)
  <2> SUFFICES ASSUME NEW k, k # i PROVE TakenOf(taken', k) = TakenOf(taken, k)
    OBVIOUS
  <2>1. \A u \in Units(i, Letters) : u[1] # k
    BY DEF Units
  <2> QED
    BY <1>1, <2>1, OtherWord
<1>6. ASSUME NEW k \in DOMAIN args, k < i PROVE Settled(taken', dropped', k, args'[k])
  <2>1. k # i
    BY <1>2, <1>6
  <2>2. TakenOf(taken', k) = TakenOf(taken, k) /\ args'[k] = args[k]
    BY <1>3, <1>5, <2>1
  <2>3. Settled(taken, dropped, k, args[k])
    BY <1>6 DEF WordInv
  <2> QED
    BY <1>1, <2>2, <2>3 DEF Settled, LettersTaken
<1>7. ASSUME NEW k \in DOMAIN args, k > i
      PROVE  LettersTaken(taken', k, Blanks(args'[k])) /\ Blanks(args'[k]) = {}
  <2>1. k # i /\ k >= i
    BY <1>2, <1>7
  <2>2. TakenOf(taken', k) = TakenOf(taken, k) /\ args'[k] = args[k]
    BY <1>3, <1>5, <2>1
  <2>3. Blanks(args[k]) = {} /\ LettersTaken(taken, k, Blanks(args[k]))
    BY <1>7, <2>1 DEF WordInv
  <2> QED
    BY <2>2, <2>3 DEF LettersTaken
<1>8. \A k \in DOMAIN args : k >= i => k = i \/ k > i
  BY <1>2
<1> QED
  BY <1>1, <1>3, <1>4, <1>6, <1>7, <1>8 DEF WordInv

\* A word that no argument took has no blanks, or has nothing left.
LEMMA DropsWord == ASSUME Typed, WordInv, Unmatched PROVE WordInv'
<1>1. CASE Fail
  BY <1>1 DEF Fail, failure, Toward, WordInv
<1>2. CASE ~Fail
  <2>1. /\ _emptyCombined \/ ignoreRest
        /\ i' = i + 1 /\ dropped' = dropped \cup {i} /\ UNCHANGED <<args, ignoreRest, pc, taken>>
        /\ pc = "parsing" /\ i <= Len(args)
    BY <1>2 DEF Unmatched
  <2>2. i \in Nat /\ i \in DOMAIN args /\ t = args[i] /\ DOMAIN args = 1 .. Len(args)
    <3>1. i \in 1 .. Len(args) + 1 /\ Len(args) \in Nat /\ DOMAIN args = 1 .. Len(args)
      BY DEF Typed
    <3> QED
      BY <2>1, <3>1 DEF t
  <2>3. LettersTaken(taken, i, Blanks(t))
    <3>1. i >= i
      BY <2>2
    <3> QED
      BY <2>2, <3>1 DEF WordInv
  <2>4. Settled(taken, dropped', i, args[i])
    <3>1. CASE Blanks(t) = {}
      <4>1. TakenOf(taken, i) = {}
        BY <2>3, <3>1, Untouched
      <4> QED
        BY <2>1, <4>1 DEF Settled
    <3>2. CASE Blanks(t) # {}
      <4>1. t.kind = "letters" /\ lastCombined(t)
        BY <2>1, <2>2, <3>2 DEF _emptyCombined, WordInv, Blanks
      <4>2. Blanks(t) = DOMAIN t.of
        BY <4>1 DEF Blanks, lastCombined
      <4> QED
        BY <2>2, <2>3, <4>1, <4>2 DEF Settled
    <3> QED
      BY <3>1, <3>2
  <2>5. ASSUME NEW k \in DOMAIN args, k < i' PROVE Settled(taken', dropped', k, args'[k])
    <3>1. k = i \/ k < i
      BY <2>1, <2>2, <2>5
    <3> QED
      BY <2>1, <2>4, <3>1 DEF WordInv, Settled
  <2>6. \A k \in DOMAIN args : (k >= i' => k > i /\ k >= i) /\ (k > i' => k > i)
    BY <2>1, <2>2
  <2>7. i' > i
    BY <2>1, <2>2
  <2> QED
    BY <2>1, <2>5, <2>6, <2>7 DEF WordInv
<1> QED
  BY <1>1, <1>2

LEMMA StartsLine == ASSUME Typed, Parse PROVE WordInv'
<1>1. /\ taken' = {} /\ i' = 1 /\ pc' = "parsing" /\ args' \in Seq(Words)
      /\ \A k \in DOMAIN args' : Blanks(args'[k]) = {}
  BY ParseFacts DEF Parse
<1>2. \A k \in DOMAIN args' : ~(k < i') 
  BY <1>1
<1>3. \A k : LettersTaken(taken', k, {})
  BY <1>1, Untouched DEF TakenOf
<1> QED
  BY <1>1, <1>2, <1>3 DEF WordInv

LEMMA StepWords == Typed /\ ListInv /\ WordInv /\ [Next]_vars => WordInv'
<1> SUFFICES ASSUME Typed, ListInv, WordInv, [Next]_vars PROVE WordInv'
  OBVIOUS
<1>1. CASE UNCHANGED <<args, i, ignoreRest, taken, dropped>> /\ pc' # "accepted"
  BY <1>1 DEF WordInv
<1>2. CASE Leaves \/ RefuseArg
  BY <1>1, <1>2 DEF Leaves, RefuseArg, Toward
<1>3. CASE EndOfLine
  <2>1. i > Len(args) /\ UNCHANGED <<args, i, ignoreRest, taken, dropped>>
    BY <1>3 DEF EndOfLine, missingArgsException, Fail, failure, Toward
  <2> QED
    BY <2>1 DEF WordInv
<1>4. CASE add
  BY <1>1, <1>4 DEF add, Adding
<1>5. CASE Passes
  BY <1>1, <1>5 DEF Passes, Passed, Offered
<1>6. CASE reset
  <2>1. args' = <<>> /\ pc' = "adding"
    BY <1>6 DEF reset
  <2> QED
    BY <2>1 DEF WordInv
<1>7. CASE UNCHANGED vars
  BY <1>7 DEF vars, WordInv
<1>8. CASE processArg
  BY <1>2, <1>5, <1>8, ProcessCases, TakesWord, TakesLettersOfWord
<1>9. CASE Parse
  BY <1>9, StartsLine
<1>10. CASE Unmatched
  BY <1>10, DropsWord
<1> QED
  BY <1>2, <1>3, <1>4, <1>6, <1>7, <1>8, <1>9, <1>10 DEF Next

\* In a line that is accepted, each word is taken once, by one argument or letter by
\* letter, or it was dropped (processArg of each class, the letters that a switch
\* blanks, CmdLine::_emptyCombined).
THEOREM WordsTakenOnce == Spec => []TakenOnce
<1>1. Init => WordInv
  BY DEF Init, WordInv
<1>2. ASSUME Typed, WordInv PROVE TakenOnce
  <2> SUFFICES ASSUME pc = "accepted", NEW k \in DOMAIN args
               PROVE  LET of == {u \in taken : u[1] = k} IN
                      \/ Cardinality(of) = 1 /\ \A u \in of : u[2] = 0
                      \/ /\ args[k].kind = "letters" /\ {u[2] : u \in of} = DOMAIN args[k].of
                         /\ Cardinality(of) = Len(args[k].of)
                      \/ of = {} /\ k \in dropped
    BY DEF TakenOnce
  <2> DEFINE U == TakenOf(taken, k)
  <2>1. U = {u \in taken : u[1] = k}
    BY DEF TakenOf
  <2>2. Settled(taken, dropped, k, args[k]) /\ args[k] \in Words
    <3>1. i \in Nat /\ Len(args) \in Nat /\ k \in 1 .. Len(args) /\ args \in Seq(Words)
      BY <1>2 DEF Typed
    <3>2. i > Len(args)
      BY <1>2 DEF WordInv
    <3>3. k < i
      BY <3>1, <3>2
    <3> QED
      BY <1>2, <3>1, <3>3 DEF WordInv
  <2>3. ASSUME NEW n \in Texts, U = {<<k, 0, n>>}
        PROVE  Cardinality(U) = 1 /\ \A u \in U : u[2] = 0
    <3> HIDE DEF U
    <3>1. Cardinality({<<k, 0, n>>}) = 1
      BY FS_Singleton
    <3>2. \A u \in U : u = <<k, 0, n>>
      BY <2>3
    <3> QED
      BY <2>3, <3>1, <3>2
  <2>4. ASSUME args[k].kind = "letters", LettersTaken(taken, k, DOMAIN args[k].of)
        PROVE  {u[2] : u \in U} = DOMAIN args[k].of /\ Cardinality(U) = Len(args[k].of)
    <3> DEFINE D == DOMAIN args[k].of
    <3>1. args[k].of \in Seq(Texts)
      BY <2>2, <2>4 DEF Words
    <3>2. D = 1 .. Len(args[k].of) /\ Len(args[k].of) \in Nat
      BY <3>1
    <3>3. PICK o \in [D -> Texts] : U = {<<k, l, o[l]>> : l \in D}
      BY <2>4 DEF LettersTaken
    <3> HIDE DEF U, D
    <3>4. {u[2] : u \in U} = D
      <4>1. \A l \in D : <<k, l, o[l]>> \in U /\ <<k, l, o[l]>>[2] = l
        BY <3>3
      <4>2. \A u \in U : u[2] \in D
        BY <3>3
      <4> QED
        BY <4>1, <4>2
    <3>5. Cardinality(U) = Cardinality(D)
      <4> DEFINE f == [l \in D |-> <<k, l, o[l]>>]
      <4>1. f \in [D -> U] /\ \A u \in U : \E l \in D : f[l] = u
        BY <3>3
      <4>2. \A l, m \in D : f[l] = f[m] => l = m
        OBVIOUS
      <4> HIDE DEF f
      <4>3. f \in Bijection(D, U)
        BY <4>1, <4>2 DEF Bijection, Injection, Surjection, IsInjective
      <4>4. IsFiniteSet(D)
        BY <3>2, FS_Interval
      <4>5. ExistsBijection(D, U)
        BY <4>3 DEF ExistsBijection
      <4> QED
        BY <4>4, <4>5, FS_Bijection
    <3>6. Cardinality(D) = Len(args[k].of)
      <4>1. \A n \in Nat : Cardinality(1 .. n) = n
        BY FS_Interval
      <4> QED
        BY <3>2, <4>1
    <3> QED
      BY <3>4, <3>5, <3>6 DEF D
  <2> QED
    BY <2>1, <2>2, <2>3, <2>4 DEF Settled
<1> QED
  BY <1>1, <1>2, InitTyped, StepTyped, StepWords, PTL DEF Spec

-----------------------------------------------------------------------------
(* What is counted. *)

LEMMA GroupOf ==
  ASSUME NEW b \in ArgsOf, NEW c \in Group(b)
  PROVE  c \in ArgsOf /\ c.group # 0 /\ b.group = c.group /\ Group(c) = Group(b) /\ b \in Group(c)
BY DEF Group, ArgsOf

\* Only the argument that takes a word or letters of it is given now.
LEMMA GivenGrows ==
  ASSUME Typed, ListInv, Offered, NEW U, U # {}, \A u \in U : u[3] = a.name,
         taken' = taken \cup U
  PROVE  \A b \in ArgsOf : Given(b)' <=> Given(b) \/ b = a
<1>1. a \in ArgsOf
  BY OfferFacts
<1>2. ASSUME NEW b \in ArgsOf PROVE Given(b)' <=> Given(b) \/ b = a
  <2>1. Given(b)' <=> \E u \in taken \cup U : u[3] = b.name
    BY DEF Given
  <2>2. b.name = a.name <=> b = a
    BY <1>1 DEF ListInv
  <2> QED
    BY <2>1, <2>2 DEF Given
<1> QED
  BY <1>2

\* The argument that takes the word has not been marked by another of its xor list,
\* none of which has been given; it marks them.
LEMMA TakesAlone ==
  ASSUME Typed, ListInv, XorSwitchless, XorInv, NEW v, NEW j, NEW units, Takes(v, j, units)
  PROVE  /\ \A c \in Others(a) : ~Given(c) /\ c \in ArgsOf /\ c # a
         /\ \A b \in ArgsOf \ {a} :
              /\ st'[b.name].set = (b \in Others(a) \/ st[b.name].set)
              /\ st'[b.name].xorSet = (b \in Others(a) \/ st[b.name].xorSet)
              /\ st'[b.name].vals = st[b.name].vals /\ st'[b.name].more = st[b.name].more
         /\ st'[a.name].set /\ ~st'[a.name].xorSet /\ st'[a.name].vals = v
         /\ a.group # 0 => st'[a.name].more = AllowsMore(a)
         /\ \A c \in Others(a) : ~IsSet(st, c)
<1>1. /\ Offered /\ v \in Seq(Texts) /\ ~Clash(Set(v))
      /\ a.kind \notin Multiple \cup {"multiSwitch"} => ~st[a.name].set
      /\ st' = XorMarked(Set(v))
  BY DEF Takes, Took
<1>2. /\ a \in ArgsOf /\ a.name \in DOMAIN st /\ \A b \in ArgsOf : b.name \in DOMAIN st
      /\ \A b \in ArgsOf : b.name = a.name => b = a
  BY <1>1, OfferFacts DEF Typed, ListInv
<1>3. \A c \in Others(a) : c \in ArgsOf /\ c # a /\ c.name # a.name
  BY <1>2 DEF Others, Group, ArgsOf
<1> DEFINE s == Set(v)
<1>4. /\ DOMAIN s = DOMAIN st
      /\ \A n \in DOMAIN s : s[n] \in StateType /\ (s[n].xorSet => s[n].set)
      /\ \A n \in DOMAIN st \ {a.name} : s[n] = st[n]
      /\ s[a.name].set /\ s[a.name].vals = v /\ s[a.name].xorSet = st[a.name].xorSet
  BY <1>1, SetFacts
<1>5. ~Clash(s) /\ st' = XorMarked(s)
  BY <1>1
<1> HIDE DEF s
<1>6. \A c \in Others(a) : ~IsSet(st, c)
  BY <1>2, <1>3, <1>4, <1>5 DEF Clash, IsSet, Others
<1>7. ~st[a.name].xorSet
  <2>1. CASE a.kind \notin Multiple \cup {"multiSwitch"}
    BY <1>1, <1>2, <2>1 DEF Typed
  <2>2. CASE a.kind = "multiSwitch"
    BY <1>2, <2>2 DEF XorSwitchless, XorInv
  <2>3. CASE a.kind \in Multiple
    BY <1>2, <1>6 DEF XorInv
  <2> QED
    BY <2>1, <2>2, <2>3
<1>8. \A b \in ArgsOf : Rivals(b.name) <=> b \in Others(a)
  <2>1. \A b, c \in ArgsOf : b.name = c.name => b = c
    BY DEF ListInv
  <2> QED
    BY <1>3, <2>1 DEF Rivals, Others
<1>9. ~Rivals(a.name)
  BY <1>2, <1>3, <1>8
<1>10. ASSUME NEW b \in ArgsOf
       PROVE  /\ st'[b.name].set = (b \in Others(a) \/ s[b.name].set)
              /\ st'[b.name].xorSet = (b \in Others(a) \/ s[b.name].xorSet)
              /\ st'[b.name].vals = s[b.name].vals
              /\ b # a => st'[b.name].more = s[b.name].more
              /\ b = a /\ a.group # 0 => st'[b.name].more = AllowsMore(a)
  <2>1. b.name \in DOMAIN s
    BY <1>2, <1>4
  <2>2. /\ st'[b.name].vals = s[b.name].vals
        /\ st'[b.name].set = (Rivals(b.name) \/ s[b.name].set)
        /\ st'[b.name].xorSet = (Rivals(b.name) \/ s[b.name].xorSet)
        /\ st'[b.name].more = IF ~Rivals(b.name) /\ b.name = a.name /\ a.group # 0
                              THEN AllowsMore(a) ELSE s[b.name].more
    BY <1>4, <1>5, <2>1, MarkedFacts
  <2> QED
    BY <1>2, <1>8, <1>9, <2>2
<1>11. \A b \in ArgsOf \ {a} : s[b.name] = st[b.name]
  BY <1>2, <1>4
<1>12. /\ st'[a.name].set /\ ~st'[a.name].xorSet /\ st'[a.name].vals = v
       /\ a.group # 0 => st'[a.name].more = AllowsMore(a)
  BY <1>2, <1>3, <1>4, <1>7, <1>10
<1>13. \A c \in Others(a) : ~Given(c)
  BY <1>3, <1>6 DEF XorInv
<1> QED
  BY <1>3, <1>6, <1>10, <1>11, <1>12, <1>13

LEMMA TakesGiven ==
  ASSUME Typed, ListInv, NEW v, NEW j, NEW units, Takes(v, j, units)
  PROVE  \A b \in ArgsOf : Given(b)' <=> Given(b) \/ b = a
<1>1. Offered /\ taken' = taken \cup units
  BY DEF Takes, Took
<1>2. /\ \/ units = Units(i, {0}) \cup Units(j, {0})
         \/ Letters # {} /\ units = Units(i, Letters)
  BY DEF Takes
<1>3. units # {} /\ \A u \in units : u[3] = a.name
  <2>1. ASSUME NEW k, NEW S
        PROVE  (\A u \in Units(k, S) : u[3] = a.name) /\ (S # {} => Units(k, S) # {})
    <3>1. \A u \in Units(k, S) : u[3] = a.name
      BY DEF Units
    <3>2. \A l \in S : <<k, l, a.name>> \in Units(k, S)
      BY DEF Units
    <3> QED
      BY <3>1, <3>2
  <2>2. {0} # {}
    OBVIOUS
  <2> QED
    BY <1>2, <2>1, <2>2
<1> QED
  BY <1>1, <1>3, GivenGrows

LEMMA TakesXor ==
  ASSUME Typed, ListInv, XorSwitchless, XorInv, NEW v, NEW j, NEW units, Takes(v, j, units)
  PROVE  XorInv'
<1>1. /\ Offered /\ v \in Seq(Texts)
      /\ a.kind \in Multiple => Len(v) = Len(st[a.name].vals) + 1
      /\ UNCHANGED definition
  BY DEF Takes, Took
<1>2. a \in ArgsOf /\ st[a.name].vals \in Seq(Texts)
  BY <1>1, OfferFacts DEF Takes
<1>3. ArgsOf' = ArgsOf /\ \A b : Others(b)' = Others(b)
  BY <1>1 DEF ArgsOf, Others, Group, definition
<1>4. a.kind \in Multiple => v # <<>>
  <2> SUFFICES ASSUME a.kind \in Multiple PROVE v # <<>>
    OBVIOUS
  <2>1. Len(v) = Len(st[a.name].vals) + 1
    BY DEF Takes
  <2>2. Len(st[a.name].vals) \in Nat
    BY <1>2
  <2>3. Len(v) # 0
    BY <2>1, <2>2
  <2> QED
    BY <2>3
<1>5. ASSUME NEW b \in ArgsOf, st'[b.name].xorSet
      PROVE  b.group # 0 /\ \E c \in Others(b) : IsSet(st', c)
  <2>1. b # a
    BY <1>5, TakesAlone
  <2>2. CASE b \in Others(a)
    <3>1. b.group # 0 /\ a \in Others(b)
      BY <1>2, <2>1, <2>2, GroupOf DEF Others
    <3>2. IsSet(st', a)
      BY TakesAlone DEF IsSet
    <3> QED
      BY <3>1, <3>2
  <2>3. CASE b \notin Others(a)
    <3>1. st[b.name].xorSet
      BY <1>5, <2>1, <2>3, TakesAlone
    <3>2. PICK c \in Others(b) : IsSet(st, c)
      BY <3>1 DEF XorInv
    <3>3. c \in ArgsOf /\ c \notin Others(a)
      BY <3>2, TakesAlone, GroupOf DEF Others
    <3>4. IsSet(st', c)
      BY <3>2, <3>3, TakesAlone DEF IsSet
    <3> QED
      BY <3>1, <3>4 DEF XorInv
  <2> QED
    BY <2>2, <2>3
<1>6. ASSUME NEW b \in ArgsOf, Given(b)'
      PROVE  /\ IsSet(st', b)
             /\ b.kind \in Multiple => /\ st'[b.name].vals # <<>>
                                       /\ b.group # 0 => st'[b.name].more
  <2>1. CASE b = a
    BY <1>4, <2>1, TakesAlone DEF IsSet, AllowsMore
  <2>2. CASE b # a
    <3>1. Given(b) /\ b \notin Others(a)
      BY <1>6, <2>2, TakesGiven, TakesAlone
    <3>2. /\ IsSet(st, b)
          /\ b.kind \in Multiple => /\ st[b.name].vals # <<>>
                                    /\ b.group # 0 => st[b.name].more
      BY <3>1 DEF XorInv
    <3> QED
      BY <2>2, <3>1, <3>2, TakesAlone DEF IsSet
  <2> QED
    BY <2>1, <2>2
<1> QED
  BY <1>3, <1>5, <1>6 DEF XorInv, IsSet

\* What was counted stays counted: the one given of an xor list stops the others.
LEMMA TakesCounted ==
  ASSUME Typed, ListInv, XorSwitchless, XorInv, NEW v, NEW j, NEW units, Takes(v, j, units)
  PROVE  /\ Counted \subseteq Counted'
         /\ a.group # 0 => Group(a) \subseteq Counted'
         /\ a.required => a \in Counted'
<1>1. UNCHANGED definition /\ a \in ArgsOf
  BY OfferFacts DEF Takes, Took
<1>2. /\ ArgsOf' = ArgsOf /\ Required' = Required
      /\ \A b : Others(b)' = Others(b) /\ Group(b)' = Group(b)
  BY <1>1 DEF ArgsOf, Others, Group, definition, Required
<1>3. ASSUME NEW c \in ArgsOf, Chosen(c), c.group # 0 PROVE Chosen(c)'
  <2>1. c \notin Others(a)
    BY <1>3, TakesAlone DEF Chosen
  <2>2. a \notin Others(c)
    BY <1>1, <1>3, <2>1, GroupOf DEF Others
  <2>3. Given(c)'
    BY <1>3, TakesGiven DEF Chosen
  <2>4. ASSUME NEW d \in Others(c) PROVE st'[d.name].set /\ ~Given(d)'
    <3>1. d \in ArgsOf /\ d # a /\ st[d.name].set /\ ~Given(d)
      BY <1>3, <2>2, <2>4, GroupOf DEF Others, Chosen
    <3> QED
      BY <3>1, TakesGiven, TakesAlone
  <2> QED
    BY <1>2, <2>3, <2>4 DEF Chosen
<1>4. ASSUME NEW b \in Counted PROVE b \in Counted'
  <2>1. b \in Required /\ b \in ArgsOf
    BY DEF Counted, Required
  <2>2. CASE b.group = 0
    BY <1>2, <2>1, <2>2, TakesGiven DEF Counted
  <2>3. CASE b.group # 0
    <3>1. PICK c \in Group(b) : Chosen(c)
      BY <2>3 DEF Counted
    <3>2. c \in ArgsOf /\ c.group # 0
      BY <2>1, GroupOf
    <3>3. Chosen(c)'
      BY <1>3, <3>1, <3>2
    <3> QED
      BY <1>2, <2>1, <2>3, <3>1, <3>3 DEF Counted
  <2> QED
    BY <2>2, <2>3
<1>5. ASSUME a.group # 0 PROVE Group(a) \subseteq Counted'
  <2>1. PICK x \in ArgsOf : x = a
    BY <1>1
  <2>2. Given(x)'
    BY <2>1, TakesGiven
  <2>3. ASSUME NEW c \in Others(x) PROVE st'[c.name].set /\ ~Given(c)'
    BY <2>1, TakesAlone, TakesGiven
  <2>4. Chosen(x)'
    BY <1>2, <2>2, <2>3 DEF Chosen
  <2>5. ASSUME NEW b \in Group(x) PROVE b \in Counted'
    <3>1. b \in ArgsOf /\ b.group # 0 /\ x \in Group(b)
      BY GroupOf
    <3>2. b \in Required
      BY <3>1 DEF ListInv, Required
    <3> QED
      BY <1>2, <2>4, <3>1, <3>2 DEF Counted
  <2> QED
    BY <2>1, <2>5
<1>6. ASSUME a.required PROVE a \in Counted'
  <2>1. CASE a.group = 0
    <3>1. PICK x \in ArgsOf : x = a
      BY <1>1
    <3>2. Given(x)' /\ x \in Required /\ x.group = 0
      BY <1>6, <2>1, <3>1, TakesGiven DEF Required
    <3> QED
      BY <1>2, <3>1, <3>2 DEF Counted
  <2>2. CASE a.group # 0
    BY <1>1, <1>5, <2>2 DEF Group, ArgsOf
  <2> QED
    BY <2>1, <2>2
<1> QED
  BY <1>4, <1>5, <1>6

\* What is added to requiredCount was not counted.
LEMMA TakesCounts ==
  ASSUME Typed, ListInv, XorSwitchless, XorInv, NEW v, NEW j, NEW units, Takes(v, j, units)
  PROVE  \/ XorCount(Set(v)) = 0
         \/ a.group = 0 /\ a.required /\ a \notin Counted /\ XorCount(Set(v)) = 1
         \/ /\ a.group # 0 /\ Group(a) \cap Counted = {}
            /\ XorCount(Set(v)) = Cardinality(Group(a))
<1>1. /\ Offered /\ v \in Seq(Texts) /\ a \in ArgsOf /\ st[a.name].vals \in Seq(Texts)
      /\ a.kind \notin Multiple \cup {"multiSwitch"} => ~st[a.name].set
      /\ a.kind \in Multiple => Len(v) = Len(st[a.name].vals) + 1
  BY OfferFacts DEF Takes
<1>2. Set(v)[a.name].vals = v /\ Set(v)[a.name].more = st[a.name].more
  BY <1>1, SetFacts
<1>3. CASE a.group = 0 /\ isRequired(Set(v))
  <2>1. a.required /\ ~(a.kind \in Multiple /\ Len(v) > 1) /\ XorCount(Set(v)) = 1
    BY <1>2, <1>3 DEF isRequired, XorCount
  <2>2. ASSUME Given(a) PROVE FALSE
    <3>1. IsSet(st, a) /\ (a.kind \in Multiple => st[a.name].vals # <<>>)
      BY <1>1, <2>2 DEF XorInv
    <3>2. a.kind # "multiSwitch"
      BY <1>1, <1>3, <2>1 DEF ListInv
    <3>3. a.kind \in Multiple
      BY <1>1, <3>1, <3>2 DEF IsSet
    <3>4. Len(st[a.name].vals) \in Nat /\ Len(st[a.name].vals) # 0
      BY <1>1, <3>1, <3>3
    <3>5. Len(v) > 1
      BY <1>1, <3>3, <3>4
    <3> QED
      BY <2>1, <3>3, <3>5
  <2> QED
    BY <1>3, <2>1, <2>2 DEF Counted
<1>4. CASE a.group # 0 /\ ~st[a.name].more
  <2>1. XorCount(Set(v)) = Cardinality(Group(a))
    BY <1>2, <1>4 DEF XorCount
  <2>2. ASSUME NEW b \in Group(a), b \in Counted PROVE FALSE
    <3>1. PICK c \in Group(b) : Chosen(c)
      BY <1>1, <2>2, GroupOf DEF Counted
    <3>2. c \in Group(a) /\ Given(c)
      BY <1>1, <3>1, GroupOf DEF Chosen
    <3>3. c = a
      BY <3>2, TakesAlone DEF Others
    <3>4. IsSet(st, a) /\ a.kind \notin Multiple
      BY <1>1, <1>4, <3>2, <3>3 DEF XorInv
    <3>5. a.kind # "multiSwitch"
      BY <1>1, <1>4 DEF XorSwitchless
    <3> QED
      BY <1>1, <3>4, <3>5 DEF IsSet
  <2> QED
    BY <1>4, <2>1, <2>2
<1>5. CASE (a.group = 0 /\ ~isRequired(Set(v))) \/ (a.group # 0 /\ st[a.name].more)
  BY <1>2, <1>5 DEF XorCount
<1> QED
  BY <1>3, <1>4, <1>5

LEMMA CountedFacts ==
  ASSUME Typed
  PROVE  /\ IsFiniteSet(Required) /\ IsFiniteSet(Counted) /\ Counted \subseteq Required
         /\ Cardinality(Counted) \in Nat
<1>1. Required \subseteq ArgsOf /\ Counted \subseteq Required
  BY DEF Required, Counted
<1> QED
  BY <1>1, GroupFacts, FS_Subset, FS_CardinalityType

LEMMA TakesKeepsCount ==
  ASSUME Typed, ListInv, CountInv, NEW v, NEW j, NEW units, Takes(v, j, units)
  PROVE  CountInv'
<1>1. /\ requiredCount' = requiredCount + XorCount(Set(v)) /\ pc' = "parsing"
      /\ UNCHANGED definition
  BY DEF Takes, Took, Offered
<1>2. XorSwitchless' <=> XorSwitchless
  BY <1>1 DEF XorSwitchless, ArgsOf, definition
<1>3. ASSUME XorSwitchless PROVE XorInv' /\ requiredCount' <= Cardinality(Counted')
  <2>1. XorInv /\ requiredCount <= Cardinality(Counted)
    BY <1>3 DEF CountInv
  <2>2. XorInv'
    BY <1>3, <2>1, TakesXor
  <2>3. /\ IsFiniteSet(Counted) /\ Cardinality(Counted) \in Nat /\ IsFiniteSet(Counted')
        /\ Cardinality(Counted') \in Nat /\ requiredCount \in Nat
    <3>1. Counted' \subseteq Required'
      BY DEF Counted
    <3>2. Required' = Required
      BY <1>1 DEF Required, ArgsOf, definition
    <3> QED
      BY <3>1, <3>2, CountedFacts, FS_Subset, FS_CardinalityType DEF Typed
  <2>4. /\ Counted \subseteq Counted'
        /\ a.group # 0 => Group(a) \subseteq Counted'
        /\ a.required => a \in Counted'
    BY <1>3, <2>1, TakesCounted
  <2>5. CASE XorCount(Set(v)) = 0
    <3>1. Cardinality(Counted) <= Cardinality(Counted')
      BY <2>3, <2>4, FS_Subset
    <3>2. requiredCount' = requiredCount
      BY <1>1, <2>3, <2>5
    <3> QED
      BY <2>1, <2>2, <2>3, <3>1, <3>2
  <2>6. CASE a.group = 0 /\ a.required /\ a \notin Counted /\ XorCount(Set(v)) = 1
    <3>1. Cardinality(Counted \cup {a}) = Cardinality(Counted) + 1
      BY <2>3, <2>6, FS_AddElement
    <3>2. Cardinality(Counted \cup {a}) <= Cardinality(Counted')
      <4>1. Counted \cup {a} \subseteq Counted'
        BY <2>4, <2>6
      <4> QED
        BY <2>3, <4>1, FS_Subset
    <3>3. requiredCount' = requiredCount + 1
      BY <1>1, <2>6
    <3> QED
      BY <2>1, <2>2, <2>3, <3>1, <3>2, <3>3
  <2>7. CASE /\ a.group # 0 /\ Group(a) \cap Counted = {}
             /\ XorCount(Set(v)) = Cardinality(Group(a))
    <3>1. IsFiniteSet(Group(a)) /\ Cardinality(Group(a)) \in Nat
      BY GroupFacts, OfferFacts DEF Takes
    <3>2. Cardinality(Counted \cup Group(a)) = Cardinality(Counted) + Cardinality(Group(a))
      <4>1. Cardinality(Counted \cap Group(a)) = 0
        <5>1. Counted \cap Group(a) = {}
          BY <2>7
        <5> QED
          BY <5>1, FS_EmptySet
      <4>2. Cardinality(Counted \cup Group(a))
              = Cardinality(Counted) + Cardinality(Group(a)) - Cardinality(Counted \cap Group(a))
        BY <2>3, <3>1, FS_Union
      <4> QED
        BY <2>3, <3>1, <4>1, <4>2
    <3>3. Cardinality(Counted \cup Group(a)) <= Cardinality(Counted')
      <4>1. Counted \cup Group(a) \subseteq Counted'
        BY <2>4, <2>7
      <4> QED
        BY <2>3, <4>1, FS_Subset
    <3>4. requiredCount' = requiredCount + Cardinality(Group(a))
      BY <1>1, <2>7
    <3> QED
      BY <2>1, <2>2, <2>3, <3>1, <3>2, <3>3, <3>4
  <2> QED
    BY <1>3, <2>1, <2>5, <2>6, <2>7, TakesCounts
<1> QED
  BY <1>1, <1>2, <1>3 DEF CountInv

\* A switch that takes letters of a word adds nothing, and was not given before.
LEMMA LettersKeepCount ==
  ASSUME Typed, ListInv, CountInv, NEW v, TakesLetters(v)
  PROVE  CountInv'
<1>1. /\ Offered /\ v \in Seq(Texts) /\ st' = Set(v) /\ taken' = taken \cup Units(i, Letters)
      /\ requiredCount' = requiredCount /\ pc' = "parsing" /\ UNCHANGED definition
      /\ a.kind \in {"switch", "multiSwitch"} /\ (a.kind = "switch" => ~st[a.name].set)
      /\ combinedSwitchesMatch
  BY DEF TakesLetters, Passed, Offered
<1>2. XorSwitchless' <=> XorSwitchless
  BY <1>1 DEF XorSwitchless, ArgsOf, definition
<1>3. /\ ArgsOf' = ArgsOf /\ Required' = Required
      /\ \A b : Others(b)' = Others(b) /\ Group(b)' = Group(b)
  BY <1>1 DEF ArgsOf, Others, Group, definition, Required
<1>4. PICK x \in ArgsOf : x = a
  BY <1>1, OfferFacts
<1>5. \A b \in ArgsOf : Given(b)' <=> Given(b) \/ b = x
  <2>1. Letters # {}
    BY <1>1, LettersFacts
  <2>2. \A l \in Letters : <<i, l, a.name>> \in Units(i, Letters)
    BY DEF Units
  <2>3. \A u \in Units(i, Letters) : u[3] = a.name
    BY DEF Units
  <2> QED
    BY <1>1, <1>4, <2>1, <2>2, <2>3, GivenGrows
<1>6. /\ \A b \in ArgsOf \ {x} : st'[b.name] = st[b.name]
      /\ st'[x.name].set /\ st'[x.name].xorSet = st[x.name].xorSet
      /\ x.kind \notin Multiple
  <2>1. \A b \in ArgsOf \ {x} : b.name # x.name /\ b.name \in DOMAIN st
    BY DEF ListInv, Typed
  <2> QED
    BY <1>1, <1>4, <2>1, SetFacts DEF Multiple
<1>7. ASSUME XorSwitchless PROVE XorInv' /\ Counted \subseteq Counted'
  <2>1. XorInv
    BY <1>7 DEF CountInv
  <2>2. x.kind = "multiSwitch" => x.group = 0
    BY <1>7 DEF XorSwitchless
  <2>3. ~st[x.name].xorSet
    <3>1. CASE x.kind = "switch"
      BY <1>1, <1>4, <3>1 DEF Typed
    <3>2. CASE x.kind = "multiSwitch"
      BY <2>1, <2>2, <3>2 DEF XorInv
    <3> QED
      BY <1>1, <1>4, <3>1, <3>2
  <2>4. XorInv'
    <3>1. ASSUME NEW b \in ArgsOf, st'[b.name].xorSet
          PROVE  b.group # 0 /\ \E c \in Others(b) : IsSet(st', c)
      <4>1. st[b.name].xorSet
        BY <1>6, <2>3, <3>1
      <4>2. PICK c \in Others(b) : IsSet(st, c)
        BY <2>1, <4>1 DEF XorInv
      <4>3. c \in ArgsOf
        BY <4>2, GroupOf DEF Others
      <4>4. IsSet(st', c)
        BY <1>6, <2>3, <4>2, <4>3 DEF IsSet
      <4> QED
        BY <2>1, <4>1, <4>4 DEF XorInv
    <3>2. ASSUME NEW b \in ArgsOf, Given(b)'
          PROVE  /\ IsSet(st', b)
                 /\ b.kind \in Multiple => /\ st'[b.name].vals # <<>>
                                           /\ b.group # 0 => st'[b.name].more
      <4>1. CASE b = x
        BY <1>6, <2>3, <4>1 DEF IsSet
      <4>2. CASE b # x
        BY <1>5, <1>6, <2>1, <3>2, <4>2 DEF IsSet, XorInv
      <4> QED
        BY <4>1, <4>2
    <3> QED
      BY <1>3, <3>1, <3>2 DEF XorInv, IsSet
  <2>5. ASSUME NEW c \in ArgsOf, Chosen(c), c.group # 0 PROVE Chosen(c)'
    <3>1. Given(c)'
      BY <1>5, <2>5 DEF Chosen
    <3>2. ASSUME NEW d \in Others(c) PROVE st'[d.name].set /\ ~Given(d)'
      <4>1. d \in ArgsOf /\ d.group # 0 /\ st[d.name].set /\ ~Given(d)
        BY <2>5, <3>2, GroupOf DEF Others, Chosen
      <4>2. d # x
        BY <1>1, <1>4, <2>2, <4>1
      <4> QED
        BY <1>5, <1>6, <4>1, <4>2
    <3> QED
      BY <1>3, <3>1, <3>2 DEF Chosen
  <2>6. ASSUME NEW b \in Counted PROVE b \in Counted'
    <3>1. b \in Required /\ b \in ArgsOf
      BY DEF Counted, Required
    <3>2. CASE b.group = 0
      BY <1>3, <1>5, <3>1, <3>2 DEF Counted
    <3>3. CASE b.group # 0
      <4>1. PICK c \in Group(b) : Chosen(c)
        BY <3>3 DEF Counted
      <4>2. c \in ArgsOf /\ c.group # 0
        BY <3>1, GroupOf
      <4>3. Chosen(c)'
        BY <2>5, <4>1, <4>2
      <4> QED
        BY <1>3, <3>1, <3>3, <4>1, <4>3 DEF Counted
    <3> QED
      BY <3>2, <3>3
  <2> QED
    BY <2>4, <2>6
<1>8. ASSUME XorSwitchless PROVE requiredCount' <= Cardinality(Counted')
  <2>1. Counted \subseteq Counted' /\ requiredCount <= Cardinality(Counted)
    BY <1>7, <1>8 DEF CountInv
  <2>2. Counted' \subseteq Required
    BY <1>3 DEF Counted
  <2>3. IsFiniteSet(Counted') /\ requiredCount \in Nat /\ Cardinality(Counted) \in Nat
    BY <2>2, CountedFacts, FS_Subset DEF Typed
  <2>4. Cardinality(Counted) <= Cardinality(Counted') /\ Cardinality(Counted') \in Nat
    BY <2>1, <2>3, FS_Subset, FS_CardinalityType
  <2> QED
    BY <1>1, <2>1, <2>3, <2>4
<1> QED
  BY <1>1, <1>2, <1>7, <1>8 DEF CountInv

\* Nothing taken, nothing counted.
LEMMA EmptyCount == taken' = {} => 0 <= Cardinality(Counted')
<1> SUFFICES ASSUME taken' = {} PROVE 0 <= Cardinality(Counted')
  OBVIOUS
<1>1. \A b : ~Given(b)'
  BY DEF Given
<1>2. Counted' = {}
  BY <1>1 DEF Counted, Chosen
<1> QED
  BY <1>2, FS_EmptySet

\* Before a line is parsed nothing is given, and what has been added is not marked.
LEMMA AddKeepsCount == ASSUME Typed, ListInv, CountInv, add PROVE CountInv'
<1>1. /\ taken = {} /\ taken' = taken /\ requiredCount = 0 /\ requiredCount' = requiredCount
      /\ pc = "adding" /\ pc' = pc
  BY DEF add, Adding, CountInv
<1> DEFINE new == [Added EXCEPT !.required = @ \/ Added.group # 0]
<1>2. /\ st' = [n \in DOMAIN st \cup {new.name} |->
                  IF n = new.name THEN StartState(new) ELSE st[n]]
      /\ argList' = IF new.kind \in Labelled THEN <<new>> \o argList ELSE Append(argList, new)
      /\ \A b \in ToSet(argList) : ~Same(new, b)
  BY DEF add
<1> HIDE DEF new
<1>3. \A b \in ArgsOf : b.name # new.name
  BY <1>2 DEF Same, SameUnlabeled, ArgsOf
<1>4. ArgsOf' = ArgsOf \cup {new}
  <2>1. argList \in Seq(ArgsOf \cup {new}) /\ new \in ArgsOf \cup {new}
    BY DEF Typed, ArgsOf, ToSet
  <2>2. ToSet(argList') = ToSet(argList) \cup {new}
    BY <1>2, <2>1, ListFacts
  <2>3. ArgsOf' = ToSet(argList')
    BY DEF ArgsOf, ToSet
  <2> QED
    BY <2>2, <2>3 DEF ArgsOf
<1>5. /\ \A b \in ArgsOf : st'[b.name] = st[b.name]
      /\ ~st'[new.name].xorSet
  BY <1>2, <1>3 DEF Typed, StartState
<1>6. \A b \in ArgsOf : Others(b) \subseteq Others(b)'
  <2> SUFFICES ASSUME NEW b \in ArgsOf, NEW c \in Others(b) PROVE c \in Others(b)'
    OBVIOUS
  <2>1. /\ c \in ArgsOf /\ c.group # 0 /\ c.group = b.group /\ c # b
    BY DEF Others, Group, ArgsOf
  <2>2. Others(b)' = {d \in ArgsOf' : d.group # 0 /\ d.group = b.group} \ {b}
    BY DEF Others, Group, ArgsOf
  <2> QED
    BY <1>4, <2>1, <2>2
<1>7. ASSUME XorSwitchless' PROVE XorInv'
  <2>1. XorInv
    BY <1>4, <1>7 DEF XorSwitchless, CountInv
  <2>2. ASSUME NEW b \in ArgsOf', st'[b.name].xorSet
        PROVE  b.group # 0 /\ \E c \in Others(b)' : IsSet(st', c)
    <3>1. b \in ArgsOf /\ st[b.name].xorSet
      BY <1>4, <1>5, <2>2
    <3>2. PICK c \in Others(b) : IsSet(st, c)
      BY <2>1, <3>1 DEF XorInv
    <3>3. c \in ArgsOf /\ IsSet(st', c)
      BY <1>5, <3>1, <3>2, GroupOf DEF IsSet, Others
    <3> QED
      BY <1>6, <2>1, <3>1, <3>2, <3>3 DEF XorInv
  <2>3. \A b : ~Given(b)'
    BY <1>1 DEF Given
  <2> QED
    BY <2>2, <2>3 DEF XorInv, IsSet
<1> QED
  BY <1>1, <1>7, EmptyCount DEF CountInv

LEMMA ParseKeepsCount == ASSUME Typed, CountInv, Parse PROVE CountInv'
<1>1. /\ taken' = {} /\ requiredCount' = 0 /\ pc' = "parsing" /\ UNCHANGED <<definition, st>>
  BY DEF Parse
<1>2. /\ ArgsOf' = ArgsOf /\ \A b : Others(b)' = Others(b) /\ ~Given(b)'
      /\ XorSwitchless' <=> XorSwitchless
  BY <1>1 DEF ArgsOf, Others, Group, definition, Given, XorSwitchless
<1>3. XorSwitchless => XorInv'
  BY <1>1, <1>2 DEF CountInv, XorInv, IsSet
<1> QED
  BY <1>1, <1>2, <1>3, EmptyCount DEF CountInv

\* Only a MultiSwitchArg stays set, and it is of no xor list.
LEMMA ResetKeepsCount == ASSUME Typed, ListInv, CountInv, reset PROVE CountInv'
<1>1. /\ taken' = {} /\ requiredCount' = 0 /\ pc' = "adding" /\ UNCHANGED definition
      /\ st' = [n \in DOMAIN st |-> AfterReset(CHOOSE b \in ToSet(argList) : b.name = n)]
  BY DEF reset
<1>2. /\ ArgsOf' = ArgsOf /\ \A b : ~Given(b)'
      /\ XorSwitchless' <=> XorSwitchless
  BY <1>1 DEF ArgsOf, definition, Given, XorSwitchless
<1>3. ASSUME XorSwitchless, NEW b \in ArgsOf PROVE ~st'[b.name].xorSet
  <2>1. b.name \in DOMAIN st
    BY DEF Typed
  <2>2. (CHOOSE c \in ToSet(argList) : c.name = b.name) = b
    BY DEF ListInv, ArgsOf
  <2>3. st'[b.name] = AfterReset(b)
    BY <1>1, <2>1, <2>2
  <2>4. CASE b.kind = "multiSwitch"
    <3>1. ~st[b.name].xorSet /\ st[b.name] \in StateType
      BY <1>3, <2>1, <2>4 DEF CountInv, XorInv, XorSwitchless, Typed
    <3> QED
      BY <2>3, <2>4, <3>1 DEF AfterReset, StateType
  <2>5. CASE b.kind # "multiSwitch"
    BY <2>3, <2>5 DEF AfterReset, StartState
  <2> QED
    BY <2>4, <2>5
<1>4. XorSwitchless => XorInv'
  BY <1>2, <1>3 DEF XorInv
<1> QED
  BY <1>1, <1>2, <1>4, EmptyCount DEF CountInv

LEMMA StepCount == Typed /\ ListInv /\ CountInv /\ [Next]_vars => CountInv'
<1> SUFFICES ASSUME Typed, ListInv, CountInv, [Next]_vars PROVE CountInv'
  OBVIOUS
<1>1. CASE /\ UNCHANGED <<definition, st, requiredCount, taken>>
           /\ pc' = "adding" => pc = "adding"
           /\ pc' = "accepted" => requiredCount = numRequired
  <2>1. /\ ArgsOf' = ArgsOf /\ Required' = Required /\ numRequired' = numRequired
        /\ \A b : Others(b)' = Others(b) /\ Group(b)' = Group(b) /\ (Given(b)' <=> Given(b))
        /\ XorSwitchless' <=> XorSwitchless
    BY <1>1 DEF ArgsOf, Others, Group, definition, Given, XorSwitchless, Required
  <2>2. \A b : Chosen(b)' <=> Chosen(b)
    BY <1>1, <2>1 DEF Chosen
  <2>3. Counted' = Counted
    BY <2>1, <2>2 DEF Counted
  <2>4. XorInv => XorInv'
    BY <1>1, <2>1 DEF XorInv, IsSet
  <2> QED
    BY <1>1, <2>1, <2>3, <2>4 DEF CountInv
<1>2. CASE Leaves \/ RefuseArg
  BY <1>1, <1>2 DEF Leaves, RefuseArg, Toward
<1>3. CASE EndOfLine
  BY <1>1, <1>3 DEF EndOfLine, missingArgsException, Fail, failure, Toward
<1>4. CASE Passes
  BY <1>1, <1>4 DEF Passes, Passed, Offered
<1>5. CASE Unmatched
  BY <1>1, <1>5 DEF Unmatched, Fail, failure, Toward
<1>6. CASE UNCHANGED vars
  BY <1>1, <1>6 DEF vars, CountInv
<1>7. CASE processArg
  BY <1>2, <1>4, <1>7, ProcessCases, TakesKeepsCount, LettersKeepCount
<1>8. CASE add
  BY <1>8, AddKeepsCount
<1>9. CASE Parse
  BY <1>9, ParseKeepsCount
<1>10. CASE reset
  BY <1>10, ResetKeepsCount
<1> QED
  BY <1>2, <1>3, <1>5, <1>6, <1>7, <1>8, <1>9, <1>10 DEF Next

\* A line that is accepted gives every required argument and exactly one of each xor
\* list, of programs without a MultiSwitchArg in an xor list (CmdLine::parse,
\* XorHandler::check, MultiArg::isRequired, allowMore).
THEOREM AcceptedComplete == Spec => []AcceptedIsComplete
<1>1. Init => CountInv
  <2> SUFFICES ASSUME Init PROVE CountInv
    OBVIOUS
  <2>1. /\ taken = {} /\ requiredCount = 0 /\ pc = "adding" /\ argList = Defaults
        /\ st = [n \in {"ignore_rest", "version", "help"} |-> StartState(Defaults[1])]
    BY DEF Init
  <2>2. \A b \in ArgsOf : ~st[b.name].xorSet /\ ~Given(b)
    <3>1. DOMAIN st = {b.name : b \in ArgsOf}
      BY InitTyped DEF Typed
    <3>2. \A n \in DOMAIN st : st[n] = StartState(Defaults[1])
      BY <2>1
    <3> QED
      BY <2>1, <3>1, <3>2 DEF StartState, Given
  <2>3. Counted = {}
    <3>1. \A b : ~Given(b)
      BY <2>1 DEF Given
    <3> QED
      BY <3>1 DEF Counted, Chosen
  <2> QED
    BY <2>1, <2>2, <2>3, FS_EmptySet DEF CountInv, XorInv
<1>2. ASSUME Typed, ListInv, CountInv PROVE AcceptedIsComplete
  <2> SUFFICES ASSUME pc = "accepted", XorSwitchless, NEW b \in ArgsOf
               PROVE  /\ b.required /\ b.group = 0 => Given(b)
                      /\ b.group # 0 => Cardinality({c \in Group(b) : Given(c)}) = 1
    BY DEF AcceptedIsComplete, XorSwitchless, ArgsOf
  <2>1. Counted = Required
    <3>1. Cardinality(Required) <= Cardinality(Counted)
      BY <1>2 DEF CountInv, ListInv
    <3>2. /\ Counted \in SUBSET Required /\ IsFiniteSet(Required) /\ Cardinality(Counted) \in Nat
          /\ Cardinality(Required) \in Nat
      BY <1>2, CountedFacts, FS_CardinalityType
    <3>3. Cardinality(Counted) <= Cardinality(Required)
          /\ (Cardinality(Required) = Cardinality(Counted) => Required = Counted)
      BY <3>2, FS_Subset
    <3> QED
      BY <3>1, <3>2, <3>3
  <2>2. b.required => b \in Counted
    BY <2>1 DEF Required
  <2>3. ASSUME b.group # 0 PROVE Cardinality({c \in Group(b) : Given(c)}) = 1
    <3>1. b \in Counted
      BY <1>2, <2>2, <2>3 DEF ListInv
    <3>2. PICK c \in Group(b) : Chosen(c)
      BY <2>3, <3>1 DEF Counted
    <3>3. Group(c) = Group(b)
      BY <3>2, GroupOf
    <3>4. {d \in Group(b) : Given(d)} = {c}
      BY <3>2, <3>3 DEF Chosen, Others
    <3> QED
      BY <3>4, FS_Singleton
  <2> QED
    BY <2>2, <2>3 DEF Counted
<1> QED
  BY <1>1, <1>2, InitTyped, StepTyped, StepCount, PTL DEF Spec
=============================================================================

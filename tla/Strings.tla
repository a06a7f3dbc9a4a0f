------------------------------ MODULE Strings -------------------------------
(***************************************************************************)
(* String schemas and their checks (schema_string.go, checks_string.go),   *)
(* and what the checks record of themselves when they are attached.        *)
(*                                                                         *)
(* A text is a sequence of symbols, a symbol a character or a word.  A     *)
(* regular expression finds a language in a text, at the start if it       *)
(* begins with ^, at the end if it ends with $.                            *)
(***************************************************************************)
EXTENDS Integers, Sequences, FiniteSets, SequencesExt

\* @ stands for the address b@c.de, null for that word, wide for a character
\* outside of the basic plane; Upper has the capitals of a, @ and null.
Upper == "a" :> "A" @@ "@" :> "B@C.DE" @@ "null" :> "NULL"
Symbol == DOMAIN Upper \cup Range(Upper) \cup {"1", ".", " ", "wide"}

\* UTF-16 code units, bytes of UTF-8 and characters.
Units ==
  [x \in Symbol |->
     CASE x = "wide" -> 2 [] x \in {"null", "NULL"} -> 4 [] x \in {"@", "B@C.DE"} -> 6 [] OTHER -> 1]
Bytes == [Units EXCEPT !["wide"] = 4]
Characters == [Units EXCEPT !["wide"] = 1]
LengthIn(size, s) == FoldSeq(LAMBDA x, n : n + size[x], 0, s)

Over(S, s) == \A i \in DOMAIN s : s[i] \in S
Count(x, s) == Cardinality({i \in DOMAIN s : s[i] = x})
IsAddress(s) ==
  s # <<>> /\ Last(s) \in {"@", "B@C.DE"} /\ Over({"a", "A", "1", ".", "null", "NULL"}, Front(s))

\* The languages of the formats.  isEmail refuses some of what the expression
\* beside it matches; ^[aA]+$ is letters, ^a$|^1$ is catOrDog.
InLanguage(name, s) ==
  CASE name = "digits" -> s # <<>> /\ Over({"1"}, s)
    [] name = "number" -> s # <<>> /\ Over({"1", "."}, s) /\ Head(s) = "1" /\ Last(s) = "1" /\ Count(".", s) < 2
    [] name = "letters" -> s # <<>> /\ Over({"a", "A"}, s)
    [] name = "lowercase" -> Range(Upper) \cap ToSet(s) = {}
    [] name = "uppercase" -> DOMAIN Upper \cap ToSet(s) = {}
    [] name = "emailBody" -> IsAddress(s)
    [] name = "email" -> IsAddress(s) /\ Head(s) # "." /\ \A i \in 2 .. Len(s) : <<s[i - 1], s[i]>> # <<".", ".">>
    [] name = "catOrDog" -> s \in {<<"a">>, <<"1">>}

\* inner: an anchor that is not at the outer edges.
Regexp(body, from, to, inner) == [body |-> body, from |-> from, to |-> to, inner |-> inner]

\* regexp.MatchString.
MatchString(re, s) ==
  \E i \in 0 .. Len(s), j \in 0 .. Len(s) :
    /\ i <= j /\ InLanguage(re.body, SubSeq(s, i + 1, j))
    /\ re.from => i = 0
    /\ re.to => j = Len(s)

-----------------------------------------------------------------------------
(* Checks.  A format check matches the texts of a language, and has the    *)
(* equivalent regular expressions, none or one.                            *)

\* A bound, an n or a text, is what do asks for.
CheckOf(do, n, text) ==
  [do |-> do, n |-> n, text |-> text, match |-> "none", equivalent |-> <<>>, abort |-> FALSE]
FormatOf(match, equivalent) == [CheckOf("format", 0, <<>>) EXCEPT !.match = match, !.equivalent = equivalent]
Equivalent(check) == check.equivalent[1]

IsLength(check) == check.do \in {"min", "max", "length"}

\* hasLength and lengthOf: a list has a length too.
HasLength(v) == v.t \in {"text", "list"}
LengthOf(v) == IF v.t = "text" THEN LengthIn(Units, v.text) ELSE Len(v.of)

\* strings.Contains from a byte on: within a character there is none.
Contained(part, s, position) ==
  \E i \in 0 .. Len(s) :
    /\ LengthIn(Bytes, SubSeq(s, 1, i)) >= position
    /\ IsPrefix(part, SubSeq(s, i + 1, Len(s)))

Fails(check, v) ==
  CASE check.do = "min" -> LengthOf(v) < check.n
    [] check.do = "max" -> LengthOf(v) > check.n
    [] check.do = "length" -> LengthOf(v) # check.n
    [] ~IsLength(check) /\ v.t # "text" -> FALSE
    [] check.do = "includes" /\ v.t = "text" -> ~Contained(check.text, v.text, check.n)
    [] check.do = "starts" /\ v.t = "text" -> ~IsPrefix(check.text, v.text)
    [] check.do = "ends" /\ v.t = "text" -> ~IsSuffix(check.text, v.text)
    [] check.do = "format" /\ v.t = "text" ->
         IF check.match = "regex" THEN ~MatchString(Equivalent(check), v.text)
         ELSE ~InLanguage(check.match, v.text)

CodeOf(check, v) ==
  CASE IsLength(check) -> IF check.do = "min" \/ (check.do = "length" /\ LengthOf(v) < check.n) THEN "too_small" ELSE "too_big"
    [] OTHER -> "invalid_format"

\* Trim, ToLowerCase and ToUpperCase.
Trimmed(s) ==
  LET ink == {i \in DOMAIN s : s[i] # " "}
      first == CHOOSE i \in ink : \A j \in ink : i <= j
      last == CHOOSE i \in ink : \A j \in ink : i >= j
  IN  IF ink = {} THEN <<>> ELSE SubSeq(s, first, last)
Rewritten(how, s) ==
  CASE how = "trim" -> Trimmed(s)
    [] how = "lower" -> [i \in DOMAIN s |-> IF s[i] \in Range(Upper) THEN CHOOSE x \in DOMAIN Upper : Upper[x] = s[i] ELSE s[i]]
    [] how = "upper" -> [i \in DOMAIN s |-> IF s[i] \in DOMAIN Upper THEN Upper[s[i]] ELSE s[i]]
Overwrites == {"trim", "lower", "upper"}

\* A length check runs after a failure too, any other only if none aborts.
RunTextCheck(p, check) ==
  IF (IsLength(check) /\ ~HasLength(p.v)) \/ (~IsLength(check) /\ p.aborted) THEN p
  ELSE IF check.do \in Overwrites
  THEN IF p.v.t = "text" THEN [p EXCEPT !.v.text = Rewritten(check.do, @)] ELSE p
  ELSE IF Fails(check, p.v)
  THEN [p EXCEPT !.issues = Append(@, CodeOf(check, p.v)), !.aborted = @ \/ check.abort]
  ELSE p
RunTextChecks(checks, p) == FoldLeft(RunTextCheck, p, checks)

\* coerceToString: String(value) in JavaScript.
CoercedText(v) ==
  CASE v.t = "text" -> v
    [] v.t = "nil" -> [t |-> "text", text |-> <<"null">>]
    [] v.t = "int64" -> [t |-> "text", text |-> <<"1">>]

\* makeStringParse and the checks.
ParseString(schema, v) ==
  LET w == IF schema.coerce THEN CoercedText(v) ELSE v
  IN  RunTextChecks(schema.checks,
        [v |-> w, issues |-> IF w.t = "text" THEN <<>> ELSE <<"invalid_type">>, aborted |-> w.t # "text"])

-----------------------------------------------------------------------------
(* What OnAttach records. *)

NothingRecorded == [pattern |-> <<>>, patternChecks |-> 0, conflict |-> FALSE, minimum |-> 0, maximum |-> {}]

\* Mutant: every pattern counts, the first one is kept.
AttachCounting(bag, re) ==
  [bag EXCEPT !.pattern = IF @ = <<>> THEN <<re>> ELSE @, !.patternChecks = @ + 1]

\* attachPattern: the first one is kept; one more is a conflict.
AttachPattern(bag, re) ==
  IF bag.pattern # <<>> THEN [bag EXCEPT !.conflict = TRUE]
  ELSE [bag EXCEPT !.pattern = <<re>>, !.patternChecks = @ + 1]

\* A minimum below the one recorded is left out, as is a maximum above it; an
\* exact length replaces both.
Attach(bag, check) ==
  CASE check.do = "min" -> [bag EXCEPT !.minimum = IF check.n > @ THEN check.n ELSE @]
    [] check.do = "max" -> [bag EXCEPT !.maximum = IF \E n \in @ : n <= check.n THEN @ ELSE {check.n}]
    [] check.do = "length" -> [bag EXCEPT !.minimum = check.n, !.maximum = {check.n}]
    [] check.do = "format" /\ check.equivalent # <<>> -> AttachPattern(bag, Equivalent(check))
    [] OTHER -> bag
Recorded(checks) == FoldLeft(Attach, NothingRecorded, checks)

\* applyStringChecks, and a text under minLength, maxLength and pattern.
TextAdmitted(bag, s) ==
  /\ LengthIn(Characters, s) >= bag.minimum
  /\ \A n \in bag.maximum : LengthIn(Characters, s) <= n
  /\ \A i \in DOMAIN bag.pattern : MatchString(bag.pattern[i], s)
=============================================================================

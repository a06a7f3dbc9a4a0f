----------------------------- MODULE Templates ------------------------------
(***************************************************************************)
(* Template literals (schema_template.go): one regular expression put      *)
(* together from those of the parts when the schema is built.              *)
(*                                                                         *)
(* A schema has a kind, checks, the schema it wraps (of), parts, and       *)
(* values, the texts of a literal or an enum.  A part that is no schema is *)
(* of kind said, with one text, or of kind regexp, with one check.  A      *)
(* fragment is the language it matches, and ok unless there is none: then  *)
(* building the template panics.  Languages are told apart within U, the   *)
(* texts inside of the one that is parsed.                                 *)
(***************************************************************************)
EXTENDS Strings

NoFragment == [ok |-> FALSE, lang |-> {}]
Fragment(lang) == [ok |-> TRUE, lang |-> lang]
Within(text) == {SubSeq(text, i, j) : i, j \in 1 .. Len(text)} \cup {<<>>}
Joined(a, b, U) == {s \in U : \E i \in 0 .. Len(s) : SubSeq(s, 1, i) \in a /\ SubSeq(s, i + 1, Len(s)) \in b}

\* patternFragment: the outer anchors are dropped, inner ones are reported.
PatternFragment(pattern) == IF pattern.inner THEN NoFragment ELSE Fragment(pattern.lang)
LanguageOf(re, U) == [inner |-> re.inner, lang |-> {s \in U : InLanguage(re.body, s)}]

\* checkPatternCoverage.
Covers(in) == in.total = 0 \/ (~in.conflict /\ in.patternChecks >= in.total)

\* What a schema records, with what it takes over from the one it wraps
\* (propagateWrapperMeta).  The pattern of a template is put in last.
InternalsOf(s, wrapped, language, U) ==
  LET own == Recorded(s.checks)
      in == [pattern |-> [i \in DOMAIN own.pattern |-> LanguageOf(own.pattern[i], U)],
             patternChecks |-> own.patternChecks, conflict |-> own.conflict,
             total |-> Len(s.checks), values |-> s.values]
      more == [optional |-> {<<>>}, nullable |-> {<<"null">>}, readonly |-> {}, check |-> {}]
  IN  CASE s.kind = "template" -> [in EXCEPT !.pattern = <<[inner |-> FALSE, lang |-> language.lang]>>]
        [] s.kind \in DOMAIN more ->
             [in EXCEPT !.pattern = wrapped[1].in.pattern,
                        !.values = UNION {values \cup more[s.kind] : values \in {wrapped[1].in.values} \ {{}}}]
        [] OTHER -> in

\* schemaPatternFragment.
SchemaFragment(s, in, U) ==
  CASE ~Covers(in) -> NoFragment
    [] in.pattern # <<>> -> PatternFragment(in.pattern[1])
    [] in.values # {} -> Fragment(in.values)
    [] s.kind = "string" -> Fragment(U)
    [] s.kind = "number" -> Fragment({text \in U : InLanguage("number", text)})
    [] OTHER -> NoFragment

\* templatePartFragment.
FragmentOf(s, in, wrapped, U) ==
  CASE s.kind = "said" -> Fragment(s.values)
    [] s.kind = "regexp" -> PatternFragment(LanguageOf(Equivalent(s.checks[1]), U))
    [] s.kind = "optional" -> [wrapped[1].fragment EXCEPT !.lang = @ \cup {<<>>}]
    [] s.kind = "nullable" -> [wrapped[1].fragment EXCEPT !.lang = @ \cup {<<"null">>}]
    [] s.kind = "lazy" -> wrapped[1].fragment
    [] OTHER -> SchemaFragment(s, in, U)

\* compileTemplatePattern.
TemplateOf(fragments, U) ==
  IF \E i \in DOMAIN fragments : ~fragments[i].ok THEN NoFragment
  ELSE Fragment(FoldLeft(LAMBDA lang, f : Joined(lang, f.lang, U), {<<>>}, fragments))

\* All of it for one schema and those it is made of.
RECURSIVE Compiled(_, _)
Compiled(s, U) ==
  LET below == [i \in DOMAIN (s.of \o s.parts) |-> Compiled((s.of \o s.parts)[i], U)]
      language == TemplateOf([i \in DOMAIN s.parts |-> below[i].fragment], U)
      in == InternalsOf(s, below, language, U)
  IN  [in |-> in, language |-> language, fragment |-> FragmentOf(s, in, below, U)]

\* TemplateLiteral does not panic.
Builds(schema) == Compiled(schema, {}).language.ok

\* makeTemplateLiteralParse and the checks.
ParseTemplate(schema, v) ==
  LET fits == v.t = "text" /\ v.text \in Compiled(schema, Within(v.text)).language.lang
  IN  RunTextChecks(schema.checks,
        [v |-> v, issues |-> IF fits THEN <<>> ELSE <<"invalid_type">>, aborted |-> ~fits])

-----------------------------------------------------------------------------
(* What the parts mean. *)

\* A text as a value of a part, by the part's own schema.
RECURSIVE PartAccepts(_, _)
PartAccepts(s, text) ==
  LET v == [t |-> "text", text |-> text]
      Inner == PartAccepts(s.of[1], text)
  IN  /\ CASE s.kind \in {"string", "regexp"} -> TRUE
           [] s.kind = "number" -> InLanguage("number", text)
           [] s.kind = "template" -> text \in Compiled(s, Within(text)).language.lang
           [] s.kind \in {"literal", "said"} -> text \in s.values
           [] s.kind = "optional" -> text = <<>> \/ Inner
           [] s.kind = "nullable" -> text = <<"null">> \/ Inner
           [] OTHER -> Inner
      /\ RunTextChecks(s.checks, [v |-> v, issues |-> <<>>, aborted |-> FALSE]).issues = <<>>

\* The text is made of pieces that the parts accept.
MadeOf(parts, text) ==
  LET U == Within(text)
  IN  text \in FoldLeft(LAMBDA lang, part : Joined(lang, {s \in U : PartAccepts(part, s)}, U), {<<>>}, parts)

\* A part, or what it is made of, has this.
RECURSIVE Somewhere(_, _)
Somewhere(Has(_), s) == Has(s) \/ \E t \in Range(s.of) \cup Range(s.parts) : Somewhere(Has, t)

\* Checks no fragment has: those of a schema that is wrapped or wraps, that
\* lists values or is a template.
HidesChecks(s) ==
  \/ s.kind \in {"literal", "template", "lazy", "check"} /\ s.checks # <<>>
  \/ s.kind \in {"readonly", "check"} /\ ~Covers(Compiled(s.of[1], {}).in)

\* A format that refuses texts its expression matches.
AsksMore(s) ==
  \E i \in DOMAIN s.checks : s.checks[i].match # "regex" /\ s.checks[i].equivalent # <<>>
                             /\ s.checks[i].match # Equivalent(s.checks[i]).body

Overlooks(s) == Somewhere(HidesChecks, s) \/ Somewhere(AsksMore, s)

\* Fragments that match less than the part accepts: an expression that may
\* match inside of a text, and what readonly takes over without the absence or
\* the null around it.
Loses(s) ==
  \/ \E i \in DOMAIN s.checks : \E re \in ToSet(s.checks[i].equivalent) : ~(re.from /\ re.to)
  \/ s.kind \in {"readonly", "check"} /\ s.of[1].kind \in {"optional", "nullable"}
Narrows(s) == Somewhere(Loses, s)
=============================================================================

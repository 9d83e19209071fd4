----------------------------- MODULE McpResources -----------------------------
(***************************************************************************)
(* Resources and resource templates (src/mcp/registry.rs and               *)
(* src/mcp/resource_template.rs): what 1C registers in batches, and what a *)
(* client's resources/read finds.  Each call of 1C holds the write lock,   *)
(* each read the read lock, so a call is one step.                         *)
(*                                                                         *)
(* Texts and URIs are sequences of characters, because matching is about   *)
(* them; the alphabet is the constant's.                                   *)
(***************************************************************************)
EXTENDS Naturals, FiniteSets, SequencesExt

CONSTANTS
    Chars,        \* the alphabet
    NameChars,    \* characters a variable's name may have
    Batches,      \* sequences of template texts that 1C registers in one call
    Resources,    \* URIs that 1C registers as resources
    Uris,         \* URIs that clients ask for
    Values,       \* what they put for the variables of templates
    MaxTemplates  \* bound: templates registered at a time

LBrace == "{"
RBrace == "}"
Dot == "."

ASSUME Alphabet ==
    /\ {LBrace, RBrace} \subseteq Chars
    /\ NameChars \subseteq Chars \ {LBrace, RBrace}
    /\ Batches \subseteq Seq(Seq(Chars))
    /\ Uris \cup Values \subseteq Seq(Chars)

VARIABLES
    templates,  \* resource_templates: text -> segments of its matcher
    resources,  \* URIs in the map of resources
    last        \* history: the last batch, whether the call succeeded, and the texts
                \* registered before it

vars == <<templates, resources, last>>

Init ==
    /\ templates = <<>>
    /\ resources = {}
    /\ last = [batch |-> <<>>, ok |-> TRUE, before |-> {}]

-----------------------------------------------------------------------------
(* Matching.  An operator that may find nothing returns a set: the thing    *)
(* alone, or nothing.  A position is the number of characters before it, as *)
(* the code's indices are; `at` is the code's cursor.                      *)

Lit(s) == [kind |-> "literal", text |-> s]
Var(s) == [kind |-> "variable", text |-> s]

Occurrences(lit, s, at) ==
    {k \in at..(Len(s) - Len(lit)) : SubSeq(s, k + 1, k + Len(lit)) = lit}

\* Where lit occurs first in s from at on.
Find(lit, s, at) ==
    {k \in Occurrences(lit, s, at) : \A n \in Occurrences(lit, s, at) : k <= n}

\* parse_variable_name: "." is a character of names, and an operator if it is first.
IsName(s) ==
    /\ s # <<>>
    /\ s[1] # Dot
    /\ \A n \in DOMAIN s : s[n] \in NameChars

\* The end of compile: what comes after the last expression is a literal.
Finish(text, s) ==
    LET tail == SubSeq(text, s.at + 1, Len(text)) IN
    IF Contains(tail, RBrace) THEN {}
    ELSE {IF tail # <<>> \/ s.segs = <<>> THEN Append(s.segs, Lit(tail)) ELSE s.segs}

\* What compile adds for an expression whose braces are at start and end.
Expression(text, s, start, end) ==
    LET literal  == SubSeq(text, s.at + 1, start)
        name     == SubSeq(text, start + 2, end)
        adjacent == literal = <<>> /\ s.segs # <<>> /\ Last(s.segs).kind = "variable"
        before   == IF literal = <<>> THEN s.segs ELSE Append(s.segs, Lit(literal))
    IN
    IF Contains(literal, RBrace) \/ adjacent \/ ~IsName(name) THEN {}
    ELSE {[at |-> end + 1, segs |-> Append(before, Var(name))]}

\* A round of compile's loop, which goes on while there is another expression.
Round(text, s) ==
    IF Find(<<LBrace>>, text, s.at) = {} THEN {s}
    ELSE UNION {UNION {Expression(text, s, start, end) : end \in Find(<<RBrace>>, text, start + 1)}
                : start \in Find(<<LBrace>>, text, s.at)}

\* ResourceTemplateMatcher::compile.  A round reads a character at least.
Compile(text) ==
    LET after[n \in 0..Len(text)] ==
            IF n = 0 THEN {[at |-> 0, segs |-> <<>>]}
            ELSE UNION {Round(text, s) : s \in after[n - 1]}
    IN UNION {Finish(text, s) : s \in after[Len(text)]}

Put(args, name, value) ==
    [v \in DOMAIN args \cup {name} |-> IF v = name THEN value ELSE args[v]]

\* Mutant: a variable that comes again gets its new value.
Rebind(args, name, value) == {Put(args, name, value)}

\* A variable that comes again must capture the same value.
Bind(args, name, value) ==
    IF name \in DOMAIN args /\ args[name] # value THEN {} ELSE {Put(args, name, value)}

\* What a segment captures: a literal what it says, a variable all that comes before
\* the literal behind it.
Take(segs, uri, n, s) ==
    LET text == segs[n].text
        ends == IF n = Len(segs) THEN {Len(uri)}
                ELSE IF segs[n + 1].kind = "variable" THEN {}
                ELSE Find(segs[n + 1].text, uri, s.at)
    IN
    IF segs[n].kind = "literal"
    THEN {[at |-> k + Len(text), args |-> s.args] : k \in Occurrences(text, uri, s.at) \cap {s.at}}
    ELSE UNION {{[at |-> end, args |-> bound] :
                 bound \in Bind(s.args, text, SubSeq(uri, s.at + 1, end))} : end \in ends}

\* ResourceTemplateMatcher::capture: where it is after each segment, and the
\* arguments if nothing of the URI is left.
Capture(segs, uri) ==
    LET after[n \in 0..Len(segs)] ==
            IF n = 0 THEN {[at |-> 0, args |-> <<>>]}
            ELSE UNION {Take(segs, uri, n, s) : s \in after[n - 1]}
    IN {s.args : s \in {e \in after[Len(segs)] : e.at = Len(uri)}}

-----------------------------------------------------------------------------
(* resolve_resource.                                                       *)

\* The texts of the templates that match.
Matches(uri) == {t \in DOMAIN templates : Capture(templates[t], uri) # {}}

\* Mutant: templates come first.
ResolveTemplatesFirst(uri) ==
    CASE Cardinality(Matches(uri)) = 1 -> "template"
      [] Cardinality(Matches(uri)) > 1 -> "ambiguous"
      [] uri \in resources            -> "resource"
      [] OTHER                        -> "not found"

Resolve(uri) ==
    IF uri \in resources THEN "resource"
    ELSE CASE Matches(uri) = {}              -> "not found"
           [] Cardinality(Matches(uri)) = 1 -> "template"
           [] OTHER                         -> "ambiguous"

-----------------------------------------------------------------------------
(* The 1C thread.                                                          *)

\* The items of a batch up to the first that does not compile.
Prefix(batch) ==
    {n \in DOMAIN batch : \A m \in 1..n : Compile(batch[m]) # {}}

\* Mutant: an item that does not compile is left out, and the call goes on.
RegisterTheGood(batch) ==
    LET done == {t \in Range(batch) : Compile(t) # {}} IN
    /\ Cardinality(DOMAIN templates \cup done) <= MaxTemplates
    /\ templates' = [t \in DOMAIN templates \cup done |->
                        IF t \in done THEN CHOOSE m \in Compile(t) : TRUE ELSE templates[t]]
    /\ last' = [batch |-> batch, ok |-> done = Range(batch), before |-> DOMAIN templates]
    /\ UNCHANGED resources

\* register_resource_templates: an item that does not compile ends the call with
\* an error; what came before it stays registered.
RegisterTemplates(batch) ==
    LET done == {batch[n] : n \in Prefix(batch)} IN
    /\ Cardinality(DOMAIN templates \cup done) <= MaxTemplates
    /\ templates' = [t \in DOMAIN templates \cup done |->
                        IF t \in done THEN CHOOSE m \in Compile(t) : TRUE ELSE templates[t]]
    /\ last' = [batch |-> batch, ok |-> Prefix(batch) = DOMAIN batch,
                before |-> DOMAIN templates]
    /\ UNCHANGED resources

\* The history begins anew with a call that takes texts out.
Forget == last' = [batch |-> <<>>, ok |-> TRUE, before |-> DOMAIN templates']

UnregisterTemplate(t) ==
    /\ templates' = [s \in DOMAIN templates \ {t} |-> templates[s]]
    /\ Forget
    /\ UNCHANGED resources

ClearTemplates ==
    /\ templates' = <<>>
    /\ Forget
    /\ UNCHANGED resources

RegisterResource(uri) ==
    /\ resources' = resources \cup {uri}
    /\ UNCHANGED <<templates, last>>

UnregisterResource(uri) ==
    /\ resources' = resources \ {uri}
    /\ UNCHANGED <<templates, last>>

ClearResources ==
    /\ resources' = {}
    /\ UNCHANGED <<templates, last>>

Next ==
    \/ \E batch \in Batches : RegisterTemplates(batch)
    \/ \E t \in DOMAIN templates : UnregisterTemplate(t)
    \/ ClearTemplates
    \/ \E uri \in Resources : RegisterResource(uri) \/ UnregisterResource(uri)
    \/ ClearResources

Spec == Init /\ [][Next]_vars

-----------------------------------------------------------------------------
(* What matching should do, without saying how.                            *)

\* Expressions are pairs of braces around a name, and text comes between them.
WellFormed(t) ==
    LET braces == {n \in DOMAIN t : t[n] \in {LBrace, RBrace}}
        Following(n) == {m \in braces : m > n /\ \A k \in braces : k > n => m <= k}
    IN
    /\ \A n \in braces :
          IF t[n] = LBrace
          THEN \E m \in Following(n) : t[m] = RBrace /\ m > n + 1 /\ t[n + 1] # Dot
                              /\ \A k \in (n + 1)..(m - 1) : t[k] \in NameChars
          ELSE \A m \in Following(n) : t[m] = LBrace /\ m > n + 1
    /\ braces # {} => \E n \in braces : t[n] = LBrace /\ \A m \in braces : n <= m

\* The text that segments stand for: as a template, and with values for its variables.
Unparse(segs) ==
    FlattenSeq([n \in DOMAIN segs |-> IF segs[n].kind = "literal" THEN segs[n].text
                                      ELSE <<LBrace>> \o segs[n].text \o <<RBrace>>])
Substitute(segs, args) ==
    FlattenSeq([n \in DOMAIN segs |-> IF segs[n].kind = "literal" THEN segs[n].text
                                      ELSE args[segs[n].text]])
Variables(segs) == {segs[n].text : n \in {m \in DOMAIN segs : segs[m].kind = "variable"}}
LiteralChars(segs) ==
    UNION {Range(segs[n].text) : n \in {m \in DOMAIN segs : segs[m].kind = "literal"}}

-----------------------------------------------------------------------------
(* Properties.                                                             *)

\* A call succeeds if and only if all of its templates are well formed.  If one is
\* not, those before it have been registered, those after it have not, and all that
\* was registered before the call still is.  The matchers say what their texts say.
CompileExact ==
    LET batch == last.batch
        good  == {n \in DOMAIN batch : \A m \in 1..n : WellFormed(batch[m])}
    IN
    /\ last.ok <=> good = DOMAIN batch
    /\ DOMAIN templates = last.before \cup {batch[n] : n \in good}
    /\ \A t \in DOMAIN templates : WellFormed(t) /\ Unparse(templates[t]) = t

\* The arguments that 1C gets with uriTemplate rebuild the URI that the client
\* asked for, and name all of its variables.
CaptureSound ==
    \A t \in DOMAIN templates, uri \in Uris : \A args \in Capture(templates[t], uri) :
        /\ DOMAIN args = Variables(templates[t])
        /\ Substitute(templates[t], args) = uri

\* A URI built from a template, with values that share no character with its text,
\* is not lost: it gives these values back, unless it is a resource or another
\* template claims it too, which the client is told.
BuiltIsFound ==
    \A t \in DOMAIN templates :
        LET segs == templates[t]
            free == {v \in Values : Range(v) \cap LiteralChars(segs) = {}}
        IN
        \A args \in [Variables(segs) -> free] :
            LET uri == Substitute(segs, args) IN
            /\ Capture(segs, uri) = {args}
            /\ Resolve(uri) =
                  IF uri \in resources THEN "resource"
                  ELSE IF \E s \in DOMAIN templates \ {t} : Capture(templates[s], uri) # {}
                       THEN "ambiguous" ELSE "template"
=============================================================================

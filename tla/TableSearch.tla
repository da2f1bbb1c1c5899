---------------------------- MODULE TableSearch ----------------------------
(* What a search text finds in a corpus: the parsing of the query            *)
(* (utils/search-query.ts) and its evaluation with the indexes of a prepared *)
(* corpus (utils/advanced-table-search.ts).  A query is the sequence of its  *)
(* tokens, typed one after the other, and a document the words of its text,  *)
(* of the post it quotes and of one raw field, with what filters ask for.    *)
(* Ranking, highlights, warnings and fuzzy expansion are left out.           *)
EXTENDS Naturals, Sequences, FiniteSets, SequencesExt

CONSTANTS
    Tokens,          \* the tokens typed (see the constructors below)
    Corpora,         \* sequences of documents
    Scopes,          \* selections of bookmark folders, {} for none
    StopWords,       \* SEARCH_FREE_TEXT_STOP_TERMS
    Longer,          \* for each word the others of three letters or more it starts
    MaxExpansions,   \* SEARCH_PREFIX_MAX_EXPANSIONS
    MaxTokens        \* bound on the length of a query

VARIABLES
    query,           \* the tokens typed so far
    parsed,          \* what parseSearchQuery makes of them
    corpus

queryVars == <<query, parsed, corpus>>

-----------------------------------------------------------------------------
(* Tokens of a query, as tokenizeQuery leaves them.                          *)
Op(op) == [kind |-> "op", op |-> op]
Open == [kind |-> "lparen"]
Close == [kind |-> "rparen"]
Lexical(kind, words, slop, field, negated) ==
    [kind |-> kind, words |-> words, slop |-> slop, field |-> field,
     negated |-> negated, prefix |-> FALSE]
Term(word) == Lexical("term", <<word>>, 0, FALSE, FALSE)
Phrase(words, slop) == Lexical("phrase", words, slop, FALSE, FALSE)
FieldTerm(word) == Lexical("term", <<word>>, 0, TRUE, FALSE)
Without(token) == [token EXCEPT !.negated = TRUE]
Filter(name, value) == [kind |-> "filter", name |-> name, value |-> value, negated |-> FALSE]

IsOperand(token) == token.kind \in {"term", "phrase"}
IsOp(token, op) == token.kind = "op" /\ token.op = op

(* The last operand may be a word that is still being typed.                 *)
MarkTerminal(raw) ==
    LET written == {i \in DOMAIN raw : IsOperand(raw[i]) \/ raw[i].kind = "filter"}
        last == CHOOSE i \in written : \A j \in written : j <= i
    IN  IF written = {} \/ raw[last].kind # "term" THEN raw
        ELSE [raw EXCEPT ![last].prefix = TRUE]

-----------------------------------------------------------------------------
(* A run of plain words becomes a disjunction of its words, of the windows   *)
(* of two, three and four of them, and of the whole run.                     *)
IsContent(word) == word \notin StopWords
WordsOf(tokens) == FlattenSeq([i \in DOMAIN tokens |-> tokens[i].words])

ContentTerms(run) ==
    LET content == SelectSeq(WordsOf(run), IsContent)
    IN  IF content = <<>> THEN WordsOf(run) ELSE content

Singletons(run) ==
    LET isTerm(token) == token.words[1] \in ToSet(ContentTerms(run))
    IN  SelectSeq(run, isTerm)

WindowPhrase(window, slop) ==
    [Phrase(WordsOf(window), slop) EXCEPT !.prefix = Last(window).prefix]

Windows(run, size, slop) ==
    LET all == [i \in 1..(IF Len(run) < size THEN 0 ELSE Len(run) - size + 1) |->
                   SubSeq(run, i, i + size - 1)]
        worth(window) == Len(SelectSeq(WordsOf(window), IsContent)) >= 2
        kept == SelectSeq(all, worth)
    IN  [i \in DOMAIN kept |-> WindowPhrase(kept[i], slop)]

ExpandRun(run) ==
    LET all == Singletons(run) \o Windows(run, 2, 2) \o Windows(run, 3, 3)
                   \o Windows(run, 4, 4) \o <<WindowPhrase(run, 0)>>
        key(token) == <<token.kind, token.words, token.slop>>
        add(out, token) == IF \E i \in DOMAIN out : key(out[i]) = key(token)
                           THEN out ELSE Append(out, token)
    IN  FoldLeft(add, <<>>, all)

LexicalRun(run) ==
    IF Len(run) <= 1 THEN run
    ELSE LET expanded == ExpandRun(run)
         IN  <<Open, expanded[1]>>
                 \o FlattenSeq([i \in 1..(Len(expanded) - 1) |->
                                    <<Op("OR"), expanded[i + 1]>>])
                 \o <<Close>>

-----------------------------------------------------------------------------
(* parseSearchQuery: filters are taken out, runs of plain words expanded.    *)
Flush(state) ==
    LET terms == IF state.run = <<>> THEN <<>> ELSE ContentTerms(state.run)
    IN  [state EXCEPT !.run = <<>>, !.lexical = @ \o LexicalRun(state.run),
                      !.ordered = @ \o terms]

Take(state, token) ==
    LET flushed == Flush(state)
        operand == [token EXCEPT !.negated = FALSE]
    IN  CASE token.kind \in {"op", "lparen", "rparen"} ->
                 [flushed EXCEPT !.lexical = Append(@, token)]
          [] token.kind = "filter" -> [flushed EXCEPT !.filters = Append(@, token)]
          [] IsOperand(token) /\ token.negated ->
                 [flushed EXCEPT !.lexical = @ \o <<Op("NOT"), operand>>]
          [] token.kind = "term" /\ ~token.field /\ ~token.negated ->
                 [state EXCEPT !.run = Append(@, operand)]
          [] OTHER ->
                 [flushed EXCEPT !.lexical = Append(@, operand),
                                 !.ordered = IF token.field THEN @ ELSE @ \o token.words]

Start == [lexical |-> <<>>, filters |-> <<>>, run |-> <<>>, ordered |-> <<>>]
ReadQuery(raw) == Flush(FoldLeft(Take, Start, MarkTerminal(raw)))

-----------------------------------------------------------------------------
(* buildLexicalAst: adjacent values are joined by AND, operators are ordered *)
(* by precedence, and what comes out is built into a tree.                   *)
EndsValue(token) == IsOperand(token) \/ token.kind = "rparen"
StartsValue(token) == IsOperand(token) \/ token.kind = "lparen" \/ IsOp(token, "NOT")

Infix(lexical) ==
    FlattenSeq([i \in DOMAIN lexical |->
        IF i > 1 /\ EndsValue(lexical[i - 1]) /\ StartsValue(lexical[i])
        THEN <<Op("AND"), lexical[i]>> ELSE <<lexical[i]>>])

Precedence == [OR |-> 1, AND |-> 2, NOT |-> 3]
(* A variant that lets NOT yield to NOT.                                     *)
YieldsToEqual(top, op) == Precedence[op] <= Precedence[top]

Yields(top, op) == IF op = "NOT" THEN Precedence[op] < Precedence[top]
                   ELSE Precedence[op] <= Precedence[top]

(* The stack down to its last entry that satisfies a condition is popped.    *)
LastWhere(stack, Test(_)) ==
    LET found == {i \in DOMAIN stack : Test(stack[i])}
    IN  IF found = {} THEN 0 ELSE CHOOSE i \in found : \A j \in found : j <= i
Above(stack, depth) == Reverse(SubSeq(stack, depth + 1, Len(stack)))

Shunt(state, token) ==
    LET stack == state.stack
        isOpen(entry) == entry.kind = "lparen"
        stays(entry) == entry.kind # "op" \/ ~Yields(entry.op, token.op)
        open == LastWhere(stack, isOpen)
        base == LastWhere(stack, stays)
    IN  CASE IsOperand(token) -> [state EXCEPT !.out = Append(@, token)]
          [] token.kind = "lparen" -> [state EXCEPT !.stack = Append(@, token)]
          [] token.kind = "rparen" ->
                 [out |-> state.out \o Above(stack, open),
                  stack |-> IF open = 0 THEN <<>> ELSE SubSeq(stack, 1, open - 1)]
          [] OTHER ->
                 [out |-> state.out \o Above(stack, base),
                  stack |-> Append(SubSeq(stack, 1, base), token)]

Postfix(lexical) ==
    LET end == FoldLeft(Shunt, [out |-> <<>>, stack |-> <<>>], Infix(lexical))
        isOp(entry) == entry.kind = "op"
    IN  end.out \o SelectSeq(Above(end.stack, 0), isOp)

Not(child) == [kind |-> "NOT", child |-> child]
Binary(op, left, right) == [kind |-> op, left |-> left, right |-> right]

(* An operator that lacks an operand is dropped, with the one it has.        *)
Build(stack, token) ==
    LET size == Len(stack)
    IN  CASE IsOperand(token) -> Append(stack, token)
          [] IsOp(token, "NOT") ->
                 IF size = 0 THEN stack
                 ELSE Append(Front(stack), Not(Last(stack)))
          [] size < 2 -> <<>>
          [] OTHER ->
                 Append(SubSeq(stack, 1, size - 2),
                        Binary(token.op, stack[size - 1], stack[size]))

(* The tree, or the conjunction of all operands, or none.                    *)
Ast(lexical) ==
    LET built == FoldLeft(Build, <<>>, Postfix(lexical))
        operands == SelectSeq(lexical, IsOperand)
        both(left, right) == Binary("AND", left, right)
    IN  IF Len(built) = 1 THEN built
        ELSE IF operands = <<>> THEN <<>>
        ELSE <<FoldLeft(both, operands[1], Tail(operands))>>

(* The operands under an even (TRUE) or odd number of negations.             *)
RECURSIVE Collect(_, _)
Collect(node, polarity) ==
    CASE IsOperand(node) -> IF polarity THEN {node} ELSE {}
      [] node.kind = "NOT" -> Collect(node.child, ~polarity)
      [] OTHER -> Collect(node.left, polarity) \union Collect(node.right, polarity)

Parse(raw) ==
    LET read == ReadQuery(raw)
        ast == Ast(read.lexical)
        under(polarity) == UNION {Collect(ast[i], polarity) : i \in DOMAIN ast}
    IN  [ast |-> ast, filters |-> read.filters, ordered |-> read.ordered,
         lexical |-> read.lexical,
         positive |-> under(TRUE), negative |-> under(FALSE)]

-----------------------------------------------------------------------------
(* Documents, and what an operand matches in one.                            *)
TextOf(doc) == ToSet(doc.words) \union ToSet(doc.quoted)

(* The positions of a phrase's words, each the first one after the last.     *)
IsMatch(word, needle, prefix) == word = needle \/ (prefix /\ word \in Longer[needle])

EndOf(words, phrase, prefix, first) ==
    LET next(at, i) ==
            LET later == {j \in DOMAIN words : j > at /\
                              IsMatch(words[j], phrase[i], prefix /\ i = Len(phrase))}
            IN  IF at = 0 \/ later = {} THEN 0
                ELSE CHOOSE j \in later : \A k \in later : j <= k
    IN  FoldLeft(next, first, [i \in 1..(Len(phrase) - 1) |-> i + 1])

HasPhrase(words, phrase, slop, prefix) ==
    \E first \in DOMAIN words :
        LET end == EndOf(words, phrase, prefix, first)
        IN  words[first] = phrase[1] /\ end # 0 /\ end - first <= Len(phrase) - 1 + slop

HasOperand(words, token) ==
    IF token.kind = "term"
    THEN \E i \in DOMAIN words : IsMatch(words[i], token.words[1], token.prefix)
    ELSE HasPhrase(words, token.words, token.slop, token.prefix)

(* The words of the raw field an operand names.                              *)
FieldWords(doc) == doc.field

TokenMatches(doc, token) ==
    IF token.field THEN HasOperand(FieldWords(doc), token)
    ELSE HasOperand(doc.words, token) \/ HasOperand(doc.quoted, token)

RECURSIVE Holds(_, _)
Holds(node, doc) ==
    CASE IsOperand(node) -> TokenMatches(doc, node)
      [] node.kind = "NOT" -> ~Holds(node.child, doc)
      [] node.kind = "AND" -> Holds(node.left, doc) /\ Holds(node.right, doc)
      [] OTHER -> Holds(node.left, doc) \/ Holds(node.right, doc)

(* evaluateFilter: a mode that is not known filters nothing.                 *)
Modes == {"media", "links"}
FilterHolds(doc, filter) ==
    LET matched == CASE filter.name = "from" -> doc.author = filter.value
                     [] filter.name = "folder" -> doc.folder = filter.value
                     [] OTHER -> filter.value \in Modes => filter.value \in doc.flags
    IN  matched # filter.negated

-----------------------------------------------------------------------------
(* The indexes.  An optional set of documents is a set of at most one set.   *)
DocsWith(word) == {i \in DOMAIN corpus : word \in TextOf(corpus[i])}

Indexed(filter) ==
    CASE filter.name = "from" -> {{i \in DOMAIN corpus : corpus[i].author = filter.value}}
      [] filter.name = "folder" -> {{i \in DOMAIN corpus : corpus[i].folder = filter.value}}
      [] filter.name = "is" -> {{i \in DOMAIN corpus : filter.value \in corpus[i].flags}}
      [] OTHER -> {}

Narrow(candidates, docs) ==
    IF candidates = {} THEN {docs} ELSE {docs \intersect set : set \in candidates}

IsNarrowing(docs) == docs # {} /\ docs # DOMAIN corpus

(* A variant that anchors queries of two terms.                              *)
AnchorFromTwo == 2

AnchorMinTerms == 3

AnchorMaxTerms == 4

AdjacentAnchor(ordered) ==
    LET docs == UNION {DocsWith(ordered[i]) \intersect DocsWith(ordered[i + 1]) :
                           i \in 1..(Len(ordered) - 1)}
    IN  IF Len(ordered) >= AnchorMinTerms /\ IsNarrowing(docs) THEN {docs} ELSE {}

(* The rarest words, not in more than 65 % of the documents if that leaves   *)
(* any, and at most half as frequent again as the rarest.                    *)
RareAnchor(terms) ==
    LET frequency(term) == Cardinality(DocsWith(term))
        known == {term \in terms : frequency(term) > 0}
        rare == {term \in known : 100 * frequency(term) <= 65 * Len(corpus)}
        pool == IF rare = {} THEN known ELSE rare
        comparable == {term \in pool : \A other \in pool :
                                            2 * frequency(term) <= 3 * frequency(other)}
        anchors == {term \in comparable :
                        Cardinality({other \in comparable :
                            \/ frequency(other) < frequency(term)
                            \/ (frequency(other) = frequency(term) /\ other < term)})
                        < AnchorMaxTerms}
        docs == UNION {DocsWith(term) : term \in anchors}
    IN  IF Cardinality(terms) >= AnchorMinTerms /\ IsNarrowing(docs) THEN {docs} ELSE {}

(* The first words of the sorted vocabulary that a typed word starts.        *)
Expansions(word) ==
    LET found == {other \in {word} \union Longer[word] : DocsWith(other) # {}}
    IN  {other \in found : Cardinality({w \in found : w < other}) < MaxExpansions}

TokenDocs(token) ==
    UNION {DocsWith(word) : word \in ToSet(token.words)
               \union (IF token.prefix THEN Expansions(Last(token.words)) ELSE {})}

Candidates(scope) ==
    LET inScope == {i \in DOMAIN corpus : corpus[i].folder \in scope}
        narrow(set, filter) ==
            IF filter.negated THEN {docs \ out : docs \in set, out \in Indexed(filter)}
            ELSE UNION {Narrow(set, docs) : docs \in Indexed(filter)}
        keep(set, filter) == IF Indexed(filter) = {} THEN set ELSE narrow(set, filter)
        filtered == FoldLeft(keep, IF scope = {} THEN {} ELSE {inScope}, parsed.filters)
        adjacent == AdjacentAnchor(parsed.ordered)
        anchor == IF parsed.negative # {} THEN {}
                  ELSE IF adjacent # {} THEN adjacent ELSE RareAnchor(ToSet(parsed.ordered))
        lexical == IF anchor # {} THEN UNION anchor
                   ELSE UNION {TokenDocs(token) : token \in {t \in parsed.positive : ~t.field}}
    IN  IF lexical = {} THEN filtered ELSE Narrow(filtered, lexical)

(* What is evaluated against a document, whichever are looked at.            *)
Satisfies(doc, scope) ==
    /\ scope = {} \/ doc.folder \in scope
    /\ \A i \in DOMAIN parsed.filters : FilterHolds(doc, parsed.filters[i])
    /\ \A i \in DOMAIN parsed.ast : Holds(parsed.ast[i], doc)

Scanned(scope) == {i \in DOMAIN corpus : Satisfies(corpus[i], scope)}

Found(scope) ==
    {i \in Scanned(scope) : \A docs \in Candidates(scope) : i \in docs}

-----------------------------------------------------------------------------
QueryInit == query = <<>> /\ parsed = Parse(<<>>) /\ corpus \in Corpora

Type(token) ==
    /\ Len(query) < MaxTokens
    /\ query' = Append(query, token)
    /\ parsed' = Parse(query')
    /\ UNCHANGED corpus

QueryNext == \E token \in Tokens : Type(token)

QuerySpec == QueryInit /\ [][QueryNext]_queryVars

-----------------------------------------------------------------------------
(* The meaning of an expression by its grammar: OR under AND under NOT, with *)
(* adjacent values joined by AND.  Each operator gives the set of the values *)
(* an expression has for a document, empty for one that is not of the form.  *)
RECURSIVE OrValue(_, _), AndValue(_, _), NotValue(_, _)
OrValue(expr, doc) ==
    AndValue(expr, doc) \union
    UNION {{a \/ b : a \in OrValue(SubSeq(expr, 1, i - 1), doc),
                     b \in AndValue(SubSeq(expr, i + 1, Len(expr)), doc)} :
           i \in {j \in DOMAIN expr : IsOp(expr[j], "OR")}}
AndValue(expr, doc) ==
    NotValue(expr, doc) \union
    UNION {LET right == NotValue(SubSeq(expr, i + 1, Len(expr)), doc)
               end == IF IsOp(expr[i], "AND") THEN i - 1 ELSE i
           IN  IF right = {} THEN {}
               ELSE {a /\ b : a \in AndValue(SubSeq(expr, 1, end), doc), b \in right} :
           i \in DOMAIN expr}
NotValue(expr, doc) ==
    CASE expr = <<>> -> {}
      [] Len(expr) = 1 -> IF IsOperand(expr[1]) THEN {TokenMatches(doc, expr[1])} ELSE {}
      [] IsOp(expr[1], "NOT") -> {~value : value \in NotValue(Tail(expr), doc)}
      [] expr[1] = Open /\ Last(expr) = Close -> OrValue(Tail(Front(expr)), doc)
      [] OTHER -> {}

(* A query that is a boolean expression means what the operators' help says  *)
(* ("standard precedence and parentheses"): buildLexicalAst orders, drops    *)
(* and joins nothing that changes what a row must contain.                   *)
ExpressionIsStandard ==
    \A i \in DOMAIN corpus :
        \A value \in OrValue(parsed.lexical, corpus[i]) :
            value = \A j \in DOMAIN parsed.ast : Holds(parsed.ast[j], corpus[i])

(* The indexes and anchors (buildIndexedCandidateSet) leave out a row that   *)
(* satisfies the query only when it lacks a word that is asked for, and then *)
(* only where three terms or more are, or a negation or a raw field.         *)
PruningKeepsRows ==
    LET supported == \A i \in DOMAIN parsed.filters :
                         parsed.filters[i].name = "is" => parsed.filters[i].value \in Modes
        plain == {token \in parsed.positive : ~token.field}
        short == /\ Len(parsed.ordered) < 3 /\ parsed.negative = {}
                 /\ plain = parsed.positive
        whole(doc) == UNION {ToSet(token.words) : token \in plain} \subseteq TextOf(doc)
    IN  supported => \A scope \in Scopes : \A i \in Scanned(scope) :
            (short \/ whole(corpus[i])) => i \in Found(scope)
=============================================================================

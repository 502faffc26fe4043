----------------------------- MODULE NeogenCode -----------------------------
(***************************************************************************)
(* The front end of the code generator: Preprocessor (lines to sentences), *)
(* SentenceParser (sentences to signals and assignments), ExpressionParser *)
(* (expressions to trees) and CLikeTranslator (trees to C).  A text is a   *)
(* sequence of tokens: a word, or a word with what follows its quote, as   *)
(* in switchA'rise and 1000'ms.  Parentheses, comment marks and the        *)
(* semicolon are tokens; no blank follows a ( or precedes a ) or ;.        *)
(***************************************************************************)
EXTENDS Integers, SequencesExt

Event(word, kind) == [w |-> word, ev |-> kind]
Word(word)        == Event(word, "")
Texts == Seq([w : STRING, ev : STRING])

Failed == [ok |-> FALSE]
Cut(text, n) == SubSeq(text, 1, n)
From(text, n) == SubSeq(text, n, Len(text))
PlaceOf(text, word) == SelectInSeq(text, LAMBDA t : t = Word(word))

-----------------------------------------------------------------------------
(***************************************************************************)
(* Preprocessor                                                            *)
(***************************************************************************)
UpTo(text, word) ==
  LET n == PlaceOf(text, word) IN IF n = 0 THEN text ELSE Cut(text, n - 1)

\* Variant: the comment that a line ends is still open on the next one.
AppendLineStaysOpen(buffer, multi, line) ==
  [buffer |-> buffer \o (IF multi THEN <<>> ELSE UpTo(UpTo(line, "//"), "/*")),
   multi  |-> multi \/ PlaceOf(line, "/*") # 0]

\* appendLine: in a comment everything up to its end is dropped; a comment that
\* is opened counts as open although it may end on the same line.
AppendLine(buffer, multi, line) ==
  LET end  == PlaceOf(line, "*/")
      text == UpTo(IF multi THEN From(line, end + 1) ELSE line, "//")
  IN IF multi /\ end = 0
       THEN [buffer |-> buffer, multi |-> TRUE]
       ELSE [buffer |-> buffer \o UpTo(text, "/*"), multi |-> PlaceOf(text, "/*") # 0]

IsSentenciaTerminada(buffer) == buffer # <<>> /\ Last(buffer) = Word(";")

-----------------------------------------------------------------------------
(***************************************************************************)
(* ExpressionParser, with the operators of Main                            *)
(***************************************************************************)
Binary(symbol, precedence) == [type |-> "BINARY", symbol |-> symbol, precedence |-> precedence]
Operators ==
  [not        |-> [type |-> "UNARY", symbol |-> "!", precedence |-> 1],
   or         |-> Binary("||", 3), and |-> Binary("&&", 4),
   equals     |-> Binary("==", 8)]
  @@ "not equals" :> Binary("!=", 8)                       \* two words, one token
  @@ "!" :> [type |-> "UNARY", symbol |-> "!", precedence |-> 1]
  @@ "==" :> Binary("==", 8) @@ "!=" :> Binary("!=", 8)

IsOperator(token, type) ==
  token.ev = "" /\ token.w \in DOMAIN Operators /\ Operators[token.w].type = type
IsExpression(text) ==
  \E k \in DOMAIN text : \E type \in {"UNARY", "BINARY"} : IsOperator(text[k], type)

\* Open parentheses after the first k tokens.
Level(text, k) ==
  Cardinality({j \in 1 .. k : text[j] = Word("(")}) -
  Cardinality({j \in 1 .. k : text[j] = Word(")")})

Balanced(text) ==
  Level(text, Len(text)) = 0 /\ \A k \in DOMAIN text : Level(text, k) >= 0

\* Where the group that ends the text starts, and where the group that starts
\* it ends; as the code counts, from 0, with the length for "no such group".
FindAgrupationStart(text) ==
  IF text = <<>> \/ Last(text) # Word(")") THEN Len(text)
  ELSE LET at == {k \in DOMAIN text : Level(text, k - 1) = Level(text, Len(text))
                                      /\ text[k] = Word("(")}
       IN IF at = {} THEN -1 ELSE Max(at) - 1

FindEndOfAgrupation(text) ==
  IF text = <<>> \/ Head(text) # Word("(") THEN 0
  ELSE LET at == {k \in DOMAIN text : Level(text, k) = 0}
       IN IF at = {} THEN Len(text) ELSE Min(at) - 1

\* findOperator: the last of the weakest operators between the first and the
\* last group (0: none); groups between those two are not skipped.
FindOperator(type, text, upto) ==
  LET range == {k \in FindEndOfAgrupation(text) + 1 .. upto : IsOperator(text[k], type)}
      Weakest(k) == \A j \in range : Operators[text[k].w].precedence <= Operators[text[j].w].precedence
  IN IF range = {} THEN 0 ELSE Max({k \in range : Weakest(k)})

\* findOperands: the text on both sides of the operator, when there is any.
FindOperands(text, at) ==
  (IF at > 1 THEN <<Cut(text, at - 1)>> ELSE <<>>) \o
  (IF at < Len(text) THEN <<From(text, at + 1)>> ELSE <<>>)

Leaf(text) == [type |-> "LEAF", text |-> text]
Node(symbol, operands) == [type |-> "EXPRESSION", symbol |-> symbol, operands |-> operands]
Bad == [type |-> "ERROR"]

\* The group that spans the whole text is taken off.
Stripped(text) ==
  IF FindAgrupationStart(text) = 0 THEN SubSeq(text, 2, Len(text) - 1) ELSE text

OperatorAt(text, upto) ==
  LET binary == FindOperator("BINARY", text, upto)
  IN IF binary # 0 THEN binary ELSE FindOperator("UNARY", text, upto)

\* createNode; Bad are the ClassCastException in the translator of an operator
\* that is not between the groups, and the ArrayIndexOutOfBoundsException.
CreateNode(text, at, operands) ==
  IF at = 0 THEN IF IsExpression(text) THEN Bad ELSE Node("", <<Leaf(text)>>)
  ELSE IF operands = <<>> \/ \E k \in DOMAIN operands : operands[k] = Bad THEN Bad
  ELSE Node(Operators[text[at].w].symbol, operands)

ParseStripped[text \in Texts] ==
  LET Operand(t) == IF IsExpression(t) THEN ParseStripped[Stripped(t)] ELSE Leaf(t)
      Parse(at, texts) ==
        CreateNode(text, at, [k \in DOMAIN texts |-> Operand(texts[k])])
      Split(at) == Parse(at, FindOperands(text, at))
  IN IF FindAgrupationStart(text) < FindEndOfAgrupation(text)
       THEN Bad                                  \* StringIndexOutOfBoundsException
       ELSE Split(OperatorAt(text, FindAgrupationStart(text)))
ParseExpression(text) == ParseStripped[Stripped(text)]

-----------------------------------------------------------------------------
(***************************************************************************)
(* CLikeTranslator                                                         *)
(***************************************************************************)
HasChanged(name) == Event(name, "changed")

\* Variant: an edge is taken for the level it leads to.
TranslateOperandLevel(signal, text) ==
  LET t == text[1] IN
  CASE t.ev \in {"rise", "open"}  -> <<Word(t.w), Word("=="), Word("1")>>
    [] t.ev \in {"fall", "close"} -> <<Word(t.w), Word("=="), Word("0")>>
    [] t.ev = "change"            -> <<HasChanged(t.w)>>
    [] t = Word("toggled")        -> <<Word("!"), Word(signal)>>
    [] t = Word("ON")             -> <<Word("1")>>
    [] t = Word("OFF")            -> <<Word("0")>>
    [] OTHER                      -> <<Word(t.w)>>

\* An operand that is no expression; one of several tokens, as "(a", is copied.
TranslateOperand(signal, text) ==
  LET t == text[1] IN
  IF Len(text) # 1 THEN text
  ELSE CASE
       t.ev = "rise"    -> <<HasChanged(t.w), Word("&&"), Word(t.w), Word("=="), Word("1")>>
    [] t.ev = "fall"    -> <<HasChanged(t.w), Word("&&"), Word(t.w), Word("=="), Word("0")>>
    [] t.ev = "change"  -> <<HasChanged(t.w)>>
    [] t.ev = "ms"      -> <<Word(t.w)>>
    [] t.ev = "close"   -> <<Word(t.w), Word("=="), Word("0")>>
    [] t.ev = "open"    -> <<Word(t.w), Word("=="), Word("1")>>
    [] t = Word("toggled") -> <<Word("!"), Word(signal)>>
    [] t = Word("ON")      -> <<Word("1")>>
    [] t = Word("OFF")     -> <<Word("0")>>
    [] OTHER               -> text

\* The trees with at most n levels of expressions.
Trees[n \in Nat] ==
  LET leaves == [type : {"LEAF"}, text : Texts]
  IN IF n = 0 THEN leaves
     ELSE leaves \union [type : {"EXPRESSION"}, symbol : STRING, operands : Seq(Trees[n - 1])]

\* visit: a tree has fewer levels than its text has tokens.
TranslateNode(signal, tree, levels) ==
  LET Visit[node \in Trees[levels]] ==
        LET Side(k) == IF node.operands[k].type = "EXPRESSION"
                         THEN Visit[node.operands[k]]
                         ELSE TranslateOperand(signal, node.operands[k].text)
            symbol  == IF node.symbol = "" THEN <<>> ELSE <<Word(node.symbol)>>
            inside  == IF Len(node.operands) = 1 THEN symbol \o Side(1)
                                                 ELSE Side(1) \o symbol \o Side(2)
        IN <<Word("(")>> \o inside \o <<Word(")")>>
  IN Visit[tree]

\* parser.parse and translator.translate, as parseAssignment calls them.
TranslateTree(signal, tree, levels) ==
  IF tree = Bad THEN Failed ELSE [ok |-> TRUE, c |-> TranslateNode(signal, tree, levels)]
Translate(signal, text) ==
  IF Balanced(text) THEN TranslateTree(signal, ParseExpression(text), Len(text) + 1)
                    ELSE Failed

-----------------------------------------------------------------------------
(***************************************************************************)
(* SentenceParser                                                          *)
(***************************************************************************)
Reserved == {"is", "when", "for", "every", "while", "until", "otherwise", ","}
Tokens(sentence) == SelectSeq(sentence, LAMBDA t : t # Word(";"))

\* getSentenceParts: a reserved word and the expression up to the next one.
Parts(tokens) ==
  LET heads == {k \in 2 .. Len(tokens) : tokens[k].ev = "" /\ tokens[k].w \in Reserved}
      NextHead(k) == Min({j \in heads : j > k} \union {Len(tokens) + 1})
  IN [n \in 1 .. Cardinality(heads) |->
        LET k == CHOOSE x \in heads : Cardinality({y \in heads : y < x}) = n - 1
        IN [word |-> tokens[k].w, text |-> SubSeq(tokens, k + 1, NextHead(k) - 1)]]

\* How many "is" there are up to part k: the element it belongs to.
ElementOf(parts, k) == Cardinality({j \in 1 .. k : parts[j].word = "is"})

\* The last part for a word in the n-th element; one without text sets null.
Clause(parts, n, word, signal) ==
  LET at == {k \in DOMAIN parts : parts[k].word = word /\ ElementOf(parts, k) = n}
  IN IF at = {} \/ parts[Max(at)].text = <<>> THEN [ok |-> word # "is", c |-> <<>>]
                                              ELSE Translate(signal, parts[Max(at)].text)

Clauses == {"is", "when", "for", "every", "while", "until"}

\* getRawAssignmentElements: a first word that is not reserved, a comma, and a
\* clause before the first "is" are exceptions.
Malformed(tokens, parts) ==
  \/ Len(tokens) > 1 /\ (tokens[2].ev # "" \/ tokens[2].w \notin Reserved)
  \/ \E k \in DOMAIN parts : \/ parts[k].word = ","
                             \/ parts[k].word # "otherwise" /\ ElementOf(parts, k) = 0

\* parseAssignment; an element is its clauses, empty where there are none.
Assignment(signal, elements) ==
  IF \E n \in DOMAIN elements : \E word \in Clauses : ~elements[n][word].ok
    THEN Failed
    ELSE [ok |-> TRUE, signal |-> signal,
          elements |-> [n \in DOMAIN elements |->
                          [word \in Clauses |-> elements[n][word].c]]]
Elements(signal, parts) ==
  [n \in 1 .. ElementOf(parts, Len(parts)) |->
     [word \in Clauses |-> Clause(parts, n, word, signal)]]
ParseAssignment(sentence) ==
  LET tokens == Tokens(sentence)
  IN IF Malformed(tokens, Parts(tokens)) THEN Failed
     ELSE Assignment(tokens[1].w, Elements(tokens[1].w, Parts(tokens)))

\* parseSignal: between the type and "on" there may be the device it is.
ParseSignal(sentence) ==
  LET tokens == Tokens(sentence)
      on     == IF Len(tokens) > 3 /\ tokens[4] = Word("on") THEN 4 ELSE 5
  IN IF /\ Len(tokens) >= on + 2 /\ tokens[2] = Word("is") /\ tokens[on] = Word("on")
        /\ tokens[3].w \in {"input", "output", "memory"}
        /\ tokens[on + 1].w \in {"pin", "location"}
       THEN [ok |-> TRUE, name |-> tokens[1].w, type |-> tokens[3].w]
       ELSE Failed

\* existsSignal on the first token decides what a sentence is.
ExistsSignal(signals, sentence) ==
  \E k \in DOMAIN signals : signals[k].name = sentence[1].w

\* getTemplate names a file of templates/; only these exist.
Template(element) ==
  SelectSeq(<<"for", "while", "every", "until">>, LAMBDA word : element[word] # <<>>)
Templates == {<<>>, <<"for">>, <<"for", "every">>, <<"for", "every", "until">>, <<"while">>}
=============================================================================

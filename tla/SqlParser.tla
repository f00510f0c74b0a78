------------------------------ MODULE SqlParser ------------------------------
(***************************************************************************)
(* wasdb_cli/src/parser.rs from the tokens on: a recursive descent parser  *)
(* with one token of lookahead, which the lexer delivers one at a time.    *)
(* How the lexer makes tokens of characters is left out.                   *)
(***************************************************************************)
EXTENDS Naturals, SequencesExt

CONSTANTS Names,      \* the texts of identifiers
          MaxTokens   \* bound on the length of a statement

ASSUME ParserAssumption == Names # {} /\ MaxTokens \in Nat \ {0}

Keywords == {"SELECT", "FROM", "INSERT", "INTO", "VALUES", "CREATE", "TABLE", "DELETE"}
Marks == {"Comma", "OpenParen", "CloseParen", "Other"}
Token(kind, text) == [kind |-> kind, text |-> text]
Tokens ==
    {Token(k, k) : k \in Keywords \cup Marks}
        \cup {Token("Identifier", n) : n \in Names}
        \cup {Token("Number", "1"), Token("StringLiteral", "s")}
Eof == Token("Eof", "Eof")

VARIABLES
    read,    \* the tokens the lexer has delivered; the last is current_token
    left,    \* what the parser still looks for, in this order
    ast,     \* what it has found so far
    outcome  \* "none", "parsing", "Ok" or "Err"

vars == <<read, left, ast, outcome>>

NoAst == [statement |-> "none", table |-> "none", items |-> <<>>]

Init ==
    /\ read = <<>>
    /\ left = <<>>
    /\ ast = NoAst
    /\ outcome = "none"

-----------------------------------------------------------------------------
(* The statements: the tokens to expect, one after the other, and in their  *)
(* place the table's name and the list of items.                            *)

parse_select == <<"SELECT", "items", "FROM", "table">>
parse_insert == <<"INSERT", "INTO", "table", "VALUES", "OpenParen", "items", "CloseParen">>
parse_create == <<"CREATE", "TABLE", "table", "OpenParen", "items", "CloseParen">>
parse_delete == <<"DELETE", "FROM", "table">>

Statements == {parse_select, parse_insert, parse_create, parse_delete}

\* What a list of a statement is made of; a column of a new table may have a type.
ItemKinds(statement) ==
    IF statement = "INSERT" THEN {"Number", "StringLiteral"} ELSE {"Identifier"}

-----------------------------------------------------------------------------
current_token == Last(read)
Is(kind) == current_token.kind = kind

advance ==
    \E t \in IF Len(read) < MaxTokens /\ ~Is("Eof") THEN Tokens \cup {Eof} ELSE {Eof} :
        read' = Append(read, t)

Seeks(goals) == outcome = "parsing" /\ left # <<>> /\ Head(left) \in goals

\* What was sought is found, or passed over; goals come next.
Found(goals, tree) ==
    /\ left' = goals \o Tail(left)
    /\ ast' = tree
    /\ outcome' = IF left' = <<>> THEN "Ok" ELSE "parsing"

Fails ==
    /\ outcome' = "Err"
    /\ left' = <<>>
    /\ UNCHANGED <<read, ast>>

\* Parser::new on another input.
New ==
    /\ outcome # "parsing"
    /\ \E t \in Tokens \cup {Eof} : read' = <<t>>
    /\ left' = <<"statement">>
    /\ ast' = NoAst
    /\ outcome' = "parsing"

Parse ==
    /\ Seeks({"statement"})
    /\ \/ \E s \in Statements :
              Is(Head(s)) /\ Found(s, [ast EXCEPT !.statement = Head(s)]) /\ UNCHANGED read
       \/ (\A s \in Statements : ~Is(Head(s))) /\ Fails

Expect ==
    /\ Seeks(Keywords \cup Marks)
    /\ \/ Is(Head(left)) /\ advance /\ Found(<<>>, ast)
       \/ ~Is(Head(left)) /\ Fails

TableName ==
    /\ Seeks({"table"})
    /\ \/ Is("Identifier") /\ advance /\ Found(<<>>, [ast EXCEPT !.table = current_token.text])
       \/ ~Is("Identifier") /\ Fails

-----------------------------------------------------------------------------
(* The loops over lists *)

AtItem == current_token.kind \in ItemKinds(ast.statement)
Typed == ast.statement = "CREATE"

Item ==
    /\ Seeks({"items"})
    /\ \/ /\ AtItem
          /\ advance
          /\ Found(IF Typed THEN <<"type", "more">> ELSE <<"more">>,
                   [ast EXCEPT !.items = Append(@, current_token.text)])
       \/ ~AtItem /\ Found(<<>>, ast) /\ UNCHANGED read

Type ==
    /\ Seeks({"type"})
    /\ IF Is("Identifier") THEN advance ELSE UNCHANGED read
    /\ Found(<<>>, ast)

\* Bug: the loop goes on without a comma.
MoreAnyway ==
    /\ Seeks({"more"})
    /\ IF Is("Comma") THEN advance ELSE UNCHANGED read
    /\ Found(IF Is("Comma") \/ AtItem THEN <<"items">> ELSE <<>>, ast)

\* A comma leads to the next turn of the loop, whatever follows it.
More ==
    /\ Seeks({"more"})
    /\ IF Is("Comma") THEN advance ELSE UNCHANGED read
    /\ Found(IF Is("Comma") THEN <<"items">> ELSE <<>>, ast)

Next == New \/ Parse \/ Expect \/ TableName \/ Item \/ Type \/ More

Spec == Init /\ [][Next]_vars

-----------------------------------------------------------------------------
(* Properties *)

\* The grammar.  A list is items between commas: it may be empty, and a comma may
\* follow the last item.  An item begins the list or follows a comma.
Begins(list, i) == i = 1 \/ list[i - 1].kind = "Comma"

\* Each token of a list is an item, the comma behind one, or the type of a column.
IsList(list, statement) ==
    \A i \in DOMAIN list :
        \/ Begins(list, i) /\ list[i].kind \in ItemKinds(statement)
        \/ ~Begins(list, i) /\ list[i].kind = "Comma"
        \/ /\ ~Begins(list, i) /\ Begins(list, i - 1)
           /\ statement = "CREATE" /\ list[i].kind = "Identifier"

ItemsOf(list) ==
    LET upTo[i \in 0 .. Len(list)] ==
            IF i = 0 THEN <<>>
            ELSE IF Begins(list, i) THEN Append(upTo[i - 1], list[i].text)
            ELSE upTo[i - 1]
    IN  upTo[Len(list)]

Sentence(statement, table, list) ==
    LET name == Token("Identifier", table)
        word(k) == Token(k, k)
        close == <<word("CloseParen")>>
    IN  CASE statement = "SELECT" -> <<word("SELECT")>> \o list \o <<word("FROM"), name>>
          [] statement = "INSERT" ->
                 <<word("INSERT"), word("INTO"), name, word("VALUES"), word("OpenParen")>>
                     \o list \o close
          [] statement = "CREATE" ->
                 <<word("CREATE"), word("TABLE"), name, word("OpenParen")>> \o list \o close
          [] statement = "DELETE" -> <<word("DELETE"), word("FROM"), name>>

Lists(statement) ==
    LET tokens == {t \in Tokens : t.kind \in {"Comma"} \cup ItemKinds(statement)}
    IN  IF statement = "DELETE" THEN {<<>>}
        ELSE {l \in SeqOf(tokens, MaxTokens - 1) : IsList(l, statement)}

\* The statements, each with what it says, and all that one of them begins with.
Readings ==
    UNION {{[tokens |-> Sentence(s, n, list),
             says |-> [statement |-> s, table |-> n, items |-> ItemsOf(list)]] :
                n \in Names, list \in Lists(s)} :
           s \in {Head(p) : p \in Statements}}
Beginnings == UNION {{SubSeq(r.tokens, 1, n) : n \in 0 .. Len(r.tokens)} : r \in Readings}

\* The parser accepts a statement of the grammar, and only that, says what it says
\* and has read one token beyond it; and it gives up at the first token with which
\* no statement goes on.
ParsesTheGrammar ==
    /\ outcome = "Ok" => [tokens |-> Front(read), says |-> ast] \in Readings
    /\ outcome \in {"parsing", "Err"} => Front(read) \in Beginnings
    /\ outcome = "Err" => read \notin Beginnings
=============================================================================

-------------------------------- MODULE Parser --------------------------------
(***************************************************************************)
(* Parser (query/parser.cpp): one statement, read symbol by symbol, becomes *)
(* a query object or nothing.                                              *)
(*                                                                         *)
(* A symbol is a piece of text: its class and what it says.  The text is   *)
(* chosen as nextsym reads it; what the parser never reads stays open.     *)
(* The calls of the recursive descent that are still to come are kept in   *)
(* todo, a sequence of items:                                              *)
(*   <<"accept", l>>  accept(l)                                            *)
(*   <<"name", f>>    field f of the query is set to ident, then           *)
(*                    accept(Lex_Ident)                                    *)
(*   <<"loop", x>>    the head of a while loop                             *)
(*   <<"comma", x>>   the if (symbol == Lex_Comma) at the end of its body  *)
(*   <<"do", x>>      what is not one of these                             *)
(***************************************************************************)
EXTENDS Integers, Sequences, SequencesExt

CONSTANTS
  Names,         \* identifiers
  Ints,          \* the numbers without a point that a text holds
  Doubles,       \* those with a point, by their integer part
  Strings,       \* what stands between quotes
  LongStrings,   \* those of more than MaxLength characters
  MaxLength,     \* 255, the length DBDataType asserts
  IntMod,        \* 2^32: intconst is an int
  MaxPieces,     \* bound: the symbols of a text
  Junk,          \* a value or a type that was never set
  NoName         \* the empty string

Keywords == {"select", "create", "insert", "into", "table", "values", "from",
             "int", "double", "varchar", "using", "btree", "hash", "update",
             "where", "delete", "index", "set", "on", "asc", "desc", "unique"}

ASSUME ParserAssumption ==
  /\ Names \cap Keywords = {} /\ NoName \notin Names
  /\ Ints \subseteq Nat /\ Doubles \subseteq Nat
  /\ LongStrings \subseteq Strings
  /\ MaxLength \in Nat \ {0}
  /\ IntMod \in Nat /\ IntMod > 2 * MaxLength
  /\ MaxPieces \in Nat

Punctuation == {"(", ")", ";", "*", ",", "="}
Constants   == {"intconst", "doubleconst", "stringconst"}

Piece(lex, val) == [lex |-> lex, val |-> val]

ASSUME JunkAssumption ==
  /\ Junk \notin {"int", "double", "varchar"}
  /\ Junk \notin [type : Constants, val : Int \cup Strings \cup {NoName}]

Words   == {Piece(k, k) : k \in Keywords} \cup {Piece("Ident", n) : n \in Names}
Signs   == {Piece(s, s) : s \in Punctuation}
Quoted  == {Piece("stringconst", s) : s \in Strings}
Numbers == {Piece("intconst", n) : n \in Ints} \cup {Piece("doubleconst", n) : n \in Doubles}
Other   == Piece("Unknown", "other")   \* a character no symbol starts with
Minus   == Piece("Unknown", "minus")   \* a '-' that no digit follows
End     == Piece("Unknown", "end")     \* the text is over: Lex_End is overwritten

VARIABLES
  symbol, ident, intconst, doubleconst, stringconst, negative,
  hasErrors,
  errormsg,      \* whether errormsg says something
  todo,          \* the calls to come
  result,        \* the query being built
  outcome,       \* "parsing", then what parse() comes to
  text           \* history: the pieces read

lexer == <<symbol, ident, intconst, doubleconst, stringconst, negative, text>>
vars  == <<lexer, hasErrors, errormsg, todo, result, outcome>>

-----------------------------------------------------------------------------
(* nextsym. *)

(* What an int makes of a number. *)
Wrap(n) == ((n + IntMod \div 2) % IntMod) - IntMod \div 2

AtEnd == text # <<>> /\ Last(text) = End

Reads(x) == text' = IF AtEnd THEN text ELSE Append(text, x)

ReadWord(x) ==
  /\ symbol' = x.lex
  /\ ident' = x.val
  /\ Reads(x)
  /\ UNCHANGED <<intconst, doubleconst, stringconst, negative>>

ReadQuoted(x) ==
  /\ symbol' = x.lex
  /\ stringconst' = x.val
  /\ Reads(x)
  /\ UNCHANGED <<ident, intconst, doubleconst, negative>>

(* A mutant of ReadNumber: negative is not cleared. *)
ReadNumberStaysNegative(x, minus) ==
  LET signed == negative \/ minus
      n      == Wrap(x.val)
      d      == IF x.lex = "doubleconst" THEN n ELSE doubleconst
  IN  /\ symbol' = x.lex
      /\ intconst' = IF signed THEN Wrap(-n) ELSE n
      /\ doubleconst' = IF signed THEN -d ELSE d
      /\ negative' = signed
      /\ Reads(Piece(x.lex, IF minus THEN -x.val ELSE x.val))
      /\ UNCHANGED <<ident, stringconst>>

(* A number, with a '-' right before it or not.  Its integer part is added up *)
(* in intconst whether it has a point or not; a double takes it from there,   *)
(* and has its sign put to it as a double.                                    *)
ReadNumber(x, minus) ==
  LET signed == negative \/ minus
      n      == Wrap(x.val)
      d      == IF x.lex = "doubleconst" THEN n ELSE doubleconst
  IN  /\ symbol' = x.lex
      /\ intconst' = IF signed THEN Wrap(-n) ELSE n
      /\ doubleconst' = IF signed THEN -d ELSE d
      /\ negative' = FALSE
      /\ Reads(Piece(x.lex, IF minus THEN -x.val ELSE x.val))
      /\ UNCHANGED <<ident, stringconst>>

ReadOther(x) ==
  /\ symbol' = x.lex
  /\ negative' = (negative \/ x = Minus)
  /\ Reads(x)
  /\ UNCHANGED <<ident, intconst, doubleconst, stringconst>>

nextsym ==
  IF AtEnd \/ Len(text) = MaxPieces THEN ReadOther(End)
  ELSE \/ \E x \in Words : ReadWord(x)
       \/ \E x \in Quoted : ReadQuoted(x)
       \/ \E x \in Numbers, minus \in BOOLEAN : ReadNumber(x, minus)
       \/ \E x \in Signs \cup {Other, Minus, End} : ReadOther(x)

(* A mutant of accept: the error leaves no message. *)
acceptSilently(l) ==
  IF hasErrors THEN UNCHANGED <<lexer, hasErrors, errormsg>>
  ELSE IF symbol = l THEN nextsym /\ UNCHANGED <<hasErrors, errormsg>>
  ELSE hasErrors' = TRUE /\ UNCHANGED <<lexer, errormsg>>

accept(l) ==
  IF hasErrors THEN UNCHANGED <<lexer, hasErrors, errormsg>>
  ELSE IF symbol = l THEN nextsym /\ UNCHANGED <<hasErrors, errormsg>>
  ELSE hasErrors' = TRUE /\ errormsg' = TRUE /\ UNCHANGED lexer

-----------------------------------------------------------------------------
(* The query objects as their constructors leave them (query.hpp). *)
NoQuery == [type |-> "none"]

NewInsert == [type |-> "insert", tablename |-> NoName, cols |-> <<>>, values |-> <<>>]
NewSelect == [type |-> "select", tablename |-> NoName, cols |-> <<>>, allCols |-> Junk,
              condname |-> NoName, condvalue |-> Junk]
NewUpdate == [type |-> "update", tablename |-> NoName, values |-> <<>>,
              condname |-> NoName, condvalue |-> Junk]
NewDelete == [type |-> "delete", tablename |-> NoName, condname |-> NoName, condvalue |-> Junk]
NewTable  == [type |-> "createtable", tablename |-> NoName, columns |-> <<>>]
NewIndex  == [type |-> "createindex", name |-> NoName, tablename |-> NoName,
              cols |-> <<>>, unique |-> FALSE, indextype |-> "none"]

(* What the functions p_... call, in order. *)
Word(l)  == <<"accept", l>>
Name(f)  == <<"name", f>>
Loop(x)  == <<"loop", x>>
Do(x)    == <<"do", x>>

p_insert == <<Word("insert"), Word("into"), Name("tablename"), Word("("), Loop("cols"),
              Word(")"), Word("values"), Word("("), Loop("values"), Word(")"),
              Do("pairs"), Do("return")>>
p_select == <<Word("select"), Do("columns"), Word("from"), Name("tablename"),
              Do("where"), Do("return")>>
p_update == <<Word("update"), Do("table"), Name("tablename"), Word("set"),
              Loop("sets"), Do("updatewhere"), Do("return")>>
p_delete == <<Word("delete"), Word("from"), Name("tablename"), Word("where"),
              Name("condname"), Word("="), Do("condvalue"), Do("return")>>
p_create == <<Word("create"), Do("create")>>

CreateTable == <<Word("table"), Name("tablename"), Word("("), Loop("columns"),
                 Word(")"), Do("return")>>
CreateIndex == <<Do("unique"), Word("index"), Name("name"), Word("on"),
                 Name("tablename"), Word("("), Loop("indexcols"), Word(")"),
                 Word("using"), Do("method"), Do("return")>>

Init ==
  /\ symbol = "Unknown" /\ ident = NoName /\ intconst = 0
  /\ doubleconst = 0 /\ stringconst = NoName /\ negative = FALSE
  /\ hasErrors = FALSE /\ errormsg = FALSE
  /\ todo = <<Do("start")>>
  /\ result = NoQuery
  /\ outcome = "parsing"
  /\ text = <<>>

-----------------------------------------------------------------------------
At(item)  == todo # <<>> /\ Head(todo) = item
Go(items) == todo' = items \o Tail(todo)

(* A mutant of Stop: the parser goes on with the calls it had to come. *)
StopGoesOn(how) ==
  /\ outcome' = how
  /\ todo' = Tail(todo)
  /\ UNCHANGED <<lexer, hasErrors>>

(* A parse that is over, with a query, without one, by a failed assertion or *)
(* past the end of a vector.                                                 *)
Stop(how) ==
  /\ outcome' = how
  /\ todo' = <<>>
  /\ UNCHANGED <<lexer, hasErrors>>

Start ==
  /\ At(Do("start"))
  /\ nextsym
  /\ Go(<<Do("statement")>>)
  /\ UNCHANGED <<hasErrors, errormsg, result, outcome>>

Begin(keyword, query, items) ==
  /\ At(Do("statement"))
  /\ symbol = keyword
  /\ result' = query
  /\ Go(items)
  /\ UNCHANGED <<lexer, hasErrors, errormsg, outcome>>

Statement ==
  \/ Begin("create", NoQuery, p_create)
  \/ Begin("select", NewSelect, p_select)
  \/ Begin("insert", NewInsert, p_insert)
  \/ Begin("update", NewUpdate, p_update)
  \/ Begin("delete", NewDelete, p_delete)

NoStatement ==
  /\ \/ At(Do("statement")) /\ symbol \notin {"create", "select", "insert", "update", "delete"}
     \/ At(Do("create")) /\ symbol \notin {"table", "index", "unique"}
  /\ errormsg' = TRUE
  /\ Stop("null")
  /\ UNCHANGED result

(* A mutant of Accept: it skips what is not the expected symbol. *)
AcceptSkips ==
  /\ todo # <<>> /\ Head(todo)[1] = "accept"
  /\ nextsym
  /\ todo' = IF symbol = Head(todo)[2] THEN Tail(todo) ELSE todo
  /\ UNCHANGED <<hasErrors, errormsg, result, outcome>>

Accept ==
  /\ todo # <<>> /\ Head(todo)[1] = "accept"
  /\ accept(Head(todo)[2])
  /\ Go(<<>>)
  /\ UNCHANGED <<result, outcome>>

(* A mutant of TakeName: ident is read once accept has gone on. *)
TakeNameAfter ==
  /\ todo # <<>> /\ Head(todo)[1] = "name"
  /\ accept("Ident")
  /\ result' = [result EXCEPT ![Head(todo)[2]] = ident']
  /\ Go(<<>>)
  /\ UNCHANGED outcome

TakeName ==
  /\ todo # <<>> /\ Head(todo)[1] = "name"
  /\ result' = [result EXCEPT ![Head(todo)[2]] = ident]
  /\ accept("Ident")
  /\ Go(<<>>)
  /\ UNCHANGED outcome

-----------------------------------------------------------------------------
(* Constants, in VALUES and in p_value. *)
Constant == [type |-> symbol,
             val |-> CASE symbol = "intconst"    -> intconst
                       [] symbol = "doubleconst" -> doubleconst
                       [] symbol = "stringconst" -> stringconst]

(* The DBDataType of a DBDataValue made from a string asserts its length. *)
TooLong == symbol = "stringconst" /\ stringconst \in LongStrings

p_value == IF symbol \in Constants THEN Constant ELSE Junk

AcceptValue ==
  IF symbol \in Constants THEN accept(symbol) ELSE UNCHANGED <<lexer, hasErrors, errormsg>>

CondValue ==
  /\ At(Do("condvalue")) /\ ~TooLong
  /\ result' = [result EXCEPT !.condvalue = p_value]
  /\ AcceptValue
  /\ Go(<<>>)
  /\ UNCHANGED outcome

SetValue ==
  /\ At(Do("setvalue")) /\ ~TooLong
  /\ result' = [result EXCEPT !.values = Front(@) \o <<[Last(@) EXCEPT !.value = p_value]>>]
  /\ AcceptValue
  /\ Go(<<>>)
  /\ UNCHANGED outcome

AssertFails ==
  /\ \/ At(Do("condvalue")) /\ TooLong
     \/ At(Do("setvalue")) /\ TooLong
     \/ At(Loop("values")) /\ TooLong
     \/ At(Do("length")) /\ intconst # 0 /\ intconst \notin 0 .. MaxLength
  /\ Stop("abort")
  /\ UNCHANGED <<errormsg, result>>

-----------------------------------------------------------------------------
(* The loops: what starts an iteration, what it does before the comma. *)
Starts(x) == IF x = "values" THEN symbol \in Constants ELSE symbol = "Ident"

(* A table without a column leaves a message, but no error.                  *)
LeaveLoop(x) ==
  /\ At(Loop(x)) /\ ~Starts(x)
  /\ errormsg' = (errormsg \/ (x = "columns" /\ result.columns = <<>>))
  /\ Go(<<>>)
  /\ UNCHANGED <<lexer, hasErrors, result, outcome>>

Cols ==
  /\ At(Loop("cols")) /\ Starts("cols")
  /\ result' = [result EXCEPT !.cols = Append(@, ident)]
  /\ accept("Ident")
  /\ Go(<<<<"comma", "cols">>>>)
  /\ UNCHANGED outcome

Values ==
  /\ At(Loop("values")) /\ Starts("values") /\ ~TooLong
  /\ result' = [result EXCEPT !.values = Append(@, Constant)]
  /\ accept(symbol)
  /\ Go(<<<<"comma", "values">>>>)
  /\ UNCHANGED outcome

Columns ==
  /\ At(Loop("columns")) /\ Starts("columns")
  /\ result' = [result EXCEPT !.columns = Append(@, [name |-> ident, type |-> Junk, len |-> Junk])]
  /\ accept("Ident")
  /\ Go(<<Do("type"), <<"comma", "columns">>>>)
  /\ UNCHANGED outcome

IndexCols ==
  /\ At(Loop("indexcols")) /\ Starts("indexcols")
  /\ result' = [result EXCEPT !.cols = Append(@, ident)]
  /\ accept("Ident")
  /\ Go(<<Do("order"), <<"comma", "indexcols">>>>)
  /\ UNCHANGED outcome

(* p_valueslist: the name is taken after its symbol has been accepted. *)
Sets ==
  /\ At(Loop("sets")) /\ Starts("sets")
  /\ accept("Ident")
  /\ Go(<<Do("setname"), Do("setvalue"), <<"comma", "sets">>>>)
  /\ UNCHANGED <<result, outcome>>

SetName ==
  /\ At(Do("setname"))
  /\ result' = [result EXCEPT !.values = Append(@, [name |-> ident, value |-> Junk])]
  /\ accept("=")
  /\ Go(<<>>)
  /\ UNCHANGED outcome

(* Some loops accept the comma, some call nextsym, errors or not. *)
Comma(x) ==
  /\ At(<<"comma", x>>)
  /\ IF symbol = ","
     THEN /\ Go(<<Loop(x)>>)
          /\ IF x = "cols" THEN accept(",") ELSE nextsym /\ UNCHANGED <<hasErrors, errormsg>>
     ELSE Go(<<>>) /\ UNCHANGED <<lexer, hasErrors, errormsg>>
  /\ UNCHANGED <<result, outcome>>

-----------------------------------------------------------------------------
(* The rest of each statement. *)

(* INSERT: cols[i] with values[i], for every i, whatever went wrong before. *)
Pairs ==
  /\ At(Do("pairs"))
  /\ IF Len(result.cols) > Len(result.values) THEN Stop("out of range")
     ELSE /\ hasErrors' = (hasErrors \/ Len(result.cols) # Len(result.values))
          /\ Go(<<>>)
          /\ UNCHANGED <<lexer, outcome>>
  /\ UNCHANGED <<errormsg, result>>

SelectColumns ==
  /\ At(Do("columns"))
  /\ IF symbol = "*"
     THEN result' = [result EXCEPT !.allCols = TRUE] /\ accept("*") /\ Go(<<>>)
     ELSE Go(<<Loop("cols")>>) /\ UNCHANGED <<lexer, hasErrors, errormsg, result>>
  /\ UNCHANGED outcome

Where ==
  /\ At(Do("where"))
  /\ IF symbol = "where"
     THEN accept("where") /\ Go(<<Name("condname"), Word("="), Do("condvalue")>>)
     ELSE Go(<<>>) /\ UNCHANGED <<lexer, hasErrors, errormsg>>
  /\ UNCHANGED <<result, outcome>>

UpdateTable ==
  /\ At(Do("table"))
  /\ IF symbol = "table" THEN accept("table") ELSE UNCHANGED <<lexer, hasErrors, errormsg>>
  /\ Go(<<>>)
  /\ UNCHANGED <<result, outcome>>

(* A WHERE without an identifier after it is dropped. *)
UpdateWhere ==
  /\ At(Do("updatewhere"))
  /\ IF symbol = "where" THEN accept("where") /\ Go(<<Do("condition")>>)
     ELSE Go(<<>>) /\ UNCHANGED <<lexer, hasErrors, errormsg>>
  /\ UNCHANGED <<result, outcome>>

Condition ==
  /\ At(Do("condition"))
  /\ IF symbol = "Ident"
     THEN accept("Ident") /\ Go(<<Do("condname"), Do("condvalue")>>)
     ELSE Go(<<>>) /\ UNCHANGED <<lexer, hasErrors, errormsg>>
  /\ UNCHANGED <<result, outcome>>

(* A mutant of UpdateCondName: the name of the condition is not kept. *)
UpdateCondNameLost ==
  /\ At(Do("condname"))
  /\ accept("=")
  /\ Go(<<>>)
  /\ UNCHANGED <<result, outcome>>

UpdateCondName ==
  /\ At(Do("condname"))
  /\ result' = [result EXCEPT !.condname = ident]
  /\ accept("=")
  /\ Go(<<>>)
  /\ UNCHANGED outcome

Create(query, items, keywords) ==
  /\ At(Do("create"))
  /\ symbol \in keywords
  /\ result' = query
  /\ Go(items)
  /\ UNCHANGED <<lexer, hasErrors, errormsg, outcome>>

Typed(type, len) ==
  [result EXCEPT !.columns = Front(@) \o <<[Last(@) EXCEPT !.type = type, !.len = len]>>]

(* A column whose type is not one of the three stays without one. *)
ColumnType ==
  /\ At(Do("type"))
  /\ IF symbol \in {"int", "double"}
     THEN result' = Typed(symbol, 0) /\ nextsym /\ Go(<<>>)
     ELSE IF symbol = "varchar"
     THEN nextsym /\ Go(<<Word("("), Do("length"), Word(")")>>) /\ UNCHANGED result
     ELSE Go(<<>>) /\ UNCHANGED <<lexer, result>>
  /\ UNCHANGED <<hasErrors, errormsg, outcome>>

Length ==
  /\ At(Do("length"))
  /\ intconst \in 0 .. MaxLength
  /\ result' = IF intconst # 0 THEN Typed("varchar", intconst) ELSE result
  /\ accept("intconst")
  /\ Go(<<>>)
  /\ UNCHANGED outcome

Unique ==
  /\ At(Do("unique"))
  /\ IF symbol = "unique" THEN accept("unique") /\ result' = [result EXCEPT !.unique = TRUE]
     ELSE UNCHANGED <<lexer, hasErrors, errormsg, result>>
  /\ Go(<<>>)
  /\ UNCHANGED outcome

Order ==
  /\ At(Do("order"))
  /\ IF symbol \in {"asc", "desc"} THEN accept(symbol) ELSE UNCHANGED <<lexer, hasErrors, errormsg>>
  /\ Go(<<>>)
  /\ UNCHANGED <<result, outcome>>

(* hash gives a tree too; anything else leaves the type at -1. *)
Method ==
  /\ At(Do("method"))
  /\ IF symbol \in {"btree", "hash"}
     THEN accept(symbol) /\ result' = [result EXCEPT !.indextype = "TREEINDEX"]
     ELSE UNCHANGED <<lexer, hasErrors, errormsg, result>>
  /\ Go(<<>>)
  /\ UNCHANGED outcome

Return ==
  /\ At(Do("return"))
  /\ Stop(IF hasErrors THEN "null" ELSE "query")
  /\ UNCHANGED <<errormsg, result>>

Loops == {"cols", "values", "columns", "indexcols", "sets"}

Step ==
  \/ Start \/ Statement \/ NoStatement \/ Accept \/ TakeName
  \/ CondValue \/ SetValue \/ AssertFails
  \/ \E x \in Loops : LeaveLoop(x) \/ Comma(x)
  \/ Cols \/ Values \/ Columns \/ IndexCols \/ Sets \/ SetName
  \/ Pairs \/ SelectColumns \/ Where \/ UpdateTable \/ UpdateWhere
  \/ Condition \/ UpdateCondName
  \/ Create(NewTable, CreateTable, {"table"})
  \/ Create(NewIndex, CreateIndex, {"index", "unique"})
  \/ ColumnType \/ Length \/ Unique \/ Order \/ Method \/ Return

Spec == Init /\ [][Step]_vars

(* The thread that parses goes on. *)
FairSpec == Spec /\ WF_vars(Step)

-----------------------------------------------------------------------------
(* Properties. *)

TypeOK ==
  /\ symbol \in Keywords \cup Punctuation \cup Constants \cup {"Ident", "Unknown"}
  /\ ident \in Names \cup Keywords \cup {NoName}
  /\ {intconst, doubleconst} \subseteq -(IntMod \div 2) .. IntMod \div 2
  /\ {negative, hasErrors, errormsg} \subseteq BOOLEAN
  /\ outcome \in {"parsing", "query", "null", "abort", "out of range"}
  /\ (todo = <<>>) = (outcome # "parsing")
  /\ Len(text) <= MaxPieces + 1

(* A '-' that no number follows never turns the sign of a later number:     *)
(* nothing goes on from it.                                                 *)
SignNotPending == negative => symbol = "Unknown"

(* The part of the text a query was made from: all but the symbol ahead.    *)
Consumed == Front(text)

(* The pieces that say something, of a text and of a query. *)
AtomOf(x)     == IF x.lex \in Constants \cup {"Ident"} THEN <<x>> ELSE <<>>
Atoms(pieces) == FlattenSeq([i \in DOMAIN pieces |-> AtomOf(pieces[i])])

IdentPiece(n)   == Piece("Ident", n)
ConstPiece(v)   == IF v = Junk THEN <<>> ELSE <<Piece(v.type, v.val)>>
SetPiece(s)     == <<IdentPiece(s.name)>> \o ConstPiece(s.value)
ColumnPiece(c)  ==
  <<IdentPiece(c.name)>> \o IF c.type = "varchar" THEN <<Piece("intconst", c.len)>> ELSE <<>>

NamePieces(names)     == [i \in DOMAIN names |-> IdentPiece(names[i])]
ValuePieces(values)   == FlattenSeq([i \in DOMAIN values |-> ConstPiece(values[i])])
SetPieces(sets)       == FlattenSeq([i \in DOMAIN sets |-> SetPiece(sets[i])])
ColumnPieces(columns) == FlattenSeq([i \in DOMAIN columns |-> ColumnPiece(columns[i])])
CondPieces(q) ==
  IF q.condname = NoName THEN <<>> ELSE <<IdentPiece(q.condname)>> \o ConstPiece(q.condvalue)

(* The names and constants of a query, in the order a statement gives them. *)
QueryAtoms(q) ==
  CASE q.type = "insert" -> <<IdentPiece(q.tablename)>> \o NamePieces(q.cols) \o ValuePieces(q.values)
    [] q.type = "select" -> NamePieces(q.cols) \o <<IdentPiece(q.tablename)>> \o CondPieces(q)
    [] q.type = "update" -> <<IdentPiece(q.tablename)>> \o SetPieces(q.values) \o CondPieces(q)
    [] q.type = "delete" -> <<IdentPiece(q.tablename)>> \o CondPieces(q)
    [] q.type = "createtable" -> <<IdentPiece(q.tablename)>> \o ColumnPieces(q.columns)
    [] q.type = "createindex" -> <<IdentPiece(q.name), IdentPiece(q.tablename)>> \o NamePieces(q.cols)

(* A number that an int does not hold, nor one from which a double is made,  *)
(* and a length of 0, which makes no VARCHAR.                                *)
Overflows(x) ==
  \/ x.lex = "intconst" /\ Wrap(x.val) # x.val
  \/ x.lex = "doubleconst" /\ \E n \in {x.val, -x.val} : Wrap(n) # n
ZeroLength(x) == result.type = "createtable" /\ x = Piece("intconst", 0)

(* An accepted statement carries every name and every constant that was     *)
(* read for it, each with its sign, in its place and once, and no other.    *)
AtomsKept ==
  outcome = "query" /\ ~(\E i \in DOMAIN Consumed : Overflows(Consumed[i]) \/ ZeroLength(Consumed[i]))
    => QueryAtoms(result) = Atoms(Consumed)

(* WHERE makes a condition; only UPDATE lets it go, when no name follows.   *)
ConditionKept ==
  outcome = "query" /\ (\E i \in DOMAIN Consumed : Consumed[i].lex = "where")
    => \/ result.condname # NoName
       \/ result.type = "update" /\ Last(text).lex # "Ident"

(* A statement that is refused leaves a message for the shell to print, but *)
(* for an INSERT with more values than columns.                             *)
RefusedWithMessage ==
  outcome = "null" /\ ~errormsg
    => result.type = "insert" /\ Len(result.cols) < Len(result.values)

(* The assertion of DBDataType on the length of a type, for every type and  *)
(* value the parser makes.                                                  *)
TypeLengthsFit == outcome # "abort"

(* Every parse returns, also after an error and past the end of the text,    *)
(* where the symbol is never Lex_End.                                       *)
ParseReturns == todo # <<>> ~> todo = <<>>
=============================================================================

----------------------------- MODULE ParserProofs -----------------------------
(***************************************************************************)
(* What the parser knows of a statement at every symbol: which calls may   *)
(* be still to come, what they know of the query, where the condition of a *)
(* WHERE is to be found, why a statement is refused, and which part of the *)
(* query has been filled in from the text so far.  For every set of names  *)
(* and constants and texts of any length.                                  *)
(***************************************************************************)
EXTENDS Parser, CommonLemmas

Symbols == Keywords \cup Punctuation \cup Constants \cup {"Ident", "Unknown"}
Idents  == Names \cup Keywords \cup {NoName}
Spoken  == Idents \cup Punctuation \cup Strings \cup Int \cup {"other", "minus", "end"}
Pieces  == [lex : Symbols, val : Spoken]
Literal == [type : Constants, val : Int \cup Strings \cup {NoName}]

-----------------------------------------------------------------------------
(* The calls to come. *)

Fields == {"tablename", "condname", "name"}
Deeds  == {"statement", "create", "return", "pairs", "columns", "where", "table",
           "updatewhere", "condition", "condname", "condvalue", "setname", "setvalue",
           "unique", "method", "type", "length", "order"}

Item == ({"accept"} \X (Symbols \ {"Unknown"})) \cup ({"name"} \X Fields)
          \cup ({"loop", "comma"} \X Loops) \cup ({"do"} \X Deeds)

(* The calls with which a parse may end: a plan has one, its last. *)
Enders == {Do("statement"), Do("create"), Do("return")}

(* After these the next call is known.  Do("condname") is only ever put in  *)
(* front of what there is.                                                  *)
BeforeReturn == {Do("pairs"), Do("updatewhere"), Do("condition")}

FollowedBy(x, y) ==
  /\ x = Word("where") => y = Name("condname")
  /\ x \in BeforeReturn => y = Do("return")
  /\ y # Do("condname")

Linked(s) == \A k \in 1 .. Len(s) - 1 : FollowedBy(s[k], s[k + 1])

Ended(s) == \A k \in 1 .. Len(s) : s[k] \in Enders <=> k = Len(s)

Plan(s) == s \in Seq(Item) /\ Linked(s) /\ Ended(s)

(* What a call knows of the query that is being built. *)
OfCondition == {Do("where"), Do("updatewhere"), Do("condition"), Do("condname"),
                Word("where"), Name("condname")}
OfUpdate    == {Do("updatewhere"), Do("condition"), Do("condname")}
OfSets      == {Loop("sets"), <<"comma", "sets">>, Do("setname"), Do("setvalue")}

Serves(x, q) ==
  /\ x \in OfCondition => "condname" \in DOMAIN q
  /\ x \in OfUpdate => q.type = "update"
  /\ x = Do("pairs") => q.type = "insert"
  /\ x \in OfSets => q.type # "insert"
  /\ x \in {Do("statement"), Do("create")} => "condname" \notin DOMAIN q

Served(s, q) == \A k \in 1 .. Len(s) : Serves(s[k], q)

QueryOK(q) ==
  /\ "type" \in DOMAIN q
  /\ q.type = "insert" =>
       /\ {"cols", "values"} \subseteq DOMAIN q
       /\ q.cols \in Seq(Idents) /\ q.values \in Seq(Literal)

-----------------------------------------------------------------------------
(* The inductive invariant. *)

LexOK ==
  /\ symbol \in Symbols /\ ident \in Idents
  /\ symbol = "Ident" => ident \in Names
  /\ {intconst, doubleconst} \subseteq -(IntMod \div 2) .. IntMod \div 2
  /\ stringconst \in Strings \cup {NoName}
  /\ negative \in BOOLEAN /\ (negative => symbol = "Unknown")
  /\ text \in Seq(Pieces)
  /\ text # <<>> => symbol = text[Len(text)].lex
  /\ Len(text) <= MaxPieces \/ (Len(text) = MaxPieces + 1 /\ AtEnd)

Unstarted ==
  /\ todo = <<Do("start")>> /\ text = <<>> /\ symbol = "Unknown" /\ negative = FALSE
  /\ hasErrors = FALSE /\ errormsg = FALSE /\ result = NoQuery /\ outcome = "parsing"

(* A WHERE has been read, and is not the symbol ahead. *)
Seen == \E i \in 1 .. Len(text) - 1 : text[i].lex = "where"

Conditioned == "condname" \in DOMAIN result /\ result.condname # NoName

AboutToEnd == todo = <<>> \/ At(Do("return"))

(* The condition of a WHERE that has been read is in the query, or its name *)
(* is the next symbol to be taken, or there was none to take.               *)
WhereOK ==
  ~hasErrors =>
    /\ Seen => \/ Conditioned
               \/ At(Name("condname"))
               \/ At(Do("condition"))
               \/ At(Do("condname"))
               \/ result.type = "update" /\ AboutToEnd /\ symbol # "Ident"
    /\ At(Do("condname")) /\ symbol = "=" => ident \in Names

(* The one error without a message is found right before the end. *)
RefusedOK ==
  hasErrors /\ ~errormsg =>
    result.type = "insert" /\ Len(result.cols) < Len(result.values) /\ AboutToEnd

EndOK ==
  /\ hasErrors \in BOOLEAN /\ errormsg \in BOOLEAN
  /\ outcome \in {"parsing", "query", "null", "abort", "out of range"}
  /\ (todo = <<>>) = (outcome # "parsing")
  /\ outcome = "query" => ~hasErrors
  /\ outcome = "null" /\ ~errormsg => hasErrors

Begun ==
  /\ Plan(todo) /\ Served(todo, result) /\ QueryOK(result)
  /\ WhereOK /\ RefusedOK /\ EndOK

IInv == LexOK /\ (Unstarted \/ Begun)

-----------------------------------------------------------------------------
(* Plans. *)

LEMMA Items ==
  /\ \A l \in Symbols \ {"Unknown"} : Word(l) \in Item
  /\ \A f \in Fields : Name(f) \in Item
  /\ \A x \in Loops : Loop(x) \in Item /\ <<"comma", x>> \in Item
  /\ \A x \in Deeds : Do(x) \in Item
BY DEF Item, Word, Name, Loop, Do

LEMMA WordsAreItems ==
  /\ \A l \in Keywords \cup Punctuation \cup Constants \cup {"Ident"} : Word(l) \in Item
BY Items DEF Symbols, Keywords, Punctuation, Constants

(* The calls that every statement begins with are a plan of their own, and  *)
(* serve the query the statement begins with.                               *)
LEMMA InsertPlan ==
  Plan(p_insert) /\ Served(p_insert, NewInsert) /\ QueryOK(NewInsert)
<1>2. p_insert \in Seq(Item)
  <2>1. /\ Word("insert") \in Item /\ Word("into") \in Item /\ Word("values") \in Item
        /\ Word("(") \in Item /\ Word(")") \in Item
    BY WordsAreItems DEF Keywords, Punctuation
  <2>2. /\ Name("tablename") \in Item /\ Loop("cols") \in Item /\ Loop("values") \in Item
        /\ Do("pairs") \in Item /\ Do("return") \in Item
    BY Items DEF Fields, Loops, Deeds
  <2> QED BY <2>1, <2>2 DEF p_insert
<1>3. Linked(p_insert)
  BY DEF p_insert, Linked, FollowedBy, BeforeReturn, Word, Name, Loop, Do
<1>4. Ended(p_insert)
  BY DEF p_insert, Ended, Enders, Word, Name, Loop, Do
<1>5. Served(p_insert, NewInsert)
  BY DEF p_insert, Served, Serves, OfCondition, OfUpdate, OfSets, NewInsert, Word, Name, Loop, Do
<1>6. QueryOK(NewInsert)
  BY DEF QueryOK, NewInsert
<1> QED BY <1>2, <1>3, <1>4, <1>5, <1>6 DEF Plan

LEMMA SelectPlan ==
  Plan(p_select) /\ Served(p_select, NewSelect) /\ QueryOK(NewSelect)
<1>1. p_select \in Seq(Item)
  <2>1. Word("select") \in Item /\ Word("from") \in Item
    BY WordsAreItems DEF Keywords, Punctuation
  <2>2. /\ Do("columns") \in Item /\ Name("tablename") \in Item /\ Do("where") \in Item
        /\ Do("return") \in Item
    BY Items DEF Fields, Loops, Deeds
  <2> QED BY <2>1, <2>2 DEF p_select
<1>2. Linked(p_select)
  BY DEF p_select, Linked, FollowedBy, BeforeReturn, Word, Name, Loop, Do
<1>3. Ended(p_select)
  BY DEF p_select, Ended, Enders, Word, Name, Loop, Do
<1>4. "condname" \in DOMAIN NewSelect /\ "type" \in DOMAIN NewSelect /\ NewSelect.type = "select"
  BY DEF NewSelect
<1>5. Served(p_select, NewSelect)
  BY <1>4 DEF p_select, Served, Serves, OfCondition, OfUpdate, OfSets, Word, Name, Loop, Do
<1> QED BY <1>1, <1>2, <1>3, <1>4, <1>5 DEF Plan, QueryOK

LEMMA UpdatePlan ==
  Plan(p_update) /\ Served(p_update, NewUpdate) /\ QueryOK(NewUpdate)
<1>1. p_update \in Seq(Item)
  <2>1. Word("update") \in Item /\ Word("set") \in Item
    BY WordsAreItems DEF Keywords, Punctuation
  <2>2. /\ Do("table") \in Item /\ Name("tablename") \in Item /\ Loop("sets") \in Item
        /\ Do("updatewhere") \in Item /\ Do("return") \in Item
    BY Items DEF Fields, Loops, Deeds
  <2> QED BY <2>1, <2>2 DEF p_update
<1>2. Linked(p_update)
  BY DEF p_update, Linked, FollowedBy, BeforeReturn, Word, Name, Loop, Do
<1>3. Ended(p_update)
  BY DEF p_update, Ended, Enders, Word, Name, Loop, Do
<1>4. "condname" \in DOMAIN NewUpdate /\ "type" \in DOMAIN NewUpdate /\ NewUpdate.type = "update"
  BY DEF NewUpdate
<1>5. Served(p_update, NewUpdate)
  BY <1>4 DEF p_update, Served, Serves, OfCondition, OfUpdate, OfSets, Word, Name, Loop, Do
<1> QED BY <1>1, <1>2, <1>3, <1>4, <1>5 DEF Plan, QueryOK

LEMMA DeletePlan ==
  Plan(p_delete) /\ Served(p_delete, NewDelete) /\ QueryOK(NewDelete)
<1>1. p_delete \in Seq(Item)
  <2>1. /\ Word("delete") \in Item /\ Word("from") \in Item /\ Word("where") \in Item
        /\ Word("=") \in Item
    BY WordsAreItems DEF Keywords, Punctuation
  <2>2. /\ Name("tablename") \in Item /\ Name("condname") \in Item /\ Do("condvalue") \in Item
        /\ Do("return") \in Item
    BY Items DEF Fields, Loops, Deeds
  <2> QED BY <2>1, <2>2 DEF p_delete
<1>2. Linked(p_delete)
  BY DEF p_delete, Linked, FollowedBy, BeforeReturn, Word, Name, Loop, Do
<1>3. Ended(p_delete)
  BY DEF p_delete, Ended, Enders, Word, Name, Loop, Do
<1>4. "condname" \in DOMAIN NewDelete /\ "type" \in DOMAIN NewDelete /\ NewDelete.type = "delete"
  BY DEF NewDelete
<1>5. Served(p_delete, NewDelete)
  BY <1>4 DEF p_delete, Served, Serves, OfCondition, OfUpdate, OfSets, Word, Name, Loop, Do
<1> QED BY <1>1, <1>2, <1>3, <1>4, <1>5 DEF Plan, QueryOK

LEMMA CreatePlan ==
  Plan(p_create) /\ Served(p_create, NoQuery) /\ QueryOK(NoQuery)
<1>1. p_create \in Seq(Item)
  <2>1. Word("create") \in Item
    BY WordsAreItems DEF Keywords
  <2>2. Do("create") \in Item
    BY Items DEF Deeds
  <2> QED BY <2>1, <2>2 DEF p_create
<1>2. Linked(p_create) /\ Ended(p_create)
  BY DEF p_create, Linked, FollowedBy, BeforeReturn, Ended, Enders, Word, Name, Do
<1>3. Served(p_create, NoQuery)
  BY DEF p_create, Served, Serves, OfCondition, OfUpdate, OfSets, NoQuery, Word, Name, Loop, Do
<1> QED BY <1>1, <1>2, <1>3 DEF Plan, QueryOK, NoQuery

LEMMA TablePlan ==
  Plan(CreateTable) /\ Served(CreateTable, NewTable) /\ QueryOK(NewTable)
<1>1. CreateTable \in Seq(Item)
  <2>1. Word("table") \in Item /\ Word("(") \in Item /\ Word(")") \in Item
    BY WordsAreItems DEF Keywords, Punctuation
  <2>2. Name("tablename") \in Item /\ Loop("columns") \in Item /\ Do("return") \in Item
    BY Items DEF Fields, Loops, Deeds
  <2> QED BY <2>1, <2>2 DEF CreateTable
<1>2. Linked(CreateTable)
  BY DEF CreateTable, Linked, FollowedBy, BeforeReturn, Word, Name, Loop, Do
<1>3. Ended(CreateTable)
  BY DEF CreateTable, Ended, Enders, Word, Name, Loop, Do
<1>4. Served(CreateTable, NewTable)
  BY DEF CreateTable, Served, Serves, OfCondition, OfUpdate, OfSets, NewTable, Word, Name, Loop, Do
<1> QED BY <1>1, <1>2, <1>3, <1>4 DEF Plan, QueryOK, NewTable

LEMMA IndexPlan ==
  Plan(CreateIndex) /\ Served(CreateIndex, NewIndex) /\ QueryOK(NewIndex)
<1>1. CreateIndex \in Seq(Item)
  <2>1. /\ Word("index") \in Item /\ Word("on") \in Item /\ Word("(") \in Item
        /\ Word(")") \in Item /\ Word("using") \in Item
    BY WordsAreItems DEF Keywords, Punctuation
  <2>2. /\ Do("unique") \in Item /\ Name("name") \in Item /\ Name("tablename") \in Item
        /\ Loop("indexcols") \in Item /\ Do("method") \in Item /\ Do("return") \in Item
    BY Items DEF Fields, Loops, Deeds
  <2> QED BY <2>1, <2>2 DEF CreateIndex
<1>2. Linked(CreateIndex)
  BY DEF CreateIndex, Linked, FollowedBy, BeforeReturn, Word, Name, Loop, Do
<1>3. Ended(CreateIndex)
  BY DEF CreateIndex, Ended, Enders, Word, Name, Loop, Do
<1>4. Served(CreateIndex, NewIndex)
  BY DEF CreateIndex, Served, Serves, OfCondition, OfUpdate, OfSets, NewIndex, Word, Name, Loop, Do
<1> QED BY <1>1, <1>2, <1>3, <1>4 DEF Plan, QueryOK, NewIndex

(* What is left of a plan when its first call has been made. *)
LEMMA TailPlan ==
  ASSUME NEW s, Plan(s), s # <<>>, Head(s) \notin Enders
  PROVE  /\ Plan(Tail(s)) /\ Tail(s) # <<>> /\ FollowedBy(Head(s), Head(Tail(s)))
         /\ Len(Tail(s)) = Len(s) - 1
         /\ \A k \in 1 .. Len(s) - 1 : Tail(s)[k] = s[k + 1]
<1>1. /\ s \in Seq(Item) /\ Len(s) \in Nat /\ Len(s) # 0
      /\ Tail(s) \in Seq(Item) /\ Len(Tail(s)) = Len(s) - 1 /\ Head(s) = s[1]
      /\ \A k \in 1 .. Len(s) - 1 : Tail(s)[k] = s[k + 1]
  BY HeadTailProperties, EmptySeq, LenProperties DEF Plan
<1>2. Len(s) # 1
  <2>1. 1 \in 1 .. Len(s)
    BY <1>1
  <2>2. s[1] \in Enders <=> 1 = Len(s)
    BY <2>1 DEF Plan, Ended
  <2> QED BY <1>1, <2>2
<1>3. Len(Tail(s)) \in Nat \ {0} /\ Head(Tail(s)) = Tail(s)[1] /\ Tail(s) # <<>>
  BY <1>1, <1>2
<1>4. Linked(Tail(s))
  <2> SUFFICES ASSUME NEW k \in 1 .. Len(s) - 2 PROVE FollowedBy(Tail(s)[k], Tail(s)[k + 1])
    BY <1>1 DEF Linked
  <2>1. k + 1 \in 1 .. Len(s) - 1 /\ k \in 1 .. Len(s) - 1
    BY <1>1
  <2>2. FollowedBy(s[k + 1], s[(k + 1) + 1])
    BY <2>1 DEF Plan, Linked
  <2> QED BY <1>1, <2>1, <2>2
<1>5. Ended(Tail(s))
  <2> SUFFICES ASSUME NEW k \in 1 .. Len(s) - 1
               PROVE  Tail(s)[k] \in Enders <=> k = Len(s) - 1
    BY <1>1 DEF Ended
  <2>1. k + 1 \in 1 .. Len(s) /\ (k + 1 = Len(s) <=> k = Len(s) - 1)
    BY <1>1
  <2>2. s[k + 1] \in Enders <=> k + 1 = Len(s)
    BY <2>1 DEF Plan, Ended
  <2> QED BY <1>1, <2>1, <2>2
<1>6. FollowedBy(s[1], s[2])
  <2>1. 1 \in 1 .. Len(s) - 1 /\ 1 + 1 = 2
    BY <1>1, <1>2
  <2> QED BY <2>1 DEF Plan, Linked
<1>7. Head(Tail(s)) = s[2]
  <2>1. 1 \in 1 .. Len(s) - 1 /\ 1 + 1 = 2
    BY <1>1, <1>2
  <2> QED BY <1>1, <1>3, <2>1
<1> QED BY <1>1, <1>3, <1>4, <1>5, <1>6, <1>7 DEF Plan

(* A plan with a call that ends it has no other. *)
LEMMA LastCall ==
  ASSUME NEW s, Plan(s), s # <<>>, Head(s) \in Enders
  PROVE  Tail(s) = <<>>
<1>1. /\ s \in Seq(Item) /\ Len(s) \in Nat /\ Len(s) # 0
      /\ Tail(s) \in Seq(Item) /\ Len(Tail(s)) = Len(s) - 1 /\ Head(s) = s[1]
  BY HeadTailProperties, EmptySeq, LenProperties DEF Plan
<1>2. Len(s) = 1
  <2>1. 1 \in 1 .. Len(s)
    BY <1>1
  <2>2. s[1] \in Enders <=> 1 = Len(s)
    BY <2>1 DEF Plan, Ended
  <2> QED BY <1>1, <2>2
<1>3. Len(Tail(s)) = 0
  BY <1>1, <1>2
<1> QED BY <1>1, <1>3, EmptySeq

(* Calls put before a plan. *)
Leads(a, s) == Linked(a) /\ (a # <<>> => FollowedBy(a[Len(a)], Head(s)))

LEMMA PutBefore ==
  ASSUME NEW a \in Seq(Item \ Enders), NEW s, Plan(s), s # <<>>, Leads(a, s)
  PROVE  /\ Plan(a \o s) /\ a \o s # <<>>
         /\ Head(a \o s) = IF a = <<>> THEN Head(s) ELSE a[1]
         /\ Len(a \o s) = Len(a) + Len(s)
         /\ \A k \in 1 .. Len(a) + Len(s) :
              (a \o s)[k] = IF k <= Len(a) THEN a[k] ELSE s[k - Len(a)]
<1> DEFINE t == a \o s
<1>1. /\ a \in Seq(Item) /\ s \in Seq(Item) /\ Len(a) \in Nat /\ Len(s) \in Nat /\ Len(s) # 0
      /\ Head(s) = s[1]
      /\ \A k \in 1 .. Len(a) : a[k] \in Item \ Enders
  <2>1. a \in Seq(Item)
    BY SeqDef
  <2> QED BY <2>1, HeadTailProperties, EmptySeq, LenProperties, ElementOfSeq DEF Plan
<1>2. /\ t \in Seq(Item) /\ Len(t) = Len(a) + Len(s)
      /\ \A k \in 1 .. Len(a) + Len(s) : t[k] = IF k <= Len(a) THEN a[k] ELSE s[k - Len(a)]
  BY <1>1, ConcatProperties
<1> HIDE DEF t
<1>3. t # <<>> /\ Head(t) = t[1]
  BY <1>1, <1>2
<1>4. Head(t) = IF a = <<>> THEN Head(s) ELSE a[1]
  <2>1. CASE Len(a) = 0
    <3>1. a = <<>> /\ 1 \in 1 .. Len(a) + Len(s) /\ ~(1 <= Len(a)) /\ 1 - Len(a) = 1
      BY <1>1, <2>1, EmptySeq
    <3> QED BY <1>1, <1>2, <1>3, <3>1
  <2>2. CASE Len(a) # 0
    <3>1. a # <<>> /\ 1 \in 1 .. Len(a) + Len(s) /\ 1 <= Len(a)
      BY <1>1, <2>2, EmptySeq
    <3> QED BY <1>2, <1>3, <3>1
  <2> QED BY <2>1, <2>2
<1>5. Linked(t)
  <2> SUFFICES ASSUME NEW k \in 1 .. Len(a) + Len(s) - 1 PROVE FollowedBy(t[k], t[k + 1])
    BY <1>2 DEF Linked
  <2>1. k \in 1 .. Len(a) + Len(s) /\ k + 1 \in 1 .. Len(a) + Len(s)
    BY <1>1
  <2>2. CASE k < Len(a)
    <3>1. k <= Len(a) /\ k + 1 <= Len(a) /\ k \in 1 .. Len(a) - 1
      BY <1>1, <2>2
    <3>2. FollowedBy(a[k], a[k + 1])
      BY <3>1 DEF Leads, Linked
    <3> QED BY <1>2, <2>1, <3>1, <3>2
  <2>3. CASE k = Len(a)
    <3>1. a # <<>> /\ k <= Len(a) /\ ~(k + 1 <= Len(a)) /\ (k + 1) - Len(a) = 1
      BY <1>1, <2>3, EmptySeq
    <3>2. FollowedBy(a[k], s[1])
      BY <1>1, <2>3, <3>1 DEF Leads
    <3> QED BY <1>2, <2>1, <3>1, <3>2
  <2>4. CASE k > Len(a)
    <3> k - Len(a) \in 1 .. Len(s) - 1
      BY <1>1, <2>4
    <3>1. PICK m \in 1 .. Len(s) - 1 : m = k - Len(a)
      OBVIOUS
    <3>2. ~(k <= Len(a)) /\ ~(k + 1 <= Len(a)) /\ (k + 1) - Len(a) = m + 1
      BY <1>1, <2>4, <3>1
    <3>3. FollowedBy(s[m], s[m + 1])
      BY DEF Plan, Linked
    <3> QED BY <1>2, <2>1, <3>1, <3>2, <3>3
  <2> QED BY <1>1, <2>2, <2>3, <2>4
<1>6. Ended(t)
  <2> SUFFICES ASSUME NEW k \in 1 .. Len(a) + Len(s)
               PROVE  t[k] \in Enders <=> k = Len(a) + Len(s)
    BY <1>2 DEF Ended
  <2>1. CASE k <= Len(a)
    <3>1. k # Len(a) + Len(s)
      BY <1>1, <2>1
    <3> QED BY <1>1, <1>2, <2>1, <3>1
  <2>2. CASE k > Len(a)
    <3> k - Len(a) \in 1 .. Len(s)
      BY <1>1, <2>2
    <3>1. PICK m \in 1 .. Len(s) : m = k - Len(a)
      OBVIOUS
    <3>2. ~(k <= Len(a)) /\ (m = Len(s) <=> k = Len(a) + Len(s))
      BY <1>1, <2>2, <3>1
    <3>3. s[m] \in Enders <=> m = Len(s)
      BY DEF Plan, Ended
    <3> QED BY <1>2, <3>1, <3>2, <3>3
  <2> QED BY <1>1, <2>1, <2>2
<1> QED BY <1>2, <1>3, <1>4, <1>5, <1>6 DEF Plan, t

-----------------------------------------------------------------------------
(* The symbol ahead. *)

(* An int holds whatever the digits of a number add up to, and its opposite, *)
(* which is the number's but for one that overflows.                         *)
LEMMA WrapFits ==
  ASSUME NEW n \in Nat
  PROVE  /\ Wrap(n) \in -(IntMod \div 2) .. IntMod \div 2
         /\ -Wrap(n) \in -(IntMod \div 2) .. IntMod \div 2
         /\ Wrap(-Wrap(n)) \in -(IntMod \div 2) .. IntMod \div 2
         /\ Wrap(-n) = -n => Wrap(-Wrap(n)) = -n
<1>1. IntMod \in Nat /\ IntMod > 0
  BY ParserAssumption
<1>2. PICK h \in Nat : h = IntMod \div 2 /\ IntMod <= 2 * h + 1 /\ 2 * h <= IntMod
  BY <1>1
<1>3. ASSUME NEW m \in Int PROVE Wrap(m) \in -h .. IntMod - 1 - h
  <2>1. PICK k \in Int : k = m + h
    BY <1>2
  <2>2. PICK r \in 0 .. IntMod - 1 : r = k % IntMod
    BY <1>1
  <2> QED BY <1>1, <1>2, <2>1, <2>2 DEF Wrap
<1>4. PICK w \in -h .. IntMod - 1 - h : w = Wrap(n)
  BY <1>3
<1>5. Wrap(w) \in -h .. h /\ Wrap(-w) \in -h .. h /\ w \in -h .. h
  BY <1>1, <1>2, <1>3
<1>6. ASSUME Wrap(-n) = -n PROVE Wrap(-w) = -n
  <2>1. n <= h
    <3>1. -n \in -h .. IntMod - 1 - h
      BY <1>3, <1>6
    <3> QED BY <1>2, <3>1
  <2>2. CASE n + h < IntMod
    <3>1. (n + h) % IntMod = n + h
      BY <1>1, <1>2, <2>2
    <3>2. w = n
      BY <1>2, <1>4, <3>1 DEF Wrap
    <3> QED BY <1>6, <3>2
  <2>3. CASE ~(n + h < IntMod)
    <3>1. n = h /\ IntMod = n + h
      BY <1>1, <1>2, <2>1, <2>3
    <3>2. (n + h) % IntMod = 0
      BY <1>1, <3>1
    <3>3. w = -n
      BY <1>2, <1>4, <3>1, <3>2 DEF Wrap
    <3>4. Wrap(n) = -n
      BY <1>4, <3>3
    <3> QED BY <3>3, <3>4
  <2> QED BY <2>2, <2>3
<1> QED BY <1>2, <1>4, <1>5, <1>6

(* The text is longer by a piece, or it was over. *)
Extended == text' = text \/ \E x \in Pieces : text' = Append(text, x)

LEMMA ReadsOK ==
  ASSUME LexOK, NEW x \in Pieces, Reads(x), symbol' = x.lex,
         (~AtEnd /\ Len(text) # MaxPieces) \/ x = End
  PROVE  /\ Extended
         /\ text' \in Seq(Pieces)
         /\ text' # <<>> => symbol' = text'[Len(text')].lex
         /\ Len(text') <= MaxPieces \/ (Len(text') = MaxPieces + 1 /\ AtEnd')
<1>1. text \in Seq(Pieces) /\ Len(text) \in Nat /\ MaxPieces \in Nat
  BY LenProperties, ParserAssumption DEF LexOK
<1>2. CASE AtEnd
  <2>1. text' = text /\ AtEnd' /\ x = End
    BY <1>2 DEF Reads, AtEnd
  <2>2. text[Len(text)] = End
    BY <1>2 DEF AtEnd, Last
  <2> QED BY <1>1, <2>1, <2>2 DEF Extended, LexOK
<1>3. CASE ~AtEnd
  <2>1. text' = Append(text, x)
    BY <1>3 DEF Reads
  <2>2. /\ text' \in Seq(Pieces) /\ Len(text') = Len(text) + 1
        /\ text'[Len(text) + 1] = x
    BY <1>1, <2>1, AppendProperties
  <2>3. Len(text) <= MaxPieces
    BY <1>3 DEF LexOK
  <2>4. Len(text) = MaxPieces => AtEnd'
    <3>1. text' # <<>>
      BY <1>1, <2>2
    <3> QED BY <2>2, <1>3, <3>1 DEF AtEnd, Last
  <2> QED BY <1>1, <2>1, <2>2, <2>3, <2>4 DEF Extended
<1> QED BY <1>2, <1>3

Reading ==
  /\ LexOK' /\ Extended
  /\ symbol' = "=" => ident' = ident

LEMMA NextsymOK ==
  ASSUME LexOK, ~negative, nextsym
  PROVE  Reading
<1> DEFINE Room == (~AtEnd /\ Len(text) # MaxPieces)
<1>0. negative = FALSE
  BY DEF LexOK
<1>1. ASSUME Room, NEW x \in Words, ReadWord(x) PROVE Reading
  <2>1. /\ x \in Pieces /\ x.lex \in Symbols /\ x.val \in Idents /\ x.lex # "="
        /\ x.lex = "Ident" => x.val \in Names
    BY DEF Words, Piece, Pieces, Symbols, Spoken, Idents, Keywords
  <2> QED BY <1>0, <1>1, <2>1, ReadsOK DEF ReadWord, Reading, LexOK
<1>2. ASSUME Room, NEW x \in Quoted, ReadQuoted(x) PROVE Reading
  <2>1. x \in Pieces /\ x.lex = "stringconst" /\ x.lex \in Symbols /\ x.val \in Strings
    BY DEF Quoted, Piece, Pieces, Symbols, Constants, Spoken
  <2> QED BY <1>0, <1>2, <2>1, ReadsOK DEF ReadQuoted, Reading, LexOK
<1>3. ASSUME Room, NEW x \in Numbers, NEW minus \in BOOLEAN, ReadNumber(x, minus) PROVE Reading
  <2>1. x.lex \in {"intconst", "doubleconst"} /\ x.val \in Nat
    BY ParserAssumption DEF Numbers, Piece
  <2> DEFINE y == Piece(x.lex, IF minus THEN -x.val ELSE x.val)
             w == Wrap(x.val)
             n == IF minus THEN Wrap(-w) ELSE w
  <2>2. y \in Pieces /\ y.lex = x.lex /\ x.lex \in Symbols
    BY <2>1 DEF Piece, Pieces, Symbols, Constants, Spoken
  <2>3. /\ n \in -(IntMod \div 2) .. IntMod \div 2
        /\ {w, -w} \subseteq -(IntMod \div 2) .. IntMod \div 2
    BY <2>1, WrapFits
  <2>4. IntMod \div 2 \in Int
    BY ParserAssumption
  <2>5. {doubleconst, -doubleconst} \subseteq -(IntMod \div 2) .. IntMod \div 2
    BY <2>4 DEF LexOK
  <2>6. /\ symbol' = x.lex /\ intconst' = n /\ negative' = FALSE /\ Reads(y)
        /\ ident' = ident /\ stringconst' = stringconst
        /\ doubleconst' \in {w, -w, doubleconst, -doubleconst}
    BY <1>0, <1>3 DEF ReadNumber
  <2> HIDE DEF y, n, w
  <2> QED BY <1>3, <2>1, <2>2, <2>3, <2>5, <2>6, ReadsOK DEF Reading, LexOK
<1>4. ASSUME NEW x \in Signs \cup {Other, Minus, End}, ReadOther(x), Room \/ x = End PROVE Reading
  <2>1. /\ x \in Pieces /\ x.lex \in Symbols /\ x.lex # "Ident"
        /\ x = Minus => x.lex = "Unknown"
    <3>1. CASE x \in Signs
      <4>1. PICK s \in Punctuation : x = Piece(s, s)
        BY <3>1 DEF Signs
      <4> QED BY <4>1 DEF Minus, Piece, Pieces, Symbols, Punctuation, Spoken
    <3>2. CASE x \in {Other, Minus, End}
      BY <3>2 DEF Other, Minus, End, Piece, Pieces, Symbols, Spoken
    <3> QED BY <3>1, <3>2
  <2> QED BY <1>0, <1>4, <2>1, ReadsOK DEF ReadOther, Reading, LexOK
<1> QED BY <1>1, <1>2, <1>3, <1>4 DEF nextsym

(* How an action leaves the lexer and the error. *)
Standing == UNCHANGED <<lexer, hasErrors>> /\ errormsg' \in {errormsg, TRUE}
Failing  == hasErrors' = TRUE /\ errormsg' = TRUE /\ UNCHANGED lexer
Passing(S) == symbol \in S /\ Reading /\ UNCHANGED <<hasErrors, errormsg>>

LEMMA AcceptOK ==
  ASSUME LexOK, NEW l, l # "Unknown", accept(l)
  PROVE  (hasErrors /\ Standing) \/ Passing({l}) \/ Failing
BY NextsymOK DEF accept, Standing, Failing, Passing, LexOK

(* A WHERE that has been read was read before, or was the symbol ahead. *)
LEMMA SeenNext ==
  ASSUME LexOK, Extended, Seen'
  PROVE  Seen \/ symbol = "where"
<1>1. CASE text' = text
  BY <1>1 DEF Seen
<1>2. CASE \E x \in Pieces : text' = Append(text, x)
  <2>1. PICK x \in Pieces : text' = Append(text, x)
    BY <1>2
  <2>2. text \in Seq(Pieces) /\ Len(text) \in Nat
    BY LenProperties DEF LexOK
  <2>3. Len(text') = Len(text) + 1 /\ \A i \in 1 .. Len(text) : text'[i] = text[i]
    BY <2>1, <2>2, AppendProperties
  <2>4. PICK i \in 1 .. Len(text') - 1 : text'[i].lex = "where"
    BY DEF Seen
  <2>5. i \in 1 .. Len(text) /\ text[i].lex = "where"
    BY <2>2, <2>3, <2>4
  <2>6. i = Len(text) => symbol = "where"
    BY <2>2, <2>5 DEF LexOK
  <2>7. i # Len(text) => i \in 1 .. Len(text) - 1
    BY <2>2, <2>5
  <2> QED BY <2>5, <2>6, <2>7 DEF Seen
<1> QED BY <1>1, <1>2 DEF Extended

-----------------------------------------------------------------------------
(* The query, and the calls to come. *)

SameKind(q, r) == DOMAIN r = DOMAIN q /\ r.type = q.type

Kept(q, r) == SameKind(q, r) /\ ("condname" \in DOMAIN q => r.condname = q.condname)

LEMMA FieldSet ==
  ASSUME NEW q, QueryOK(q), NEW f, f # "type", NEW v,
         q.type = "insert" => /\ f = "cols" => v \in Seq(Idents)
                              /\ f = "values" => v \in Seq(Literal)
  PROVE  /\ SameKind(q, [q EXCEPT ![f] = v]) /\ QueryOK([q EXCEPT ![f] = v])
         /\ f # "condname" => Kept(q, [q EXCEPT ![f] = v])
         /\ f \in DOMAIN q => [q EXCEPT ![f] = v][f] = v
BY DEF QueryOK, SameKind, Kept

LEMMA QuerySame ==
  ASSUME NEW q PROVE Kept(q, q)
BY DEF Kept, SameKind

(* Calls that know the kind of the query know it as long as it is the same. *)
LEMMA ServedSame ==
  ASSUME NEW s, NEW q, NEW r, Served(s, q), SameKind(q, r)
  PROVE  Served(s, r)
BY DEF Served, Serves, SameKind

LEMMA PlanNext ==
  ASSUME Begun, todo # <<>>, Head(todo) \notin Enders,
         NEW items \in Seq(Item \ Enders), Leads(items, Tail(todo)), Go(items),
         SameKind(result, result'), Served(items, result)
  PROVE  /\ Plan(todo') /\ Served(todo', result') /\ todo' # <<>>
         /\ Head(todo') = IF items = <<>> THEN Head(Tail(todo)) ELSE items[1]
<1>1. /\ Plan(todo) /\ Served(todo, result)
  BY DEF Begun
<1>2. /\ Plan(Tail(todo)) /\ Tail(todo) # <<>> /\ Len(Tail(todo)) = Len(todo) - 1
      /\ \A k \in 1 .. Len(todo) - 1 : Tail(todo)[k] = todo[k + 1]
  BY <1>1, TailPlan
<1>3. Len(todo) \in Nat /\ Len(items) \in Nat
  BY <1>1, LenProperties DEF Plan
<1> DEFINE s == Tail(todo)
           t == items \o s
<1>4. todo' = t
  BY DEF Go
<1>5. /\ Plan(t) /\ t # <<>> /\ Len(t) = Len(items) + Len(s)
      /\ Head(t) = IF items = <<>> THEN Head(s) ELSE items[1]
      /\ \A k \in 1 .. Len(items) + Len(s) : t[k] = IF k <= Len(items) THEN items[k] ELSE s[k - Len(items)]
  <2> HIDE DEF s
  <2>1. Plan(s) /\ s # <<>> /\ Leads(items, s)
    BY <1>2 DEF s
  <2> QED BY <2>1, PutBefore
<1>6. Served(s, result)
  <2> SUFFICES ASSUME NEW k \in 1 .. Len(todo) - 1 PROVE Serves(s[k], result)
    BY <1>2 DEF Served
  <2>1. k + 1 \in 1 .. Len(todo)
    BY <1>3
  <2>2. Serves(todo[k + 1], result)
    BY <1>1, <2>1 DEF Served
  <2> QED BY <1>2, <2>2
<1>7. Len(s) \in Nat
  BY <1>2, LenProperties DEF Plan
<1> HIDE DEF s, t
<1>8. Served(t, result)
  <2> SUFFICES ASSUME NEW k \in 1 .. Len(items) + Len(s) PROVE Serves(t[k], result)
    BY <1>5 DEF Served
  <2>1. CASE k <= Len(items)
    <3>1. k \in 1 .. Len(items)
      BY <1>3, <2>1
    <3> QED BY <1>5, <2>1, <3>1 DEF Served
  <2>2. CASE ~(k <= Len(items))
    <3>1. k - Len(items) \in 1 .. Len(s)
      BY <1>3, <1>7, <2>2
    <3>2. Serves(s[k - Len(items)], result)
      BY <1>6, <3>1 DEF Served
    <3> QED BY <1>5, <2>2, <3>2
  <2> QED BY <2>1, <2>2
<1>9. Served(t, result')
  BY <1>8, ServedSame
<1>10. s = Tail(todo)
  BY DEF s
<1> QED BY <1>4, <1>5, <1>9, <1>10

(* What a call may do but for the condition of a WHERE. *)
Calls(items) ==
  /\ todo # <<>> /\ Head(todo) \notin Enders /\ Go(items)
  /\ items \in Seq(Item \ Enders) /\ Leads(items, Tail(todo)) /\ Served(items, result)
  /\ SameKind(result, result') /\ QueryOK(result')
  /\ outcome' = outcome

Lexes == Standing \/ Failing \/ Passing(Symbols)

LEMMA LexNext ==
  ASSUME LexOK, Lexes
  PROVE  LexOK'
<1>1. ASSUME UNCHANGED lexer PROVE LexOK'
  BY <1>1 DEF lexer, LexOK, AtEnd
<1>2. ASSUME Passing(Symbols) PROVE LexOK'
  BY <1>2 DEF Passing, Reading
<1> QED BY <1>1, <1>2 DEF Lexes, Standing, Failing

LEMMA OnwardStep ==
  ASSUME LexOK, Begun, NEW items, Calls(items), Lexes, WhereOK'
  PROVE  LexOK' /\ Begun'
<1>1. LexOK'
  BY LexNext
<1>2. Plan(todo') /\ Served(todo', result') /\ todo' # <<>>
  BY PlanNext DEF Calls
<1>3. QueryOK(result')
  BY DEF Calls
<1>4. EndOK /\ ~(hasErrors /\ ~errormsg)
  <2>1. EndOK
    BY DEF Begun
  <2>2. ~AboutToEnd
    BY DEF Calls, AboutToEnd, At, Enders
  <2> QED BY <2>1, <2>2 DEF Begun, RefusedOK
<1>5. /\ hasErrors' \in BOOLEAN /\ errormsg' \in BOOLEAN
      /\ ~(hasErrors' /\ ~errormsg')
  BY <1>4 DEF Lexes, Standing, Failing, Passing, EndOK
<1>6. outcome' = "parsing"
  BY <1>4 DEF Calls, EndOK
<1>7. RefusedOK' /\ EndOK'
  BY <1>2, <1>5, <1>6 DEF RefusedOK, EndOK
<1> QED BY <1>1, <1>2, <1>3, <1>7 DEF Begun

(* The calls on which the condition of a WHERE depends. *)
OfWhere == BeforeReturn \cup {Word("where"), Name("condname"), Do("condname")}

LEMMA OrdinaryStep ==
  ASSUME LexOK, Begun, NEW items, Calls(items), Head(todo) \notin OfWhere,
         items # <<>> => items[1] # Do("condname"),
         Standing \/ Failing \/ Passing(Symbols \ {"where"}), Kept(result, result')
  PROVE  LexOK' /\ Begun'
<1>1. Lexes
  BY DEF Lexes, Passing
<1>2. WhereOK'
  <2>0. ~At(Do("condname"))'
    <3>1. Head(todo') = IF items = <<>> THEN Head(Tail(todo)) ELSE items[1]
      BY PlanNext DEF Calls
    <3>2. FollowedBy(Head(todo), Head(Tail(todo)))
      BY TailPlan DEF Calls, Begun
    <3> QED BY <3>1, <3>2 DEF FollowedBy, At
  <2> SUFFICES ASSUME Seen', ~hasErrors' PROVE Conditioned'
    BY <2>0 DEF WhereOK
  <2>1. Seen /\ ~hasErrors
    <3>1. CASE Standing
      BY <3>1 DEF Standing, lexer, Seen
    <3>2. CASE Failing
      BY <3>2 DEF Failing
    <3>3. CASE Passing(Symbols \ {"where"})
      BY <3>3, SeenNext DEF Passing, Reading
    <3> QED BY <3>1, <3>2, <3>3
  <2>2. WhereOK
    BY DEF Begun
  <2>3. /\ ~At(Name("condname")) /\ ~At(Do("condition")) /\ ~At(Do("condname")) /\ ~AboutToEnd
    BY DEF Calls, AboutToEnd, At, Enders, OfWhere, BeforeReturn
  <2>4. Conditioned
    BY <2>1, <2>2, <2>3 DEF WhereOK
  <2> QED BY <2>4 DEF Conditioned, Kept, SameKind
<1> QED BY <1>1, <1>2, OnwardStep

-----------------------------------------------------------------------------
(* The calls that have nothing to do with a WHERE. *)

LEMMA Started ==
  ASSUME IInv, NEW x, At(x), x # Do("start")
  PROVE  /\ LexOK /\ Begun /\ QueryOK(result)
         /\ x \in Item /\ Serves(x, result)
<1>1. LexOK /\ Begun
  BY DEF IInv, Unstarted, At
<1>2. todo \in Seq(Item) /\ Len(todo) \in Nat \ {0} /\ todo[1] = x
  BY <1>1, HeadTailProperties, EmptySeq, LenProperties DEF Begun, Plan, At
<1>3. 1 \in 1 .. Len(todo)
  BY <1>2
<1> QED BY <1>1, <1>2, <1>3, ElementOfSeq DEF Begun, Served

(* Calls that any other may follow. *)
Free(x) == x \in Item /\ x \notin Enders \cup BeforeReturn \cup {Word("where")}

Fits(items, q) ==
  /\ items \in Seq(Item \ Enders) /\ Linked(items) /\ Served(items, q)
  /\ items # <<>> => Free(items[Len(items)])

LEMMA NoItems ==
  ASSUME NEW q
  PROVE  Fits(<<>>, q)
BY DEF Fits, Linked, Served

LEMMA OneItem ==
  ASSUME NEW q, NEW x, Free(x), Serves(x, q)
  PROVE  Fits(<<x>>, q) /\ <<x>>[1] = x
<1>1. <<x>> \in Seq(Item \ Enders) /\ Len(<<x>>) = 1 /\ <<x>>[1] = x
  BY DEF Free
<1>2. Linked(<<x>>)
  BY <1>1 DEF Linked, Free, FollowedBy
<1> QED BY <1>1, <1>2 DEF Fits, Served

LEMMA TwoItems ==
  ASSUME NEW q, NEW x, NEW y, Free(x), Serves(x, q), Free(y), Serves(y, q),
         y # Do("condname")
  PROVE  Fits(<<x, y>>, q) /\ <<x, y>>[1] = x
<1>1. /\ <<x, y>> \in Seq(Item \ Enders) /\ Len(<<x, y>>) = 2
      /\ <<x, y>>[1] = x /\ <<x, y>>[2] = y
  BY DEF Free
<1>2. Linked(<<x, y>>)
  BY <1>1 DEF Linked, Free, FollowedBy
<1> QED BY <1>1, <1>2 DEF Fits, Served

LEMMA ThreeItems ==
  ASSUME NEW q, NEW x, NEW y, NEW z,
         Free(x), Serves(x, q), Free(y), Serves(y, q), Free(z), Serves(z, q),
         y # Do("condname"), z # Do("condname")
  PROVE  Fits(<<x, y, z>>, q) /\ <<x, y, z>>[1] = x
<1>1. /\ <<x, y, z>> \in Seq(Item \ Enders) /\ Len(<<x, y, z>>) = 3
      /\ <<x, y, z>>[1] = x /\ <<x, y, z>>[2] = y /\ <<x, y, z>>[3] = z
  BY DEF Free
<1>2. Linked(<<x, y, z>>)
  BY <1>1 DEF Linked, Free, FollowedBy
<1> QED BY <1>1, <1>2 DEF Fits, Served

(* Calls that know nothing of the query. *)
Plain(x) ==
  /\ Free(x)
  /\ x \notin OfCondition \cup OfUpdate \cup OfSets
                \cup {Do("pairs"), Do("statement"), Do("create")}

LEMMA PlainServes ==
  ASSUME NEW x, Plain(x), NEW q
  PROVE  Free(x) /\ Serves(x, q) /\ x # Do("condname")
BY DEF Plain, Serves, OfCondition

LEMMA PlainCalls ==
  /\ \A l \in {"(", ")", "="} : Plain(Word(l))
  /\ \A x \in {"cols", "values", "columns", "indexcols"} :
       Plain(Loop(x)) /\ Plain(<<"comma", x>>)
  /\ \A x \in {"type", "length", "order", "condvalue"} : Plain(Do(x))
<1>1. /\ \A l \in {"(", ")", "="} : Word(l) \in Item
      /\ \A x \in {"cols", "values", "columns", "indexcols"} :
           Loop(x) \in Item /\ <<"comma", x>> \in Item
      /\ \A x \in {"type", "length", "order", "condvalue"} : Do(x) \in Item
  BY WordsAreItems, Items DEF Punctuation, Loops, Deeds
<1> QED BY <1>1 DEF Plain, Free, Enders, BeforeReturn, OfCondition, OfUpdate, OfSets,
                    Word, Name, Loop, Do

Quietly == Standing \/ Failing \/ Passing(Symbols \ {"where"})

LEMMA AcceptQuietly ==
  ASSUME LexOK, NEW l, l \notin {"Unknown", "where"}, accept(l)
  PROVE  Quietly
BY AcceptOK DEF Quietly, Passing, LexOK

LEMMA NextsymQuietly ==
  ASSUME LexOK, symbol \notin {"Unknown", "where"}, nextsym, UNCHANGED <<hasErrors, errormsg>>
  PROVE  Quietly
BY NextsymOK DEF Quietly, Passing, LexOK

LEMMA NextCall ==
  ASSUME IInv, NEW x, At(x), x \notin Enders \cup {Do("start")}
  PROVE  Tail(todo) # <<>> /\ FollowedBy(x, Head(Tail(todo)))
<1>1. Plan(todo) /\ todo # <<>> /\ Head(todo) = x
  BY Started DEF Begun, At
<1> QED BY <1>1, TailPlan

LEMMA FitsLeads ==
  ASSUME IInv, NEW x, At(x), x \notin Enders \cup {Do("start")},
         NEW items, Fits(items, result)
  PROVE  Leads(items, Tail(todo))
<1>1. Head(Tail(todo)) # Do("condname")
  BY NextCall DEF FollowedBy
<1> QED BY <1>1 DEF Fits, Free, Leads, FollowedBy

LEMMA Ordinary ==
  ASSUME IInv, NEW x, At(x), x \notin Enders \cup OfWhere \cup {Do("start")},
         NEW items, Go(items), Fits(items, result),
         items # <<>> => items[1] # Do("condname"),
         Quietly, Kept(result, result'), QueryOK(result'), outcome' = outcome
  PROVE  IInv'
<1>1. LexOK /\ Begun
  BY Started
<1>2. Calls(items)
  BY FitsLeads DEF Calls, At, Fits, Kept
<1>3. LexOK' /\ Begun'
  BY <1>1, <1>2, OrdinaryStep DEF At, Quietly
<1> QED BY <1>3 DEF IInv

LEMMA OrdinaryCalls ==
  /\ \A x : Loop(x) \notin Enders \cup OfWhere \cup {Do("start")}
  /\ \A x : <<"comma", x>> \notin Enders \cup OfWhere \cup {Do("start")}
  /\ \A x \in Deeds \ {"statement", "create", "return", "pairs", "updatewhere",
                      "condition", "condname"} :
       Do(x) \notin Enders \cup OfWhere \cup {Do("start")}
BY DEF Enders, OfWhere, BeforeReturn, Deeds, Word, Name, Loop, Do

LEMMA AcceptStep ==
  ASSUME IInv, Accept, Head(todo) # Word("where")
  PROVE  IInv'
<1> DEFINE x == Head(todo)
           l == x[2]
<1>1. At(x) /\ x # Do("start")
  BY DEF Accept, At, Do
<1>2. x \in Item /\ x[1] = "accept" /\ LexOK
  BY <1>1, Started DEF Accept
<1>3. l \in Symbols \ {"Unknown"} /\ x = Word(l)
  BY <1>2 DEF Item, Word
<1>4. l # "where"
  BY <1>3
<1>5. x \notin Enders \cup OfWhere \cup {Do("start")}
  BY <1>3, <1>4 DEF Enders, OfWhere, BeforeReturn, Word, Name, Do
<1>6. Quietly
  BY <1>2, <1>3, <1>4, AcceptQuietly DEF Accept
<1>7. /\ Kept(result, result') /\ QueryOK(result') /\ outcome' = outcome /\ Go(<<>>)
  BY <1>1, Started, QuerySame DEF Accept
<1> QED BY <1>1, <1>5, <1>6, <1>7, NoItems, Ordinary

LEMMA TakeNameStep ==
  ASSUME IInv, TakeName, Head(todo) # Name("condname")
  PROVE  IInv'
<1> DEFINE x == Head(todo)
           f == x[2]
<1>1. At(x) /\ x # Do("start")
  BY DEF TakeName, At, Do
<1>2. x \in Item /\ x[1] = "name" /\ LexOK /\ QueryOK(result)
  BY <1>1, Started DEF TakeName
<1>3. f \in Fields /\ x = Name(f)
  BY <1>2 DEF Item, Name
<1>4. f \notin {"condname", "type", "cols", "values"}
  BY <1>3 DEF Fields
<1>5. x \notin Enders \cup OfWhere \cup {Do("start")}
  BY <1>3, <1>4 DEF Enders, OfWhere, BeforeReturn, Word, Name, Do
<1>6. Quietly
  BY <1>2, AcceptQuietly DEF TakeName
<1>7. Kept(result, result') /\ QueryOK(result')
  BY <1>2, <1>4, FieldSet DEF TakeName
<1>8. outcome' = outcome /\ Go(<<>>)
  BY DEF TakeName
<1> QED BY <1>1, <1>5, <1>6, <1>7, <1>8, NoItems, Ordinary

LEMMA ConstantIsLiteral ==
  ASSUME LexOK, symbol \in Constants
  PROVE  Constant \in Literal
<1>1. IntMod \div 2 \in Int
  BY ParserAssumption
<1> QED BY <1>1 DEF LexOK, Constants, Constant, Literal

LEMMA AcceptValueQuietly ==
  ASSUME LexOK, AcceptValue
  PROVE  Quietly
BY AcceptQuietly DEF AcceptValue, Constants, Quietly, Standing

LEMMA CondValueStep ==
  ASSUME IInv, CondValue
  PROVE  IInv'
<1> DEFINE x == Do("condvalue")
<1>1. At(x) /\ x \notin Enders \cup OfWhere \cup {Do("start")}
  BY OrdinaryCalls DEF CondValue, Deeds
<1>2. LexOK /\ QueryOK(result)
  BY <1>1, Started
<1>3. Quietly
  BY <1>2, AcceptValueQuietly DEF CondValue
<1>4. Kept(result, result') /\ QueryOK(result')
  BY <1>2, FieldSet DEF CondValue
<1>5. outcome' = outcome /\ Go(<<>>)
  BY DEF CondValue
<1> QED BY <1>1, <1>3, <1>4, <1>5, NoItems, Ordinary

LEMMA SetValueStep ==
  ASSUME IInv, SetValue
  PROVE  IInv'
<1> DEFINE x == Do("setvalue")
<1>1. At(x) /\ x \notin Enders \cup OfWhere \cup {Do("start")}
  BY OrdinaryCalls DEF SetValue, Deeds
<1>2. LexOK /\ QueryOK(result) /\ Serves(x, result)
  BY <1>1, Started
<1>3. Quietly
  BY <1>2, AcceptValueQuietly DEF SetValue
<1>4. result.type # "insert"
  BY <1>2 DEF Serves, OfSets
<1>5. Kept(result, result') /\ QueryOK(result')
  BY <1>2, <1>4, FieldSet DEF SetValue
<1>6. outcome' = outcome /\ Go(<<>>)
  BY DEF SetValue
<1> QED BY <1>1, <1>3, <1>5, <1>6, NoItems, Ordinary

LEMMA LeaveLoopStep ==
  ASSUME IInv, NEW y \in Loops, LeaveLoop(y)
  PROVE  IInv'
<1> DEFINE x == Loop(y)
<1>1. At(x) /\ x \notin Enders \cup OfWhere \cup {Do("start")}
  BY OrdinaryCalls DEF LeaveLoop
<1>2. QueryOK(result)
  BY <1>1, Started
<1>3. Quietly
  <2>1. errormsg \in BOOLEAN
    BY <1>1, Started DEF Begun, EndOK
  <2>2. errormsg' = (errormsg \/ (y = "columns" /\ result.columns = <<>>))
    BY DEF LeaveLoop
  <2>3. errormsg' \in {errormsg, TRUE}
    BY <2>1, <2>2, Zenon
  <2> QED BY <2>3 DEF Quietly, Standing, LeaveLoop
<1>4. Kept(result, result') /\ QueryOK(result')
  BY <1>2, QuerySame DEF LeaveLoop
<1>5. outcome' = outcome /\ Go(<<>>)
  BY DEF LeaveLoop
<1> QED BY <1>1, <1>3, <1>4, <1>5, NoItems, Ordinary

LEMMA ColsStep ==
  ASSUME IInv, Cols
  PROVE  IInv'
<1> DEFINE x == Loop("cols")
<1>1. At(x) /\ x \notin Enders \cup OfWhere \cup {Do("start")}
  BY OrdinaryCalls DEF Cols
<1>2. LexOK /\ QueryOK(result)
  BY <1>1, Started
<1>3. Quietly
  BY <1>2, AcceptQuietly DEF Cols
<1>4. result.type = "insert" => Append(result.cols, ident) \in Seq(Idents)
  BY <1>2, AppendProperties DEF QueryOK, LexOK
<1>5. Kept(result, result') /\ QueryOK(result')
  BY <1>2, <1>4, FieldSet DEF Cols
<1>6. outcome' = outcome /\ Go(<<<<"comma", "cols">>>>)
  BY DEF Cols
<1>7. Fits(<<<<"comma", "cols">>>>, result) /\ <<<<"comma", "cols">>>>[1] # Do("condname")
  BY PlainCalls, PlainServes, OneItem
<1> QED BY <1>1, <1>3, <1>5, <1>6, <1>7, Ordinary

LEMMA ValuesStep ==
  ASSUME IInv, Values
  PROVE  IInv'
<1> DEFINE x == Loop("values")
<1>1. At(x) /\ x \notin Enders \cup OfWhere \cup {Do("start")}
  BY OrdinaryCalls DEF Values
<1>2. LexOK /\ QueryOK(result)
  BY <1>1, Started
<1>3. symbol \in Constants
  BY DEF Values, Starts
<1>4. Quietly
  BY <1>2, <1>3, AcceptQuietly DEF Values, Constants
<1>5. result.type = "insert" => Append(result.values, Constant) \in Seq(Literal)
  BY <1>2, <1>3, ConstantIsLiteral, AppendProperties DEF QueryOK
<1>6. Kept(result, result') /\ QueryOK(result')
  BY <1>2, <1>5, FieldSet DEF Values
<1>7. outcome' = outcome /\ Go(<<<<"comma", "values">>>>)
  BY DEF Values
<1>8. Fits(<<<<"comma", "values">>>>, result) /\ <<<<"comma", "values">>>>[1] # Do("condname")
  BY PlainCalls, PlainServes, OneItem
<1> QED BY <1>1, <1>4, <1>6, <1>7, <1>8, Ordinary

LEMMA ColumnsStep ==
  ASSUME IInv, Columns
  PROVE  IInv'
<1> DEFINE x == Loop("columns")
<1>1. At(x) /\ x \notin Enders \cup OfWhere \cup {Do("start")}
  BY OrdinaryCalls DEF Columns
<1>2. LexOK /\ QueryOK(result)
  BY <1>1, Started
<1>3. Quietly
  BY <1>2, AcceptQuietly DEF Columns
<1>4. Kept(result, result') /\ QueryOK(result')
  BY <1>2, FieldSet DEF Columns
<1>5. outcome' = outcome /\ Go(<<Do("type"), <<"comma", "columns">>>>)
  BY DEF Columns
<1>6. Fits(<<Do("type"), <<"comma", "columns">>>>, result) /\ <<Do("type"), <<"comma", "columns">>>>[1] # Do("condname")
  BY PlainCalls, PlainServes, TwoItems
<1> QED BY <1>1, <1>3, <1>4, <1>5, <1>6, Ordinary

LEMMA IndexColsStep ==
  ASSUME IInv, IndexCols
  PROVE  IInv'
<1> DEFINE x == Loop("indexcols")
<1>1. At(x) /\ x \notin Enders \cup OfWhere \cup {Do("start")}
  BY OrdinaryCalls DEF IndexCols
<1>2. LexOK /\ QueryOK(result)
  BY <1>1, Started
<1>3. Quietly
  BY <1>2, AcceptQuietly DEF IndexCols
<1>4. result.type = "insert" => Append(result.cols, ident) \in Seq(Idents)
  BY <1>2, AppendProperties DEF QueryOK, LexOK
<1>5. Kept(result, result') /\ QueryOK(result')
  BY <1>2, <1>4, FieldSet DEF IndexCols
<1>6. outcome' = outcome /\ Go(<<Do("order"), <<"comma", "indexcols">>>>)
  BY DEF IndexCols
<1>7. Fits(<<Do("order"), <<"comma", "indexcols">>>>, result) /\ <<Do("order"), <<"comma", "indexcols">>>>[1] # Do("condname")
  BY PlainCalls, PlainServes, TwoItems
<1> QED BY <1>1, <1>3, <1>5, <1>6, <1>7, Ordinary

LEMMA SetsStep ==
  ASSUME IInv, Sets
  PROVE  IInv'
<1> DEFINE x == Loop("sets")
           items == <<Do("setname"), Do("setvalue"), <<"comma", "sets">>>>
<1>1. At(x) /\ x \notin Enders \cup OfWhere \cup {Do("start")}
  BY OrdinaryCalls DEF Sets
<1>2. LexOK /\ QueryOK(result) /\ Serves(x, result)
  BY <1>1, Started
<1>3. Quietly
  BY <1>2, AcceptQuietly DEF Sets
<1>4. Kept(result, result') /\ QueryOK(result')
  BY <1>2, QuerySame DEF Sets
<1>5. outcome' = outcome /\ Go(items)
  BY DEF Sets
<1>6. /\ Free(Do("setname")) /\ Free(Do("setvalue")) /\ Free(<<"comma", "sets">>)
      /\ Serves(Do("setname"), result) /\ Serves(Do("setvalue"), result)
      /\ Serves(<<"comma", "sets">>, result)
      /\ Do("setname") # Do("condname") /\ Do("setvalue") # Do("condname")
      /\ <<"comma", "sets">> # Do("condname")
  <2>1. Do("setname") \in Item /\ Do("setvalue") \in Item /\ <<"comma", "sets">> \in Item
    BY Items DEF Deeds, Loops
  <2>2. result.type # "insert"
    BY <1>2 DEF Serves, OfSets
  <2> QED BY <2>1, <2>2 DEF Free, Enders, BeforeReturn, Serves, OfCondition, OfUpdate, OfSets,
                            Word, Name, Loop, Do
<1>7. Fits(items, result) /\ items[1] # Do("condname")
  BY <1>6, ThreeItems
<1> QED BY <1>1, <1>3, <1>4, <1>5, <1>7, Ordinary

LEMMA SetNameStep ==
  ASSUME IInv, SetName
  PROVE  IInv'
<1> DEFINE x == Do("setname")
<1>1. At(x) /\ x \notin Enders \cup OfWhere \cup {Do("start")}
  BY OrdinaryCalls DEF SetName, Deeds
<1>2. LexOK /\ QueryOK(result) /\ Serves(x, result)
  BY <1>1, Started
<1>3. Quietly
  BY <1>2, AcceptQuietly DEF SetName
<1>4. result.type # "insert"
  BY <1>2 DEF Serves, OfSets
<1>5. Kept(result, result') /\ QueryOK(result')
  BY <1>2, <1>4, FieldSet DEF SetName
<1>6. outcome' = outcome /\ Go(<<>>)
  BY DEF SetName
<1> QED BY <1>1, <1>3, <1>5, <1>6, NoItems, Ordinary

LEMMA CommaStep ==
  ASSUME IInv, NEW y \in Loops, Comma(y)
  PROVE  IInv'
<1> DEFINE x == <<"comma", y>>
<1>1. At(x) /\ x \notin Enders \cup OfWhere \cup {Do("start")}
  BY OrdinaryCalls DEF Comma
<1>2. LexOK /\ QueryOK(result) /\ Serves(x, result)
  BY <1>1, Started
<1>3. Kept(result, result') /\ QueryOK(result') /\ outcome' = outcome
  BY <1>2, QuerySame DEF Comma
<1>4. CASE symbol = ","
  <2>1. Go(<<Loop(y)>>)
    BY <1>4 DEF Comma
  <2>2. Quietly
    BY <1>2, <1>4, AcceptQuietly, NextsymQuietly DEF Comma
  <2>3. Free(Loop(y)) /\ Serves(Loop(y), result) /\ Loop(y) # Do("condname")
    <3>1. Loop(y) \in Item
      BY Items
    <3>2. y = "sets" => result.type # "insert"
      BY <1>2 DEF Serves, OfSets
    <3> QED BY <3>1, <3>2 DEF Free, Enders, BeforeReturn, Serves, OfCondition, OfUpdate, OfSets,
                              Word, Name, Loop, Do
  <2> QED BY <1>1, <1>3, <2>1, <2>2, <2>3, OneItem, Ordinary
<1>5. CASE symbol # ","
  <2>1. Go(<<>>) /\ Quietly
    BY <1>5 DEF Comma, Quietly, Standing
  <2> QED BY <1>1, <1>3, <2>1, NoItems, Ordinary
<1> QED BY <1>4, <1>5

LEMMA SelectColumnsStep ==
  ASSUME IInv, SelectColumns
  PROVE  IInv'
<1> DEFINE x == Do("columns")
<1>1. At(x) /\ x \notin Enders \cup OfWhere \cup {Do("start")}
  BY OrdinaryCalls DEF SelectColumns, Deeds
<1>2. LexOK /\ QueryOK(result)
  BY <1>1, Started
<1>3. Kept(result, result') /\ QueryOK(result') /\ outcome' = outcome
  <2>1. result' \in {result, [result EXCEPT !.allCols = TRUE]} /\ outcome' = outcome
    BY DEF SelectColumns
  <2>2. Kept(result, [result EXCEPT !.allCols = TRUE]) /\ QueryOK([result EXCEPT !.allCols = TRUE])
    BY <1>2, FieldSet
  <2> QED BY <1>2, <2>1, <2>2, QuerySame
<1>4. Quietly
  BY <1>2, AcceptQuietly DEF SelectColumns, Quietly, Standing
<1>5. Go(<<>>) \/ Go(<<Loop("cols")>>)
  BY DEF SelectColumns
<1>6. Fits(<<>>, result) /\ Fits(<<Loop("cols")>>, result) /\ <<Loop("cols")>>[1] # Do("condname")
  BY PlainCalls, PlainServes, NoItems, OneItem
<1> QED BY <1>1, <1>3, <1>4, <1>5, <1>6, Ordinary

LEMMA UpdateTableStep ==
  ASSUME IInv, UpdateTable
  PROVE  IInv'
<1> DEFINE x == Do("table")
<1>1. At(x) /\ x \notin Enders \cup OfWhere \cup {Do("start")}
  BY OrdinaryCalls DEF UpdateTable, Deeds
<1>2. LexOK /\ QueryOK(result)
  BY <1>1, Started
<1>3. Kept(result, result') /\ QueryOK(result') /\ outcome' = outcome /\ Go(<<>>)
  BY <1>2, QuerySame DEF UpdateTable
<1>4. Quietly
  BY <1>2, AcceptQuietly DEF UpdateTable, Quietly, Standing
<1> QED BY <1>1, <1>3, <1>4, NoItems, Ordinary

LEMMA ColumnTypeStep ==
  ASSUME IInv, ColumnType
  PROVE  IInv'
<1> DEFINE x == Do("type")
           items == <<Word("("), Do("length"), Word(")")>>
<1>1. At(x) /\ x \notin Enders \cup OfWhere \cup {Do("start")}
  BY OrdinaryCalls DEF ColumnType, Deeds
<1>2. LexOK /\ QueryOK(result)
  BY <1>1, Started
<1>3. Kept(result, result') /\ QueryOK(result') /\ outcome' = outcome
  <2>1. result' = result \/ result' = Typed(symbol, 0)
    BY DEF ColumnType
  <2>2. Kept(result, Typed(symbol, 0)) /\ QueryOK(Typed(symbol, 0))
    BY <1>2, FieldSet DEF Typed
  <2> QED BY <1>2, <2>1, <2>2, QuerySame DEF ColumnType
<1>4. Quietly
  BY <1>2, NextsymQuietly DEF ColumnType, Quietly, Standing
<1>5. Go(<<>>) \/ Go(items)
  BY DEF ColumnType
<1>6. Fits(<<>>, result) /\ Fits(items, result) /\ items[1] # Do("condname")
  BY PlainCalls, PlainServes, NoItems, ThreeItems
<1> QED BY <1>1, <1>3, <1>4, <1>5, <1>6, Ordinary

LEMMA LengthStep ==
  ASSUME IInv, Length
  PROVE  IInv'
<1> DEFINE x == Do("length")
<1>1. At(x) /\ x \notin Enders \cup OfWhere \cup {Do("start")}
  BY OrdinaryCalls DEF Length, Deeds
<1>2. LexOK /\ QueryOK(result)
  BY <1>1, Started
<1>3. Kept(result, result') /\ QueryOK(result')
  BY <1>2, QuerySame, FieldSet DEF Length, Typed
<1>4. Quietly /\ outcome' = outcome /\ Go(<<>>)
  BY <1>2, AcceptQuietly DEF Length
<1> QED BY <1>1, <1>3, <1>4, NoItems, Ordinary

LEMMA UniqueStep ==
  ASSUME IInv, Unique
  PROVE  IInv'
<1> DEFINE x == Do("unique")
<1>1. At(x) /\ x \notin Enders \cup OfWhere \cup {Do("start")}
  BY OrdinaryCalls DEF Unique, Deeds
<1>2. LexOK /\ QueryOK(result)
  BY <1>1, Started
<1>3. Kept(result, result') /\ QueryOK(result')
  <2> DEFINE r == [result EXCEPT !.unique = TRUE]
  <2>1. result' = result \/ result' = r
    BY DEF Unique
  <2>2. Kept(result, r) /\ QueryOK(r)
    BY <1>2, FieldSet
  <2> HIDE DEF r
  <2> QED BY <1>2, <2>1, <2>2, QuerySame
<1>4. Quietly /\ outcome' = outcome /\ Go(<<>>)
  BY <1>2, AcceptQuietly DEF Unique, Quietly, Standing
<1> QED BY <1>1, <1>3, <1>4, NoItems, Ordinary

LEMMA OrderStep ==
  ASSUME IInv, Order
  PROVE  IInv'
<1> DEFINE x == Do("order")
<1>1. At(x) /\ x \notin Enders \cup OfWhere \cup {Do("start")}
  BY OrdinaryCalls DEF Order, Deeds
<1>2. LexOK /\ QueryOK(result)
  BY <1>1, Started
<1>3. Kept(result, result') /\ QueryOK(result')
  BY <1>2, QuerySame DEF Order
<1>4. Quietly /\ outcome' = outcome /\ Go(<<>>)
  BY <1>2, AcceptQuietly DEF Order, Quietly, Standing
<1> QED BY <1>1, <1>3, <1>4, NoItems, Ordinary

LEMMA MethodStep ==
  ASSUME IInv, Method
  PROVE  IInv'
<1> DEFINE x == Do("method")
<1>1. At(x) /\ x \notin Enders \cup OfWhere \cup {Do("start")}
  BY OrdinaryCalls DEF Method, Deeds
<1>2. LexOK /\ QueryOK(result)
  BY <1>1, Started
<1>3. Kept(result, result') /\ QueryOK(result')
  <2> DEFINE r == [result EXCEPT !.indextype = "TREEINDEX"]
  <2>1. result' = result \/ result' = r
    BY DEF Method
  <2>2. Kept(result, r) /\ QueryOK(r)
    BY <1>2, FieldSet
  <2> HIDE DEF r
  <2> QED BY <1>2, <2>1, <2>2, QuerySame
<1>4. Quietly /\ outcome' = outcome /\ Go(<<>>)
  BY <1>2, AcceptQuietly DEF Method, Quietly, Standing
<1> QED BY <1>1, <1>3, <1>4, NoItems, Ordinary

-----------------------------------------------------------------------------
(* The condition of a WHERE. *)

LEMMA ConditionCalls ==
  /\ Free(Name("condname")) /\ Free(Word("=")) /\ Free(Do("condname")) /\ Free(Do("condvalue"))
  /\ Do("condition") \in Item \ Enders
<1>1. /\ Name("condname") \in Item /\ Word("=") \in Item /\ Do("condname") \in Item
      /\ Do("condvalue") \in Item /\ Do("condition") \in Item
  BY WordsAreItems, Items DEF Punctuation, Fields, Deeds
<1> QED BY <1>1 DEF Free, Enders, BeforeReturn, Word, Name, Do

LEMMA TailOnly ==
  ASSUME IInv, NEW x, At(x), x \notin Enders \cup {Do("start")}, Go(<<>>)
  PROVE  todo' = Tail(todo)
<1>1. Plan(Tail(todo))
  BY Started, TailPlan DEF Begun, At
<1> QED BY <1>1 DEF Go, Plan

LEMMA HeadOfItems ==
  ASSUME IInv, NEW x, At(x), x \notin Enders \cup {Do("start")},
         NEW items \in Seq(Item \ Enders), items # <<>>, Leads(items, Tail(todo)), Go(items)
  PROVE  todo' # <<>> /\ Head(todo') = items[1]
<1>1. Plan(Tail(todo)) /\ Tail(todo) # <<>>
  BY Started, TailPlan DEF Begun, At
<1> QED BY <1>1, PutBefore DEF Go

LEMMA Onward ==
  ASSUME IInv, NEW x, At(x), x \notin Enders \cup {Do("start")},
         NEW items, Go(items), Fits(items, result),
         Lexes, SameKind(result, result'), QueryOK(result'), outcome' = outcome, WhereOK'
  PROVE  IInv'
<1>1. LexOK /\ Begun
  BY Started
<1>2. Calls(items)
  BY FitsLeads DEF Calls, At, Fits
<1> QED BY <1>1, <1>2, OnwardStep DEF IInv

(* accept, as the calls of a WHERE use it: either an error, or what follows *)
(* has been read.                                                           *)
LEMMA AcceptLexes ==
  ASSUME LexOK, NEW l, l # "Unknown", accept(l)
  PROVE  Lexes /\ (~hasErrors' => Passing({l}) /\ ~hasErrors)
BY AcceptOK DEF Lexes, Standing, Failing, Passing, LexOK

(* DELETE: WHERE, and the name to come. *)
LEMMA AcceptWhereStep ==
  ASSUME IInv, Accept, Head(todo) = Word("where")
  PROVE  IInv'
<1> DEFINE x == Word("where")
<1>1. At(x) /\ x \notin Enders \cup {Do("start")}
  BY DEF Accept, At, Enders, Word, Do
<1>2. LexOK /\ QueryOK(result)
  BY <1>1, Started
<1>3. Lexes
  <2>1. accept("where")
    BY DEF Accept, Word
  <2> QED BY <1>2, <2>1, AcceptLexes
<1>4. SameKind(result, result') /\ QueryOK(result') /\ outcome' = outcome /\ Go(<<>>)
  BY <1>2, QuerySame DEF Accept, Kept
<1>5. WhereOK'
  <2>1. Tail(todo) # <<>> /\ Head(Tail(todo)) = Name("condname")
    BY <1>1, NextCall DEF FollowedBy
  <2>2. todo' = Tail(todo)
    BY <1>1, <1>4, TailOnly
  <2> QED BY <2>1, <2>2 DEF WhereOK, At, Name, Do
<1> QED BY <1>1, <1>3, <1>4, <1>5, NoItems, Onward

(* SELECT: the name is the next to be taken. *)
LEMMA WhereStep ==
  ASSUME IInv, Where
  PROVE  IInv'
<1> DEFINE x == Do("where")
           items == <<Name("condname"), Word("="), Do("condvalue")>>
<1>1. At(x) /\ x \notin Enders \cup OfWhere \cup {Do("start")}
  BY OrdinaryCalls DEF Where, Deeds
<1>2. LexOK /\ QueryOK(result) /\ Serves(x, result)
  BY <1>1, Started
<1>3. Kept(result, result') /\ QueryOK(result') /\ outcome' = outcome
  BY <1>2, QuerySame DEF Where
<1>4. CASE symbol = "where"
  <2>1. Lexes /\ Go(items)
    BY <1>2, <1>4, AcceptLexes DEF Where
  <2>2. Fits(items, result)
    <3>1. "condname" \in DOMAIN result
      BY <1>2 DEF Serves, OfCondition
    <3>2. /\ Serves(Name("condname"), result) /\ Serves(Word("="), result)
          /\ Serves(Do("condvalue"), result)
      BY <3>1 DEF Serves, OfUpdate, OfSets, OfCondition, Word, Name, Loop, Do
    <3>3. Word("=") # Do("condname") /\ Do("condvalue") # Do("condname")
      BY DEF Word, Do
    <3> QED BY <3>2, <3>3, ConditionCalls, ThreeItems
  <2>3. WhereOK'
    <3>1. Head(todo') = Name("condname") /\ todo' # <<>>
      BY <1>1, <2>1, <2>2, FitsLeads, HeadOfItems DEF Fits
    <3> QED BY <3>1 DEF WhereOK, At, Name, Do
  <2> QED BY <1>1, <1>3, <2>1, <2>2, <2>3, Onward DEF Kept
<1>5. CASE symbol # "where"
  <2>1. Go(<<>>) /\ Quietly
    BY <1>5 DEF Where, Quietly, Standing
  <2> QED BY <1>1, <1>3, <2>1, NoItems, Ordinary
<1> QED BY <1>4, <1>5

(* UPDATE: what follows the condition is the end. *)
LEMMA UpdateWhereStep ==
  ASSUME IInv, UpdateWhere
  PROVE  IInv'
<1> DEFINE x == Do("updatewhere")
           items == <<Do("condition")>>
<1>1. At(x) /\ x \notin Enders \cup {Do("start")}
  BY DEF UpdateWhere, Enders, Do
<1>2. LexOK /\ Begun /\ QueryOK(result) /\ Serves(x, result)
  BY <1>1, Started
<1>3. SameKind(result, result') /\ QueryOK(result') /\ outcome' = outcome /\ result' = result
  BY <1>2, QuerySame DEF UpdateWhere, Kept
<1>4. Head(Tail(todo)) = Do("return")
  BY <1>1, NextCall DEF FollowedBy, BeforeReturn
<1>5. CASE symbol = "where"
  <2>1. Lexes /\ Go(items)
    BY <1>2, <1>5, AcceptLexes DEF UpdateWhere
  <2>2. Calls(items)
    <3>1. items \in Seq(Item \ Enders) /\ Len(items) = 1 /\ items[1] = Do("condition")
      BY ConditionCalls
    <3>2. Leads(items, Tail(todo))
      <4>1. FollowedBy(Do("condition"), Do("return"))
        BY DEF FollowedBy, BeforeReturn, Word, Do
      <4>2. Linked(items)
        BY <3>1 DEF Linked
      <4> QED BY <1>4, <3>1, <4>1, <4>2 DEF Leads
    <3>3. Serves(Do("condition"), result)
      BY <1>2 DEF Serves, OfCondition, OfUpdate, OfSets, Word, Name, Loop, Do
    <3>4. Served(items, result)
      BY <3>1, <3>3 DEF Served
    <3> QED BY <1>1, <1>3, <2>1, <3>1, <3>2, <3>4 DEF Calls, At
  <2>3. WhereOK'
    <3>1. Head(todo') = Do("condition") /\ todo' # <<>>
      BY <1>2, <2>2, PlanNext DEF Calls
    <3> QED BY <3>1 DEF WhereOK, At, Do
  <2> QED BY <1>2, <2>1, <2>2, <2>3, OnwardStep DEF IInv
<1>6. CASE symbol # "where"
  <2>1. Go(<<>>) /\ Lexes /\ UNCHANGED <<text, hasErrors>>
    BY <1>6 DEF UpdateWhere, Lexes, Standing, lexer
  <2>2. WhereOK'
    <3>0. todo' = Tail(todo) /\ Head(Tail(todo)) = Do("return")
      BY <1>1, <1>4, <2>1, TailOnly
    <3> SUFFICES ASSUME Seen, ~hasErrors PROVE Conditioned'
      BY <2>1, <3>0 DEF WhereOK, Seen, At, Do
    <3>1. /\ ~At(Name("condname")) /\ ~At(Do("condition")) /\ ~At(Do("condname")) /\ ~AboutToEnd
      BY <1>1 DEF AboutToEnd, At, Name, Do
    <3>2. Conditioned
      BY <1>2, <3>1 DEF Begun, WhereOK
    <3> QED BY <1>3, <3>2 DEF Conditioned
  <2> QED BY <1>1, <1>3, <2>1, <2>2, NoItems, Onward
<1> QED BY <1>5, <1>6

LEMMA ConditionStep ==
  ASSUME IInv, Condition
  PROVE  IInv'
<1> DEFINE x == Do("condition")
           items == <<Do("condname"), Do("condvalue")>>
<1>1. At(x) /\ x \notin Enders \cup {Do("start")}
  BY DEF Condition, Enders, Do
<1>2. LexOK /\ Begun /\ QueryOK(result) /\ Serves(x, result)
  BY <1>1, Started
<1>3. SameKind(result, result') /\ QueryOK(result') /\ outcome' = outcome /\ result' = result
  BY <1>2, QuerySame DEF Condition, Kept
<1>4. CASE symbol = "Ident"
  <2>1. Lexes /\ (~hasErrors' => Passing({"Ident"})) /\ Go(items)
    BY <1>2, <1>4, AcceptLexes DEF Condition
  <2>2. Fits(items, result)
    <3>1. "condname" \in DOMAIN result /\ result.type = "update"
      BY <1>2 DEF Serves, OfCondition, OfUpdate
    <3>2. Serves(Do("condname"), result) /\ Serves(Do("condvalue"), result)
      BY <3>1 DEF Serves, OfCondition, OfUpdate, OfSets, Word, Name, Loop, Do
    <3>3. Do("condvalue") # Do("condname")
      BY DEF Do
    <3> QED BY <3>2, <3>3, ConditionCalls, TwoItems
  <2>3. WhereOK'
    <3>1. Head(todo') = Do("condname") /\ todo' # <<>>
      BY <1>1, <2>1, <2>2, FitsLeads, HeadOfItems DEF Fits
    <3>2. ident \in Names
      BY <1>2, <1>4 DEF LexOK
    <3>3. ~hasErrors' => (symbol' = "=" => ident' \in Names)
      BY <2>1, <3>2 DEF Passing, Reading
    <3> QED BY <3>1, <3>3 DEF WhereOK, At
  <2> QED BY <1>1, <1>3, <2>1, <2>2, <2>3, Onward
<1>5. CASE symbol # "Ident"
  <2>1. Go(<<>>) /\ Lexes /\ symbol' = symbol
    BY <1>5 DEF Condition, Lexes, Standing, lexer
  <2>2. WhereOK'
    <3>1. todo' = Tail(todo) /\ Tail(todo) # <<>> /\ Head(Tail(todo)) = Do("return")
      BY <1>1, <2>1, NextCall, TailOnly DEF FollowedBy, BeforeReturn
    <3>2. result'.type = "update"
      BY <1>2, <1>3 DEF Serves, OfUpdate
    <3> QED BY <1>5, <2>1, <3>1, <3>2 DEF WhereOK, AboutToEnd, At, Do
  <2> QED BY <1>1, <1>3, <2>1, <2>2, NoItems, Onward
<1> QED BY <1>4, <1>5

LEMMA UpdateCondNameStep ==
  ASSUME IInv, UpdateCondName
  PROVE  IInv'
<1> DEFINE x == Do("condname")
<1>1. At(x) /\ x \notin Enders \cup {Do("start")}
  BY DEF UpdateCondName, Enders, Do
<1>2. LexOK /\ Begun /\ QueryOK(result) /\ Serves(x, result)
  BY <1>1, Started
<1>3. "condname" \in DOMAIN result
  BY <1>2 DEF Serves, OfCondition
<1>4. /\ SameKind(result, result') /\ QueryOK(result') /\ result'.condname = ident
  BY <1>2, <1>3, FieldSet DEF UpdateCondName
<1>5. /\ Lexes /\ (~hasErrors' => Passing({"="}) /\ ~hasErrors)
      /\ outcome' = outcome /\ Go(<<>>)
  BY <1>2, AcceptLexes DEF UpdateCondName
<1>6. WhereOK'
  <2>1. ~At(Do("condname"))'
    <3>1. todo' = Tail(todo) /\ FollowedBy(x, Head(Tail(todo)))
      BY <1>1, <1>5, NextCall, TailOnly
    <3> QED BY <3>1 DEF FollowedBy, At
  <2> SUFFICES ASSUME ~hasErrors' PROVE Conditioned'
    BY <2>1 DEF WhereOK
  <2>2. symbol = "=" /\ ~hasErrors
    BY <1>5 DEF Passing
  <2>3. ident \in Names
    BY <1>1, <1>2, <2>2 DEF Begun, WhereOK
  <2> QED BY <1>3, <1>4, <2>3, ParserAssumption DEF Conditioned, SameKind
<1> QED BY <1>1, <1>4, <1>5, <1>6, NoItems, Onward

LEMMA TakeCondNameStep ==
  ASSUME IInv, TakeName, Head(todo) = Name("condname")
  PROVE  IInv'
<1> DEFINE x == Name("condname")
<1>1. At(x) /\ x \notin Enders \cup {Do("start")}
  BY DEF TakeName, At, Enders, Name, Do
<1>2. LexOK /\ QueryOK(result) /\ Serves(x, result)
  BY <1>1, Started
<1>3. "condname" \in DOMAIN result
  BY <1>2 DEF Serves, OfCondition
<1>4. result' = [result EXCEPT !["condname"] = ident]
  <2>1. Head(todo)[2] = "condname"
    BY DEF Name
  <2> QED BY <2>1 DEF TakeName
<1>5. SameKind(result, result') /\ QueryOK(result') /\ result'.condname = ident
  BY <1>2, <1>3, <1>4, FieldSet
<1>6. /\ Lexes /\ (~hasErrors' => Passing({"Ident"}))
      /\ outcome' = outcome /\ Go(<<>>)
  BY <1>2, AcceptLexes DEF TakeName
<1>7. WhereOK'
  <2>1. ~At(Do("condname"))'
    <3>1. todo' = Tail(todo) /\ FollowedBy(x, Head(Tail(todo)))
      BY <1>1, <1>6, NextCall, TailOnly
    <3> QED BY <3>1 DEF FollowedBy, At
  <2> SUFFICES ASSUME ~hasErrors' PROVE Conditioned'
    BY <2>1 DEF WhereOK
  <2>2. symbol = "Ident"
    BY <1>6 DEF Passing
  <2>3. ident \in Names
    BY <1>2, <2>2 DEF LexOK
  <2> QED BY <1>3, <1>5, <2>3, ParserAssumption DEF Conditioned, SameKind
<1> QED BY <1>1, <1>5, <1>6, <1>7, NoItems, Onward

-----------------------------------------------------------------------------
(* Beginnings and ends. *)

LEMMA EndedPlan ==
  ASSUME NEW q
  PROVE  Plan(<<>>) /\ Served(<<>>, q)
BY DEF Plan, Linked, Ended, Served

LEMMA StopStep ==
  ASSUME IInv, NEW x, At(x), x # Do("start"),
         x \notin {Name("condname"), Do("condition"), Do("condname")},
         NEW how \in {"query", "null", "abort", "out of range"}, Stop(how),
         result' = result, errormsg' \in {errormsg, TRUE},
         how = "query" => ~hasErrors, how = "null" /\ ~errormsg' => hasErrors
  PROVE  IInv'
<1>1. LexOK /\ Begun /\ QueryOK(result)
  BY Started
<1>2. LexOK'
  BY <1>1 DEF Stop, lexer, LexOK, AtEnd
<1>3. Plan(todo') /\ Served(todo', result') /\ todo' = <<>>
  BY EndedPlan DEF Stop
<1>4. WhereOK'
  <2> SUFFICES ASSUME ~hasErrors, Seen
               PROVE  Conditioned' \/ (result'.type = "update" /\ symbol' # "Ident")
    BY <1>3 DEF WhereOK, AboutToEnd, At, Stop, lexer, Seen
  <2>1. Conditioned \/ (result.type = "update" /\ symbol # "Ident")
    BY <1>1 DEF Begun, WhereOK, At
  <2> QED BY <2>1 DEF Conditioned, Stop, lexer
<1>5. RefusedOK'
  <2> SUFFICES ASSUME hasErrors, ~errormsg'
               PROVE  result.type = "insert" /\ Len(result.cols) < Len(result.values)
    BY <1>3 DEF RefusedOK, AboutToEnd, Stop
  <2>1. ~errormsg
    BY <1>1 DEF Begun, EndOK
  <2> QED BY <1>1, <2>1 DEF Begun, RefusedOK
<1>6. EndOK'
  BY <1>1, <1>3 DEF Begun, EndOK, Stop
<1> QED BY <1>1, <1>2, <1>3, <1>4, <1>5, <1>6 DEF IInv, Begun

LEMMA ReturnStep ==
  ASSUME IInv, Return
  PROVE  IInv'
<1> DEFINE x == Do("return")
           how == IF hasErrors THEN "null" ELSE "query"
<1>1. /\ At(x) /\ x # Do("start")
      /\ x \notin {Name("condname"), Do("condition"), Do("condname")}
  BY DEF Return, Name, Do
<1>2. how \in {"query", "null"} /\ (how = "query" => ~hasErrors) /\ (how = "null" => hasErrors)
  OBVIOUS
<1>3. Stop(how) /\ result' = result /\ errormsg' = errormsg
  BY DEF Return
<1> HIDE DEF how
<1> QED BY <1>1, <1>2, <1>3, StopStep

LEMMA NoStatementStep ==
  ASSUME IInv, NoStatement
  PROVE  IInv'
<1>1. PICK x \in {Do("statement"), Do("create")} : At(x)
  BY DEF NoStatement
<1>2. /\ x # Do("start")
      /\ x \notin {Name("condname"), Do("condition"), Do("condname")}
  BY DEF Name, Do
<1>3. Stop("null") /\ result' = result /\ errormsg' = TRUE
  BY DEF NoStatement
<1> QED BY <1>1, <1>2, <1>3, StopStep

LEMMA AssertFailsStep ==
  ASSUME IInv, AssertFails
  PROVE  IInv'
<1>1. PICK x \in {Do("condvalue"), Do("setvalue"), Loop("values"), Do("length")} : At(x)
  BY DEF AssertFails
<1>2. /\ x # Do("start")
      /\ x \notin {Name("condname"), Do("condition"), Do("condname")}
  BY DEF Name, Do, Loop
<1>3. Stop("abort") /\ result' = result /\ errormsg' = errormsg
  BY DEF AssertFails
<1> QED BY <1>1, <1>2, <1>3, StopStep

(* INSERT: what is counted when the values are put to their columns. *)
LEMMA PairsStep ==
  ASSUME IInv, Pairs
  PROVE  IInv'
<1> DEFINE x == Do("pairs")
<1>1. /\ At(x) /\ x # Do("start") /\ x \notin Enders
      /\ x \notin {Name("condname"), Do("condition"), Do("condname")}
  BY DEF Pairs, Name, Do, Enders
<1>2. LexOK /\ Begun /\ QueryOK(result) /\ Serves(x, result)
  BY <1>1, Started
<1>3. result' = result /\ errormsg' = errormsg
  BY DEF Pairs
<1>4. result.type = "insert" /\ Len(result.cols) \in Nat /\ Len(result.values) \in Nat
  BY <1>2, LenProperties DEF Serves, QueryOK
<1>5. CASE Len(result.cols) > Len(result.values)
  <2>1. Stop("out of range")
    BY <1>5 DEF Pairs
  <2> QED BY <1>1, <1>3, <2>1, StopStep
<1>6. CASE ~(Len(result.cols) > Len(result.values))
  <2>1. /\ hasErrors' = (hasErrors \/ Len(result.cols) # Len(result.values))
        /\ Go(<<>>) /\ UNCHANGED <<lexer, outcome>>
    BY <1>6 DEF Pairs
  <2>2. todo' = Tail(todo) /\ Tail(todo) # <<>> /\ Head(Tail(todo)) = Do("return")
    BY <1>1, <2>1, NextCall, TailOnly DEF FollowedBy, BeforeReturn
  <2>3. Plan(todo') /\ Served(todo', result')
    <3>1. Fits(<<>>, result) /\ SameKind(result, result')
      BY <1>3, NoItems, QuerySame DEF Kept
    <3>2. Leads(<<>>, Tail(todo))
      BY <3>1, <1>1, FitsLeads
    <3> QED BY <1>1, <1>2, <2>1, <3>1, <3>2, PlanNext DEF At, Fits
  <2>4. LexOK'
    BY <1>2, <2>1 DEF lexer, LexOK, AtEnd
  <2>5. hasErrors \in BOOLEAN /\ ~(hasErrors /\ ~errormsg) /\ outcome = "parsing"
    <3>1. ~AboutToEnd /\ todo # <<>>
      BY <1>1 DEF AboutToEnd, At, Do
    <3> QED BY <1>2, <3>1 DEF Begun, RefusedOK, EndOK
  <2>6. WhereOK'
    <3>1. ~At(Do("condname"))'
      BY <2>2 DEF At, Do
    <3> SUFFICES ASSUME ~hasErrors, Seen PROVE Conditioned'
      BY <2>1, <2>5, <3>1 DEF WhereOK, lexer, Seen
    <3>2. ~AboutToEnd
      BY <1>1 DEF AboutToEnd, At, Do
    <3>3. Conditioned
      BY <1>1, <1>2, <3>2 DEF Begun, WhereOK, At
    <3> QED BY <1>3, <3>3 DEF Conditioned
  <2>7. RefusedOK'
    <3> SUFFICES ASSUME hasErrors', ~errormsg'
                 PROVE  Len(result.cols) < Len(result.values)
      BY <1>3, <1>4, <2>2 DEF RefusedOK, AboutToEnd, At
    <3>1. Len(result.cols) # Len(result.values)
      BY <1>3, <2>1, <2>5
    <3> QED BY <1>4, <1>6, <3>1
  <2>8. EndOK'
    BY <1>2, <1>3, <2>1, <2>2, <2>5 DEF Begun, EndOK
  <2> QED BY <1>2, <1>3, <2>3, <2>4, <2>6, <2>7, <2>8 DEF IInv, Begun
<1> QED BY <1>5, <1>6

LEMMA StartStep ==
  ASSUME IInv, Start
  PROVE  IInv'
<1>1. LexOK /\ Unstarted
  <2>1. Do("start") \notin Item
    BY DEF Item, Do, Deeds
  <2>2. Begun => Head(todo) \in Item
    <3> SUFFICES ASSUME Begun PROVE Head(todo) \in Item
      OBVIOUS
    <3>1. todo \in Seq(Item) /\ todo # <<>>
      BY DEF Begun, Plan, Start, At
    <3> QED BY <3>1, HeadTailProperties
  <2> QED BY <2>1, <2>2 DEF IInv, Start, At
<1>2. Reading
  BY <1>1, NextsymOK DEF Start, Unstarted
<1>3. todo' = <<Do("statement")>> /\ result' = NoQuery
  BY <1>1 DEF Start, Go, Unstarted
<1>4. Plan(todo') /\ Served(todo', result') /\ QueryOK(result')
  <2>1. Do("statement") \in Item
    BY Items DEF Deeds
  <2>2. todo' \in Seq(Item) /\ Len(todo') = 1 /\ todo'[1] = Do("statement")
    BY <1>3, <2>1
  <2>3. Linked(todo') /\ Ended(todo')
    BY <2>2 DEF Linked, Ended, Enders
  <2>4. Serves(Do("statement"), NoQuery)
    BY DEF Serves, OfCondition, OfUpdate, OfSets, NoQuery, Word, Name, Loop, Do
  <2> QED BY <1>3, <2>2, <2>3, <2>4 DEF Plan, Served, QueryOK, NoQuery
<1>5. ~Seen'
  <2>1. ~Seen /\ symbol # "where"
    BY <1>1 DEF Seen, Unstarted
  <2> QED BY <1>1, <1>2, <2>1, SeenNext DEF Reading
<1>6. WhereOK' /\ RefusedOK' /\ EndOK'
  <2>1. todo' # <<>> /\ ~At(Do("condname"))'
    BY <1>3 DEF At, Do
  <2>2. hasErrors' = FALSE /\ errormsg' = FALSE /\ outcome' = "parsing"
    BY <1>1 DEF Start, Unstarted
  <2> QED BY <1>5, <2>1, <2>2 DEF WhereOK, RefusedOK, EndOK
<1> QED BY <1>2, <1>4, <1>6 DEF IInv, Begun, Reading

LEMMA NewQuery ==
  ASSUME IInv, NEW x \in {Do("statement"), Do("create")}, At(x),
         NEW q, NEW items, Plan(items), Served(items, q), QueryOK(q),
         items # <<>>, Head(items) # Do("condname"),
         result' = q, Go(items), UNCHANGED <<lexer, hasErrors, errormsg, outcome>>
  PROVE  IInv'
<1>1. x # Do("start") /\ x \in Enders /\ x # Do("return")
      /\ x \notin {Name("condname"), Do("condition"), Do("condname")}
  BY DEF Do, Enders, Name
<1>2. LexOK /\ Begun /\ Serves(x, result)
  BY <1>1, Started
<1>3. todo' = items
  <2>1. Tail(todo) = <<>>
    BY <1>1, <1>2, LastCall DEF Begun, At
  <2>2. items \in Seq(Item)
    BY DEF Plan
  <2> QED BY <2>1, <2>2, ConcatEmptySeq DEF Go
<1>4. LexOK'
  BY <1>2 DEF lexer, LexOK, AtEnd
<1>5. ~AboutToEnd /\ todo # <<>> /\ ~Conditioned
  BY <1>1, <1>2 DEF AboutToEnd, At, Serves, Conditioned
<1>6. WhereOK'
  <2>1. ~(Seen /\ ~hasErrors)
    BY <1>1, <1>2, <1>5 DEF Begun, WhereOK, At
  <2>2. ~At(Do("condname"))'
    BY <1>3 DEF At
  <2> QED BY <2>1, <2>2 DEF WhereOK, Seen, lexer
<1>7. RefusedOK' /\ EndOK'
  <2>1. ~(hasErrors /\ ~errormsg)
    BY <1>2, <1>5 DEF Begun, RefusedOK
  <2> QED BY <1>2, <1>3, <1>5, <2>1 DEF Begun, RefusedOK, EndOK
<1> QED BY <1>3, <1>4, <1>6, <1>7 DEF IInv, Begun

LEMMA FirstCalls ==
  /\ p_insert # <<>> /\ Head(p_insert) # Do("condname")
  /\ p_select # <<>> /\ Head(p_select) # Do("condname")
  /\ p_update # <<>> /\ Head(p_update) # Do("condname")
  /\ p_delete # <<>> /\ Head(p_delete) # Do("condname")
  /\ p_create # <<>> /\ Head(p_create) # Do("condname")
  /\ CreateTable # <<>> /\ Head(CreateTable) # Do("condname")
  /\ CreateIndex # <<>> /\ Head(CreateIndex) # Do("condname")
BY DEF p_insert, p_select, p_update, p_delete, p_create, CreateTable, CreateIndex, Word, Do

LEMMA BeginStep ==
  ASSUME IInv, NEW k, NEW q, NEW items, Begin(k, q, items),
         Plan(items), Served(items, q), QueryOK(q), items # <<>>, Head(items) # Do("condname")
  PROVE  IInv'
BY NewQuery DEF Begin

LEMMA StatementStep ==
  ASSUME IInv, Statement
  PROVE  IInv'
<1>1. ASSUME Begin("create", NoQuery, p_create) PROVE IInv'
  BY <1>1, BeginStep, CreatePlan, FirstCalls
<1>2. ASSUME Begin("select", NewSelect, p_select) PROVE IInv'
  BY <1>2, BeginStep, SelectPlan, FirstCalls
<1>3. ASSUME Begin("insert", NewInsert, p_insert) PROVE IInv'
  BY <1>3, BeginStep, InsertPlan, FirstCalls
<1>4. ASSUME Begin("update", NewUpdate, p_update) PROVE IInv'
  BY <1>4, BeginStep, UpdatePlan, FirstCalls
<1>5. ASSUME Begin("delete", NewDelete, p_delete) PROVE IInv'
  BY <1>5, BeginStep, DeletePlan, FirstCalls
<1> QED BY <1>1, <1>2, <1>3, <1>4, <1>5 DEF Statement

LEMMA CreateStep ==
  ASSUME IInv, NEW k, NEW q, NEW items, Create(q, items, k),
         Plan(items), Served(items, q), QueryOK(q), items # <<>>, Head(items) # Do("condname")
  PROVE  IInv'
BY NewQuery DEF Create

-----------------------------------------------------------------------------
(* The invariant, and what it says. *)

LEMMA InitOK == Init => IInv
<1> SUFFICES ASSUME Init PROVE IInv
  OBVIOUS
<1>1. Unstarted
  BY DEF Init, Unstarted
<1>2. LexOK
  <2>1. text \in Seq(Pieces) /\ Len(text) = 0 /\ MaxPieces \in Nat
    BY EmptySeq, ParserAssumption DEF Init
  <2>2. PICK h \in Nat : h = IntMod \div 2
    BY ParserAssumption
  <2>3. {intconst, doubleconst} \subseteq -h .. h
    BY DEF Init
  <2>4. /\ symbol = "Unknown" /\ symbol \in Symbols /\ ident \in Idents
        /\ stringconst \in Strings \cup {NoName} /\ negative = FALSE /\ text = <<>>
    BY DEF Init, Symbols, Idents
  <2>5. Len(text) <= MaxPieces
    BY <2>1
  <2> QED BY <2>1, <2>2, <2>3, <2>4, <2>5 DEF LexOK
<1> QED BY <1>1, <1>2 DEF IInv

LEMMA StutterOK ==
  ASSUME IInv, UNCHANGED vars
  PROVE  IInv'
<1>1. LexOK => LexOK'
  BY DEF vars, lexer, LexOK, AtEnd
<1>2. Unstarted => Unstarted'
  BY DEF vars, lexer, Unstarted
<1>3. Begun => Begun'
  BY DEF vars, lexer, Begun, WhereOK, RefusedOK, EndOK, Seen, Conditioned, AboutToEnd, At
<1> QED BY <1>1, <1>2, <1>3 DEF IInv

LEMMA NextOK ==
  ASSUME IInv, [Step]_vars
  PROVE  IInv'
<1>1. CASE Start
  BY <1>1, StartStep
<1>2. CASE Statement
  BY <1>2, StatementStep
<1>3. CASE NoStatement
  BY <1>3, NoStatementStep
<1>4. CASE Accept
  BY <1>4, AcceptStep, AcceptWhereStep
<1>5. CASE TakeName
  BY <1>5, TakeNameStep, TakeCondNameStep
<1>6. CASE CondValue
  BY <1>6, CondValueStep
<1>7. CASE SetValue
  BY <1>7, SetValueStep
<1>8. CASE AssertFails
  BY <1>8, AssertFailsStep
<1>9. CASE \E x \in Loops : LeaveLoop(x) \/ Comma(x)
  BY <1>9, LeaveLoopStep, CommaStep
<1>10. CASE Cols \/ Values \/ Columns \/ IndexCols
  BY <1>10, ColsStep, ValuesStep, ColumnsStep, IndexColsStep
<1>11. CASE Sets \/ SetName
  BY <1>11, SetsStep, SetNameStep
<1>12. CASE Pairs
  BY <1>12, PairsStep
<1>13. CASE SelectColumns \/ UpdateTable
  BY <1>13, SelectColumnsStep, UpdateTableStep
<1>14. CASE Where
  BY <1>14, WhereStep
<1>15. CASE UpdateWhere \/ Condition \/ UpdateCondName
  BY <1>15, UpdateWhereStep, ConditionStep, UpdateCondNameStep
<1>16. CASE Create(NewTable, CreateTable, {"table"})
  BY <1>16, CreateStep, TablePlan, FirstCalls
<1>17. CASE Create(NewIndex, CreateIndex, {"index", "unique"})
  BY <1>17, CreateStep, IndexPlan, FirstCalls
<1>18. CASE ColumnType \/ Length
  BY <1>18, ColumnTypeStep, LengthStep
<1>19. CASE Unique \/ Order \/ Method
  BY <1>19, UniqueStep, OrderStep, MethodStep
<1>20. CASE Return
  BY <1>20, ReturnStep
<1>21. CASE UNCHANGED vars
  BY <1>21, StutterOK
<1> QED BY <1>1, <1>2, <1>3, <1>4, <1>5, <1>6, <1>7, <1>8, <1>9, <1>10, <1>11, <1>12, <1>13,
           <1>14, <1>15, <1>16, <1>17, <1>18, <1>19, <1>20, <1>21 DEF Step

LEMMA Invariant == Spec => []IInv
BY InitOK, NextOK, PTL DEF Spec

(* The lexer and the parser stay within their types: an int holds every     *)
(* number a text gives, with its sign, and the calls to come are over       *)
(* exactly when the parse is.                                               *)
THEOREM TypeCorrect == Spec => []TypeOK
<1>1. IInv => TypeOK
  <2> SUFFICES ASSUME IInv PROVE TypeOK
    OBVIOUS
  <2>1. LexOK
    BY DEF IInv
  <2>2. Unstarted => EndOK
    <3>1. todo = <<Do("start")>> => todo # <<>>
      OBVIOUS
    <3> QED BY <3>1 DEF Unstarted, EndOK
  <2>3. EndOK
    BY <2>2 DEF IInv, Begun
  <2>4. Len(text) \in Nat /\ MaxPieces \in Nat
    BY <2>1, LenProperties, ParserAssumption DEF LexOK
  <2>5. Len(text) <= MaxPieces + 1
    BY <2>1, <2>4 DEF LexOK
  <2>6. /\ symbol \in Keywords \cup Punctuation \cup Constants \cup {"Ident", "Unknown"}
        /\ ident \in Names \cup Keywords \cup {NoName}
    BY <2>1 DEF LexOK, Symbols, Idents
  <2>7. /\ {negative, hasErrors, errormsg} \subseteq BOOLEAN
        /\ {intconst, doubleconst} \subseteq -(IntMod \div 2) .. IntMod \div 2
    BY <2>1, <2>3 DEF LexOK, EndOK
  <2>8. /\ outcome \in {"parsing", "query", "null", "abort", "out of range"}
        /\ (todo = <<>>) = (outcome # "parsing")
    BY <2>3 DEF EndOK
  <2> QED BY <2>5, <2>6, <2>7, <2>8 DEF TypeOK
<1> QED BY <1>1, Invariant, PTL

(* A '-' turns the sign of no number but the one it stands before: whatever *)
(* nextsym or accept goes on from, negative has been cleared.               *)
THEOREM SignsAreTaken == Spec => []SignNotPending
<1>1. IInv => SignNotPending
  BY DEF IInv, LexOK, SignNotPending
<1> QED BY <1>1, Invariant, PTL

(* Where Consumed ends. *)
LEMMA ConsumedIs ==
  ASSUME LexOK, text # <<>>, NEW i \in DOMAIN Consumed
  PROVE  i \in 1 .. Len(text) - 1 /\ Consumed[i] = text[i]
<1>1. text \in Seq(Pieces) /\ Len(text) \in Nat /\ Len(text) # 0
  BY LenProperties, EmptySeq DEF LexOK
<1>2. PICK one \in 1 .. Len(text) + 1 : one = 1
  BY <1>1
<1> Len(text) - 1 \in one - 1 .. Len(text)
  BY <1>1, <1>2
<1>5. PICK n \in one - 1 .. Len(text) : n = Len(text) - 1
  OBVIOUS
<1>3. /\ SubSeq(text, 1, Len(text) - 1) \in Seq(Pieces)
      /\ Len(SubSeq(text, 1, Len(text) - 1)) = Len(text) - 1
      /\ \A k \in 1 .. Len(text) - 1 : SubSeq(text, 1, Len(text) - 1)[k] = text[1 + k - 1]
  <2>1. /\ SubSeq(text, one, n) \in Seq(Pieces)
        /\ Len(SubSeq(text, one, n)) = n - one + 1
        /\ \A k \in 1 .. n - one + 1 : SubSeq(text, one, n)[k] = text[one + k - 1]
    BY <1>1, PartOf
  <2>2. n - one + 1 = Len(text) - 1
    BY <1>1, <1>2, <1>5
  <2> QED BY <1>2, <1>5, <2>1, <2>2
<1>4. DOMAIN Consumed = 1 .. Len(text) - 1
  BY <1>3, LenProperties DEF Consumed, Front
<1> QED BY <1>1, <1>3, <1>4 DEF Consumed, Front

(* A statement with a WHERE that is accepted has its condition: DELETE and   *)
(* SELECT always, UPDATE unless no name follows the WHERE, in which case it *)
(* runs on every row.                                                       *)
THEOREM ConditionsAreKept == Spec => []ConditionKept
<1>1. IInv => ConditionKept
  <2> SUFFICES ASSUME IInv, outcome = "query", NEW i \in DOMAIN Consumed, Consumed[i].lex = "where"
               PROVE  \/ result.condname # NoName
                      \/ result.type = "update" /\ Last(text).lex # "Ident"
    BY DEF ConditionKept
  <2>1. LexOK /\ Begun
    BY DEF IInv, Unstarted
  <2>2. todo = <<>> /\ ~hasErrors
    BY <2>1 DEF Begun, EndOK
  <2>3. text # <<>>
    <3> SUFFICES ASSUME text = <<>> PROVE FALSE
      OBVIOUS
    <3>1. DOMAIN Consumed = {}
      BY DEF Consumed, Front
    <3> QED BY <3>1
  <2>4. Seen
    BY <2>1, <2>3, ConsumedIs DEF Seen
  <2>5. Conditioned \/ (result.type = "update" /\ symbol # "Ident")
    BY <2>1, <2>2, <2>4 DEF Begun, WhereOK, At
  <2>6. symbol = Last(text).lex
    BY <2>1, <2>3 DEF LexOK, Last
  <2> QED BY <2>5, <2>6 DEF Conditioned
<1> QED BY <1>1, Invariant, PTL

(* A statement that is refused leaves a message, but for the INSERT that     *)
(* has fewer columns than values.                                           *)
THEOREM RefusalsAreTold == Spec => []RefusedWithMessage
<1>1. IInv => RefusedWithMessage
  <2> SUFFICES ASSUME IInv, outcome = "null", ~errormsg
               PROVE  result.type = "insert" /\ Len(result.cols) < Len(result.values)
    BY DEF RefusedWithMessage
  <2>1. Begun
    BY DEF IInv, Unstarted
  <2> QED BY <2>1 DEF Begun, EndOK, RefusedOK
<1> QED BY <1>1, Invariant, PTL

-----------------------------------------------------------------------------
(* What a statement says goes into its query in order. *)

(* A query of each kind. *)
Conditional == {"select", "update", "delete"}
KnownTypes  == {"int", "double", "varchar"}

ColumnOf == {c \in [name : Idents, type : KnownTypes \cup {Junk}, len : Int \cup {Junk}] :
               c.type = "varchar" => c.len \in Int}
SetOf    == [name : Idents, value : Literal \cup {Junk}]

InsertQueries == [type : {"insert"}, tablename : Idents, cols : Seq(Idents), values : Seq(Literal)]
SelectQueries == [type : {"select"}, tablename : Idents, cols : Seq(Idents), allCols : {Junk, TRUE},
                  condname : Idents, condvalue : Literal \cup {Junk}]
UpdateQueries == [type : {"update"}, tablename : Idents, values : Seq(SetOf),
                  condname : Idents, condvalue : Literal \cup {Junk}]
DeleteQueries == [type : {"delete"}, tablename : Idents,
                  condname : Idents, condvalue : Literal \cup {Junk}]
TableQueries  == [type : {"createtable"}, tablename : Idents, columns : Seq(ColumnOf)]
IndexQueries  == [type : {"createindex"}, name : Idents, tablename : Idents, cols : Seq(Idents),
                  unique : BOOLEAN, indextype : {"none", "TREEINDEX"}]

Shaped(q) ==
  \/ q = NoQuery
  \/ q \in InsertQueries \/ q \in SelectQueries \/ q \in UpdateQueries
  \/ q \in DeleteQueries \/ q \in TableQueries \/ q \in IndexQueries

(* The calls of each kind of statement; a word says nothing of its own. *)
Both(x) == {Loop(x), <<"comma", x>>}

IsWord(x) == x[1] = "accept"

OfInsert == Both("values") \cup {Do("pairs")}
OfSelect == {Do("columns"), Do("where")}
InUpdate == OfUpdate \cup OfSets \cup {Do("table")}
OfTable  == Both("columns") \cup {Do("type"), Do("length")}
OfIndex  == Both("indexcols") \cup {Do("unique"), Name("name"), Do("order"), Do("method")}

Suits(x, t) ==
  /\ IsWord(x) => x[2] \notin Constants \cup {"Ident"}
  /\ x \in OfInsert => t = "insert"
  /\ x \in OfSelect => t = "select"
  /\ x \in InUpdate => t = "update"
  /\ x \in OfTable => t = "createtable"
  /\ x \in OfIndex => t = "createindex"
  /\ x \in Both("cols") => t \in {"insert", "select"}
  /\ x \in {Name("condname"), Do("condvalue")} => t \in Conditional
  /\ x \in {Name("tablename"), Do("return")} => t # "none"
  /\ x \in {Do("statement"), Do("create")} => t = "none"

(* The place of a call in a statement: what it sets goes behind all that    *)
(* was set by calls of a lower rank.                                        *)
Rank(x, t) ==
  IF x = Do("unique") THEN 0
  ELSE IF x \in {Name("name"), Do("columns"), Do("table")} \/ (t = "select" /\ x \in Both("cols")) THEN 1
  ELSE IF x = Name("tablename") THEN 2
  ELSE IF x \in {Do("type"), Do("length"), Do("setname")} THEN 3
  ELSE IF x \in {Do("setvalue"), Do("order")} THEN 4
  ELSE IF x \in Both("cols") \cup Both("columns") \cup Both("indexcols") \cup Both("sets") THEN 5
  ELSE IF x \in OfCondition \cup Both("values") THEN 6
  ELSE IF x = Do("condvalue") THEN 7
  ELSE IF x \in {Do("pairs"), Do("method")} THEN 8
  ELSE 9

(* The calls that look for a WHERE put others before what follows them. *)
Top(x, t) == IF x \in {Do("where"), Do("updatewhere"), Do("condition")} THEN 7 ELSE Rank(x, t)

Before(x, y, t) == ~IsWord(x) /\ ~IsWord(y) => Top(x, t) < Rank(y, t)

(* What has not been set when a call of rank r is to come. *)
Blank(q, r) ==
  /\ r <= 1 /\ q.type = "createindex" => q.name = NoName
  /\ r <= 2 => /\ q.type # "none" => q.tablename = NoName
               /\ q.type \in {"insert", "createindex"} => q.cols = <<>>
               /\ q.type = "update" => q.values = <<>>
               /\ q.type = "createtable" => q.columns = <<>>
  /\ r <= 5 /\ q.type = "insert" => q.values = <<>>
  /\ r <= 6 /\ q.type \in Conditional => q.condname = NoName
  /\ r <= 7 /\ q.type \in Conditional => q.condvalue = Junk

(* The last column, or the last assignment, is still to be completed. *)
Untyped(q) == q.columns # <<>> /\ q.columns[Len(q.columns)].type = Junk
Unvalued(q) == q.values # <<>> /\ q.values[Len(q.values)].value = Junk

Expects(x, q) ==
  /\ Suits(x, q.type)
  /\ ~IsWord(x) => Blank(q, Rank(x, q.type))
  /\ x \in {Do("type"), Do("length")} => Untyped(q)

Expected(s, q) == \A k \in 1 .. Len(s) : Expects(s[k], q)

Sorted(s, t) == \A j, k \in 1 .. Len(s) : j < k => Before(s[j], s[k], t)

ValueDue ==
  \A k \in 1 .. Len(todo) :
    /\ todo[k] = Do("setvalue") => At(Do("setname")) \/ Unvalued(result)
    /\ todo[k] = Do("setname") => k = 1

(* Every query has a table, an index a name, and a constant to compare with *)
(* something to compare, or is about to.                                    *)
ToCome(x, s) == \E k \in 1 .. Len(s) : s[k] = x

CondNameToCome(s) == ToCome(Name("condname"), s) \/ ToCome(Do("condname"), s)

Named ==
  ~hasErrors /\ outcome \in {"parsing", "query"} =>
    /\ result.type # "none" => result.tablename \in Names \/ ToCome(Name("tablename"), todo)
    /\ outcome = "query" => result.type # "none"
    /\ result.type = "createindex" => result.name \in Names \/ ToCome(Name("name"), todo)
    /\ ToCome(Do("condvalue"), todo) => result.condname \in Names \/ CondNameToCome(todo)

(* The symbol ahead is the last piece read, and says what it says. *)
Ahead ==
  /\ text # <<>>
  /\ symbol \in {"Ident"} \cup Keywords => ident = text[Len(text)].val
  /\ symbol = "stringconst" => stringconst = text[Len(text)].val
  /\ symbol = "intconst" /\ ~Overflows(text[Len(text)]) => intconst = text[Len(text)].val
  /\ symbol = "doubleconst" /\ ~Overflows(text[Len(text)]) => doubleconst = text[Len(text)].val

(* The names and constants that a query has so far. *)
NamePart(n) == IF n = NoName THEN <<>> ELSE <<IdentPiece(n)>>

Taken(q) ==
  CASE q.type = "insert" -> NamePart(q.tablename) \o NamePieces(q.cols) \o ValuePieces(q.values)
    [] q.type = "select" -> NamePieces(q.cols) \o NamePart(q.tablename) \o CondPieces(q)
    [] q.type = "update" -> NamePart(q.tablename) \o SetPieces(q.values) \o CondPieces(q)
    [] q.type = "delete" -> NamePart(q.tablename) \o CondPieces(q)
    [] q.type = "createtable" -> NamePart(q.tablename) \o ColumnPieces(q.columns)
    [] q.type = "createindex" -> NamePart(q.name) \o NamePart(q.tablename) \o NamePieces(q.cols)
    [] q.type = "none" -> <<>>

Lost == \E i \in DOMAIN Consumed : Overflows(Consumed[i]) \/ ZeroLength(Consumed[i])

(* A name that has been read and is still to be put into the query. *)
Held == At(Do("setname")) \/ At(Do("condname"))

Carried ==
  ~hasErrors /\ ~Lost =>
    IF Held THEN symbol = "=" => Atoms(Consumed) = Taken(result) \o <<IdentPiece(ident)>>
    ELSE Atoms(Consumed) = Taken(result)

Gathered ==
  /\ Shaped(result) /\ Expected(todo, result) /\ Sorted(todo, result.type)
  /\ ValueDue /\ Named /\ Ahead /\ Carried

Untouched == todo = <<Do("start")>> /\ result = NoQuery /\ text = <<>>
GInv == Untouched \/ Gathered

-----------------------------------------------------------------------------
(* Sequences put one after the other. *)

FlatFrom(parts, f) ==
  [i \in 1 .. Len(parts) |-> IF i = 1 THEN parts[i] ELSE f[i - 1] \o parts[i]]

IsFlat(parts, S, f) ==
  /\ \A i \in 1 .. Len(parts) : f[i] \in Seq(S)
  /\ f[1] = parts[1]
  /\ \A i \in 2 .. Len(parts) : f[i] = f[i - 1] \o parts[i]
  /\ FlattenSeq(parts) = f[Len(parts)]

LEMMA FlatIs ==
  ASSUME NEW S, NEW parts \in Seq(Seq(S)), Len(parts) # 0
  PROVE  \E f : IsFlat(parts, S, f)
<1> DEFINE T == Seq(S)
           n == Len(parts)
           F == [c \in 1 .. n |-> [t \in T |-> t \o parts[c]]]
<1>1. n \in Nat \ {0} /\ <<>> \in T
  BY LenProperties
<1>2. ASSUME NEW c \in 1 .. n PROVE parts[c] \in T
  BY <1>1, ElementOfSeq
<1>3. F \in [1 .. n -> [T -> T]]
  <2>1. ASSUME NEW c \in 1 .. n, NEW t \in T PROVE t \o parts[c] \in T
    BY <1>2, ConcatProperties
  <2> QED BY <2>1
<1>4. ASSUME NEW c \in 1 .. n, NEW t \in T PROVE F[c][t] = t \o parts[c]
  OBVIOUS
<1> HIDE DEF F, T
<1>5. \E g : Follows(g, n, T, <<>>, F)
  BY <1>1, <1>3, Iteration
<1>6. PICK g : Follows(g, n, T, <<>>, F)
  BY <1>5
<1>7. g \in [0 .. n -> T] /\ g[0] = <<>> /\ \A c \in 1 .. n : g[c] = F[c][g[c - 1]]
  BY <1>6 DEF Follows
<1>8. ASSUME NEW c \in 1 .. n
      PROVE  /\ g[c] \in T
             /\ g[c] = IF c = 1 THEN parts[c] ELSE g[c - 1] \o parts[c]
  <2>1. c - 1 \in 0 .. n /\ c \in 0 .. n
    BY <1>1
  <2>2. g[c - 1] \in T /\ g[c] \in T /\ g[c] = F[c][g[c - 1]]
    BY <1>7, <2>1
  <2>3. g[c] = g[c - 1] \o parts[c]
    BY <1>4, <2>2
  <2>4. c = 1 => g[c - 1] = <<>>
    BY <1>7
  <2>5. parts[c] \in Seq(S)
    BY <1>2 DEF T
  <2>6. <<>> \o parts[c] = parts[c]
    BY <2>5, ConcatEmptySeq
  <2> QED BY <2>2, <2>3, <2>4, <2>6
<1>9. \E f : f = FlatFrom(parts, f)
  <2> DEFINE f == [c \in 1 .. n |-> g[c]]
  <2>1. ASSUME NEW c \in 1 .. n
        PROVE  f[c] = IF c = 1 THEN parts[c] ELSE f[c - 1] \o parts[c]
    <3>1. c # 1 => c - 1 \in 1 .. n
      BY <1>1
    <3> QED BY <1>8, <3>1
  <2>2. f = FlatFrom(parts, f)
    BY <2>1 DEF FlatFrom
  <2> HIDE DEF f
  <2> QED BY <2>2
<1>10. FlattenSeq(parts) = (CHOOSE f : f = FlatFrom(parts, f))[n]
  BY <1>1 DEF FlattenSeq, FlatFrom
<1>11. PICK f : f = CHOOSE h : h = FlatFrom(parts, h)
  OBVIOUS
<1>12. f = FlatFrom(parts, f)
  BY <1>9, <1>11, Zenon
<1>13. FlattenSeq(parts) = f[n]
  BY <1>10, <1>11
<1>14. ASSUME NEW c \in 1 .. n
       PROVE  f[c] = IF c = 1 THEN parts[c] ELSE f[c - 1] \o parts[c]
  BY <1>12 DEF FlatFrom
<1> DEFINE bad == {c \in 1 .. n : f[c] # g[c]}
<1>15. bad = {}
  <2> SUFFICES ASSUME bad # {} PROVE FALSE
    OBVIOUS
  <2>1. PICK m \in bad : \A k \in bad : m <= k
    <3>1. bad \in SUBSET Nat
      OBVIOUS
    <3> HIDE DEF bad
    <3> QED BY <3>1, LeastNumber
  <2>2. m \in 1 .. n /\ f[m] # g[m]
    OBVIOUS
  <2>3. m # 1 => m - 1 \in 1 .. n /\ m - 1 \notin bad
    <3>1. m # 1 => m - 1 \in 1 .. n /\ ~(m <= m - 1)
      BY <1>1, <2>2
    <3> HIDE DEF bad
    <3> QED BY <2>1, <3>1
  <2>4. m # 1 => f[m - 1] = g[m - 1]
    BY <2>3
  <2>5. f[m] = IF m = 1 THEN parts[m] ELSE f[m - 1] \o parts[m]
    BY <1>14, <2>2
  <2>6. g[m] = IF m = 1 THEN parts[m] ELSE g[m - 1] \o parts[m]
    BY <1>8, <2>2
  <2> QED BY <2>2, <2>4, <2>5, <2>6
<1>16. \A c \in 1 .. n : f[c] \in Seq(S)
  <2> SUFFICES ASSUME NEW c \in 1 .. n PROVE f[c] \in Seq(S)
    OBVIOUS
  <2>1. f[c] = g[c]
    BY <1>15
  <2> QED BY <1>8, <2>1 DEF T
<1>17. f[1] = parts[1]
  <2>1. 1 \in 1 .. n
    BY <1>1
  <2> QED BY <1>14, <2>1
<1>18. \A c \in 2 .. n : f[c] = f[c - 1] \o parts[c]
  <2> SUFFICES ASSUME NEW c \in 2 .. n PROVE f[c] = f[c - 1] \o parts[c]
    OBVIOUS
  <2>1. c \in 1 .. n /\ c # 1
    BY <1>1
  <2> QED BY <1>14, <2>1
<1>19. IsFlat(parts, S, f)
  BY <1>13, <1>16, <1>17, <1>18 DEF IsFlat
<1> QED BY <1>19

LEMMA FlatType ==
  ASSUME NEW S, NEW parts \in Seq(Seq(S))
  PROVE  FlattenSeq(parts) \in Seq(S)
<1>1. Len(parts) \in Nat
  BY LenProperties
<1>2. CASE Len(parts) = 0
  <2>1. FlattenSeq(parts) = parts /\ parts = <<>>
    BY <1>2, EmptySeq DEF FlattenSeq
  <2> QED BY <2>1
<1>3. CASE Len(parts) # 0
  <2>1. PICK f : IsFlat(parts, S, f)
    BY <1>3, FlatIs
  <2>2. Len(parts) \in 1 .. Len(parts)
    BY <1>1, <1>3
  <2> QED BY <2>1, <2>2 DEF IsFlat
<1> QED BY <1>2, <1>3

LEMMA FlatEmpty == FlattenSeq(<<>>) = <<>>
BY DEF FlattenSeq

(* Two sequences of sequences with the same beginning, one of them longer by *)
(* one.                                                                      *)
LEMMA FlatLonger ==
  ASSUME NEW S, NEW parts \in Seq(Seq(S)), NEW longer \in Seq(Seq(S)),
         Len(longer) = Len(parts) + 1,
         \A i \in 1 .. Len(parts) : longer[i] = parts[i]
  PROVE  FlattenSeq(longer) = FlattenSeq(parts) \o longer[Len(longer)]
<1> DEFINE n == Len(parts)
           x == longer[n + 1]
<1>1. n \in Nat /\ n + 1 \in 1 .. Len(longer)
  BY LenProperties
<1>2. x \in Seq(S) /\ longer[Len(longer)] = x
  BY <1>1, ElementOfSeq
<1>3. PICK g : IsFlat(longer, S, g)
  BY <1>1, FlatIs
<1> HIDE DEF n, x
<1>4. /\ \A i \in 1 .. n + 1 : g[i] \in Seq(S)
      /\ g[1] = longer[1]
      /\ \A i \in 2 .. n + 1 : g[i] = g[i - 1] \o longer[i]
      /\ FlattenSeq(longer) = g[n + 1]
  BY <1>3 DEF IsFlat, n
<1>5. CASE n = 0
  <2>1. FlattenSeq(parts) = <<>>
    BY <1>5, EmptySeq, FlatEmpty DEF n
  <2>2. FlattenSeq(longer) = x
    BY <1>4, <1>5 DEF x
  <2>3. <<>> \o x = x
    BY <1>2, ConcatEmptySeq
  <2> QED BY <1>2, <2>1, <2>2, <2>3
<1>6. CASE n # 0
  <2>1. PICK f : IsFlat(parts, S, f)
    BY <1>6, FlatIs DEF n
  <2>2. /\ f[1] = parts[1]
        /\ \A i \in 2 .. n : f[i] = f[i - 1] \o parts[i]
        /\ FlattenSeq(parts) = f[n]
    BY <2>1 DEF IsFlat, n
  <2> DEFINE bad == {c \in 1 .. n : f[c] # g[c]}
  <2>3. bad = {}
    <3> SUFFICES ASSUME bad # {} PROVE FALSE
      OBVIOUS
    <3>1. PICK m \in bad : \A k \in bad : m <= k
      <4>1. bad \in SUBSET Nat
        OBVIOUS
      <4> HIDE DEF bad
      <4> QED BY <4>1, LeastNumber
    <3>2. m \in 1 .. n /\ f[m] # g[m]
      OBVIOUS
    <3>3. longer[m] = parts[m] /\ longer[1] = parts[1]
      <4>1. 1 \in 1 .. n
        BY <1>1, <1>6
      <4> QED BY <3>2, <4>1 DEF n
    <3>4. m # 1
      BY <1>4, <2>2, <3>2, <3>3
    <3>5. m - 1 \in 1 .. n /\ m \in 2 .. n /\ m \in 2 .. n + 1 /\ ~(m <= m - 1)
      BY <1>1, <3>2, <3>4
    <3>6. m - 1 \notin bad
      <4> HIDE DEF bad
      <4> QED BY <3>1, <3>5
    <3>7. f[m - 1] = g[m - 1]
      BY <3>5, <3>6
    <3>8. f[m] = f[m - 1] \o parts[m] /\ g[m] = g[m - 1] \o longer[m]
      BY <1>4, <2>2, <3>5
    <3> QED BY <3>2, <3>3, <3>7, <3>8
  <2>4. f[n] = g[n]
    <3>1. n \in 1 .. n
      BY <1>1, <1>6
    <3> QED BY <2>3, <3>1
  <2>5. n + 1 \in 2 .. n + 1 /\ (n + 1) - 1 = n
    <3> HIDE DEF bad
    <3>1. n \in Nat
      BY <1>1
    <3> QED BY <1>6, <3>1
  <2>6. g[n + 1] = g[n] \o x
    BY <1>4, <2>5 DEF x
  <2> QED BY <1>2, <1>4, <2>2, <2>4, <2>6
<1> QED BY <1>5, <1>6

(* A sequence that is not empty ends with its last element. *)
LEMMA FrontLast ==
  ASSUME NEW T, NEW s \in Seq(T), s # <<>>
  PROVE  /\ Front(s) \in Seq(T) /\ Len(Front(s)) = Len(s) - 1
         /\ s[Len(s)] \in T /\ Last(s) = s[Len(s)]
         /\ s = Append(Front(s), s[Len(s)])
<1>1. Len(s) \in Nat /\ Len(s) # 0
  BY LenProperties, EmptySeq
<1>2. Front(s) = [i \in 1 .. Len(s) - 1 |-> s[i]]
  BY <1>1 DEF Front
<1>3. \A i \in 1 .. Len(s) : s[i] \in T
  BY ElementOfSeq
<1>4. Front(s) \in Seq(T) /\ Len(Front(s)) = Len(s) - 1
  BY <1>1, <1>2, <1>3
<1>5. s[Len(s)] \in T
  BY <1>1, <1>3
<1>6. /\ Append(Front(s), s[Len(s)]) \in Seq(T)
      /\ Len(Append(Front(s), s[Len(s)])) = Len(s)
      /\ \A i \in 1 .. Len(s) - 1 : Append(Front(s), s[Len(s)])[i] = s[i]
      /\ Append(Front(s), s[Len(s)])[Len(s)] = s[Len(s)]
  BY <1>1, <1>2, <1>4, <1>5, AppendProperties
<1>7. \A i \in 1 .. Len(s) : Append(Front(s), s[Len(s)])[i] = s[i]
  BY <1>1, <1>6
<1>8. s = Append(Front(s), s[Len(s)])
  BY <1>6, <1>7, SeqEqual
<1> QED BY <1>4, <1>5, <1>8 DEF Last

(* What each element of a sequence becomes, put one after the other. *)
Become(g, s) == FlattenSeq([i \in DOMAIN s |-> g[s[i]]])

LEMMA BecomeType ==
  ASSUME NEW S, NEW T, NEW g \in [T -> Seq(S)], NEW s \in Seq(T)
  PROVE  Become(g, s) \in Seq(S)
<1>1. Len(s) \in Nat /\ DOMAIN s = 1 .. Len(s) /\ \A i \in 1 .. Len(s) : s[i] \in T
  BY LenProperties, ElementOfSeq
<1>2. [i \in DOMAIN s |-> g[s[i]]] \in Seq(Seq(S))
  BY <1>1
<1> QED BY <1>2, FlatType DEF Become

LEMMA BecomeNext ==
  ASSUME NEW S, NEW T, NEW g \in [T -> Seq(S)], NEW s \in Seq(T), NEW x \in T
  PROVE  Become(g, Append(s, x)) = Become(g, s) \o g[x]
<1> DEFINE t == Append(s, x)
           parts == [i \in DOMAIN s |-> g[s[i]]]
           longer == [i \in DOMAIN t |-> g[t[i]]]
<1>1. Len(s) \in Nat /\ DOMAIN s = 1 .. Len(s) /\ \A i \in 1 .. Len(s) : s[i] \in T
  BY LenProperties, ElementOfSeq
<1>2. /\ t \in Seq(T) /\ Len(t) = Len(s) + 1 /\ t[Len(s) + 1] = x
      /\ \A i \in 1 .. Len(s) : t[i] = s[i]
  BY <1>1, AppendProperties
<1>3. DOMAIN t = 1 .. Len(t) /\ \A i \in 1 .. Len(t) : t[i] \in T
  BY <1>2, LenProperties, ElementOfSeq
<1> HIDE DEF t
<1>4. parts \in Seq(Seq(S)) /\ Len(parts) = Len(s)
  BY <1>1
<1>5. longer \in Seq(Seq(S)) /\ Len(longer) = Len(s) + 1
  BY <1>1, <1>2, <1>3
<1>6. \A i \in 1 .. Len(s) : longer[i] = parts[i]
  BY <1>1, <1>2, <1>3
<1>7. longer[Len(s) + 1] = g[x]
  BY <1>1, <1>2, <1>3
<1>8. Become(g, s) = FlattenSeq(parts) /\ Become(g, t) = FlattenSeq(longer)
  BY DEF Become
<1> HIDE DEF parts, longer
<1>9. FlattenSeq(longer) = FlattenSeq(parts) \o g[x]
  BY <1>4, <1>5, <1>6, <1>7, FlatLonger
<1> QED BY <1>8, <1>9 DEF t

-----------------------------------------------------------------------------
(* The pieces of a text, and those of a query. *)

LEMMA NoNothing ==
  ASSUME NEW s \in Seq(Pieces)
  PROVE  s \o <<>> = s /\ <<>> \o s = s
BY ConcatEmptySeq

LEMMA PieceTypes ==
  /\ \A n \in Idents : IdentPiece(n) \in Pieces /\ <<IdentPiece(n)>> \in Seq(Pieces)
  /\ \A v \in Literal : v # Junk /\ ConstPiece(v) = <<Piece(v.type, v.val)>>
                          /\ ConstPiece(v) \in Seq(Pieces)
  /\ ConstPiece(Junk) = <<>>
  /\ \A x \in Pieces : AtomOf(x) \in Seq(Pieces)
<1>1. \A n \in Idents : IdentPiece(n) \in Pieces
  BY DEF IdentPiece, Piece, Pieces, Symbols, Spoken
<1>2. ASSUME NEW v \in Literal PROVE v # Junk /\ Piece(v.type, v.val) \in Pieces
  <2>1. v.type \in Constants /\ v.val \in Int \cup Strings \cup {NoName} /\ v # Junk
    BY JunkAssumption DEF Literal
  <2> QED BY <2>1 DEF Piece, Pieces, Symbols, Spoken, Idents
<1>3. ASSUME NEW x \in Pieces PROVE AtomOf(x) \in Seq(Pieces)
  BY DEF AtomOf
<1>4. ASSUME NEW x \in Pieces PROVE <<x>> \in Seq(Pieces)
  OBVIOUS
<1>5. \A v \in Literal : v # Junk /\ ConstPiece(v) = <<Piece(v.type, v.val)>>
                           /\ ConstPiece(v) \in Seq(Pieces)
  BY <1>2, <1>4 DEF ConstPiece
<1>6. ConstPiece(Junk) = <<>>
  BY DEF ConstPiece
<1> QED BY <1>1, <1>3, <1>4, <1>5, <1>6

LEMMA AtomsNext ==
  ASSUME NEW t \in Seq(Pieces), NEW x \in Pieces
  PROVE  /\ Atoms(t) \in Seq(Pieces)
         /\ Atoms(Append(t, x)) = Atoms(t) \o AtomOf(x)
<1> DEFINE g == [y \in Pieces |-> AtomOf(y)]
<1>1. g \in [Pieces -> Seq(Pieces)]
  BY PieceTypes
<1>2. ASSUME NEW s \in Seq(Pieces) PROVE Atoms(s) = Become(g, s)
  <2>1. [i \in DOMAIN s |-> AtomOf(s[i])] = [i \in DOMAIN s |-> g[s[i]]]
    BY LenProperties, ElementOfSeq
  <2> QED BY <2>1 DEF Atoms, Become
<1>3. Append(t, x) \in Seq(Pieces)
  BY AppendProperties
<1>4. g[x] = AtomOf(x)
  OBVIOUS
<1> HIDE DEF g
<1>5. Become(g, t) \in Seq(Pieces)
  BY <1>1, BecomeType
<1>6. Become(g, Append(t, x)) = Become(g, t) \o g[x]
  BY <1>1, BecomeNext, SMTT(30)
<1> QED BY <1>2, <1>3, <1>4, <1>5, <1>6

LEMMA ValuesNext ==
  ASSUME NEW s \in Seq(Literal)
  PROVE  /\ ValuePieces(s) \in Seq(Pieces)
         /\ \A v \in Literal : ValuePieces(Append(s, v)) = ValuePieces(s) \o <<Piece(v.type, v.val)>>
<1> DEFINE g == [v \in Literal |-> ConstPiece(v)]
<1>1. g \in [Literal -> Seq(Pieces)]
  BY PieceTypes
<1>2. ASSUME NEW r \in Seq(Literal) PROVE ValuePieces(r) = Become(g, r)
  <2>1. [i \in DOMAIN r |-> ConstPiece(r[i])] = [i \in DOMAIN r |-> g[r[i]]]
    BY LenProperties, ElementOfSeq
  <2> QED BY <2>1 DEF ValuePieces, Become
<1>3. ASSUME NEW v \in Literal PROVE g[v] = <<Piece(v.type, v.val)>> /\ Append(s, v) \in Seq(Literal)
  BY PieceTypes, AppendProperties
<1> HIDE DEF g
<1>4. Become(g, s) \in Seq(Pieces)
  BY <1>1, BecomeType
<1>5. ASSUME NEW v \in Literal PROVE Become(g, Append(s, v)) = Become(g, s) \o g[v]
  BY <1>1, BecomeNext, SMTT(30)
<1> QED BY <1>2, <1>3, <1>4, <1>5

LEMMA NamesNext ==
  ASSUME NEW s \in Seq(Idents)
  PROVE  /\ NamePieces(s) \in Seq(Pieces)
         /\ \A n \in Idents : NamePieces(Append(s, n)) = NamePieces(s) \o <<IdentPiece(n)>>
<1>1. Len(s) \in Nat /\ DOMAIN s = 1 .. Len(s) /\ \A i \in 1 .. Len(s) : s[i] \in Idents
  BY LenProperties, ElementOfSeq
<1>2. NamePieces(s) \in Seq(Pieces) /\ Len(NamePieces(s)) = Len(s)
  BY <1>1, PieceTypes DEF NamePieces
<1>3. ASSUME NEW n \in Idents
      PROVE  NamePieces(Append(s, n)) = NamePieces(s) \o <<IdentPiece(n)>>
  <2> DEFINE t == Append(s, n)
             p == IdentPiece(n)
             a == NamePieces(s)
             b == NamePieces(t)
  <2>1. /\ t \in Seq(Idents) /\ Len(t) = Len(s) + 1 /\ t[Len(s) + 1] = n
        /\ \A i \in 1 .. Len(s) : t[i] = s[i]
    BY <1>1, AppendProperties
  <2>2. DOMAIN t = 1 .. Len(s) + 1 /\ \A i \in 1 .. Len(s) + 1 : t[i] \in Idents
    BY <2>1, LenProperties, ElementOfSeq
  <2>3. p \in Pieces
    BY PieceTypes
  <2>4. b \in Seq(Pieces) /\ Len(b) = Len(s) + 1
    BY <1>1, <2>2, PieceTypes DEF NamePieces
  <2>5. \A i \in 1 .. Len(s) : b[i] = a[i]
    BY <1>1, <2>1, <2>2 DEF NamePieces
  <2>6. b[Len(s) + 1] = p
    BY <1>1, <2>1, <2>2 DEF NamePieces
  <2> HIDE DEF a, b, p
  <2>7. /\ Append(a, p) \in Seq(Pieces) /\ Len(Append(a, p)) = Len(s) + 1
        /\ \A i \in 1 .. Len(s) : Append(a, p)[i] = a[i]
        /\ Append(a, p)[Len(s) + 1] = p
    BY <1>2, <2>3, AppendProperties DEF a
  <2>8. \A i \in 1 .. Len(b) : b[i] = Append(a, p)[i]
    BY <1>1, <2>4, <2>5, <2>6, <2>7
  <2>9. b = Append(a, p)
    BY <2>4, <2>7, <2>8, SeqEqual
  <2>10. Append(a, p) = a \o <<p>>
    BY <1>2, <2>3 DEF a
  <2> QED BY <2>9, <2>10 DEF a, b, p
<1> QED BY <1>2, <1>3

LEMMA SetsNext ==
  ASSUME NEW s \in Seq(SetOf)
  PROVE  /\ SetPieces(s) \in Seq(Pieces)
         /\ \A x \in SetOf : /\ SetPiece(x) \in Seq(Pieces)
                             /\ SetPieces(Append(s, x)) = SetPieces(s) \o SetPiece(x)
<1> DEFINE g == [x \in SetOf |-> SetPiece(x)]
<1>1. ASSUME NEW x \in SetOf PROVE SetPiece(x) \in Seq(Pieces)
  <2>1. x.name \in Idents /\ x.value \in Literal \cup {Junk}
    BY DEF SetOf
  <2>2. <<IdentPiece(x.name)>> \in Seq(Pieces) /\ ConstPiece(x.value) \in Seq(Pieces)
    <3>1. <<>> \in Seq(Pieces)
      OBVIOUS
    <3> QED BY <2>1, <3>1, PieceTypes
  <2> QED BY <2>2, ConcatProperties DEF SetPiece
<1>2. g \in [SetOf -> Seq(Pieces)]
  BY <1>1
<1>3. ASSUME NEW r \in Seq(SetOf) PROVE SetPieces(r) = Become(g, r)
  <2>1. [i \in DOMAIN r |-> SetPiece(r[i])] = [i \in DOMAIN r |-> g[r[i]]]
    BY LenProperties, ElementOfSeq
  <2> QED BY <2>1 DEF SetPieces, Become
<1>4. ASSUME NEW x \in SetOf PROVE g[x] = SetPiece(x) /\ Append(s, x) \in Seq(SetOf)
  BY AppendProperties
<1> HIDE DEF g
<1>5. Become(g, s) \in Seq(Pieces)
  BY <1>2, BecomeType
<1>6. ASSUME NEW x \in SetOf PROVE Become(g, Append(s, x)) = Become(g, s) \o g[x]
  BY <1>2, BecomeNext, SMTT(30)
<1> QED BY <1>1, <1>3, <1>4, <1>5, <1>6

LEMMA ColumnsNext ==
  ASSUME NEW s \in Seq(ColumnOf)
  PROVE  /\ ColumnPieces(s) \in Seq(Pieces)
         /\ \A x \in ColumnOf : /\ ColumnPiece(x) \in Seq(Pieces)
                                /\ ColumnPieces(Append(s, x)) = ColumnPieces(s) \o ColumnPiece(x)
<1> DEFINE g == [x \in ColumnOf |-> ColumnPiece(x)]
<1>1. ASSUME NEW x \in ColumnOf PROVE ColumnPiece(x) \in Seq(Pieces)
  <2>1. x.name \in Idents /\ (x.type = "varchar" => x.len \in Int)
    BY DEF ColumnOf
  <2>2. <<IdentPiece(x.name)>> \in Seq(Pieces)
    BY <2>1, PieceTypes
  <2>3. x.type = "varchar" => Piece("intconst", x.len) \in Pieces
    BY <2>1 DEF Piece, Pieces, Symbols, Constants, Spoken
  <2>4. (IF x.type = "varchar" THEN <<Piece("intconst", x.len)>> ELSE <<>>) \in Seq(Pieces)
    BY <2>3
  <2> QED BY <2>2, <2>4, ConcatProperties DEF ColumnPiece
<1>2. g \in [ColumnOf -> Seq(Pieces)]
  BY <1>1
<1>3. ASSUME NEW r \in Seq(ColumnOf) PROVE ColumnPieces(r) = Become(g, r)
  <2>1. [i \in DOMAIN r |-> ColumnPiece(r[i])] = [i \in DOMAIN r |-> g[r[i]]]
    BY LenProperties, ElementOfSeq
  <2> QED BY <2>1 DEF ColumnPieces, Become
<1>4. ASSUME NEW x \in ColumnOf PROVE g[x] = ColumnPiece(x) /\ Append(s, x) \in Seq(ColumnOf)
  BY AppendProperties
<1> HIDE DEF g
<1>5. Become(g, s) \in Seq(Pieces)
  BY <1>2, BecomeType
<1>6. ASSUME NEW x \in ColumnOf PROVE Become(g, Append(s, x)) = Become(g, s) \o g[x]
  BY <1>2, BecomeNext, SMTT(30)
<1> QED BY <1>1, <1>3, <1>4, <1>5, <1>6

LEMMA NoPieces ==
  NamePieces(<<>>) = <<>> /\ ValuePieces(<<>>) = <<>> /\ SetPieces(<<>>) = <<>>
    /\ ColumnPieces(<<>>) = <<>> /\ Atoms(<<>>) = <<>>
<1>1. /\ NamePieces(<<>>) = <<>>
      /\ [i \in DOMAIN <<>> |-> ConstPiece(<<>>[i])] = <<>>
      /\ [i \in DOMAIN <<>> |-> SetPiece(<<>>[i])] = <<>>
      /\ [i \in DOMAIN <<>> |-> ColumnPiece(<<>>[i])] = <<>>
      /\ [i \in DOMAIN <<>> |-> AtomOf(<<>>[i])] = <<>>
  BY DEF NamePieces
<1> QED BY <1>1, FlatEmpty DEF ValuePieces, SetPieces, ColumnPieces, Atoms

-----------------------------------------------------------------------------
(* The order of the calls. *)

LEMMA Kinds ==
  /\ \A l : IsWord(Word(l)) /\ Word(l)[2] = l
  /\ \A x : ~IsWord(Name(x)) /\ ~IsWord(Loop(x)) /\ ~IsWord(<<"comma", x>>) /\ ~IsWord(Do(x))
BY DEF IsWord, Word, Name, Loop, Do

LEMMA RankBounds ==
  ASSUME NEW x, NEW t
  PROVE  Rank(x, t) \in Nat /\ Top(x, t) \in Nat /\ Rank(x, t) <= Top(x, t)
<1>1. Rank(x, t) \in Nat
  BY DEF Rank
<1>2. x \in {Do("where"), Do("updatewhere"), Do("condition")} => Rank(x, t) = 6
  BY DEF Rank, Both, OfCondition, Do, Name, Loop, Word
<1> QED BY <1>1, <1>2 DEF Top

LEMMA Ranks ==
  \A t :
    /\ Rank(Do("unique"), t) = 0
    /\ Rank(Name("name"), t) = 1 /\ Rank(Do("columns"), t) = 1 /\ Rank(Do("table"), t) = 1
    /\ \A x \in Both("cols") : Rank(x, t) = IF t = "select" THEN 1 ELSE 5
    /\ Rank(Name("tablename"), t) = 2
    /\ Rank(Do("type"), t) = 3 /\ Rank(Do("length"), t) = 3 /\ Rank(Do("setname"), t) = 3
    /\ Rank(Do("setvalue"), t) = 4 /\ Rank(Do("order"), t) = 4
    /\ \A y \in {"columns", "indexcols", "sets"} : \A x \in Both(y) : Rank(x, t) = 5
    /\ \A x \in Both("values") : Rank(x, t) = 6
    /\ Rank(Name("condname"), t) = 6 /\ Rank(Do("condname"), t) = 6
    /\ Rank(Do("where"), t) = 6 /\ Rank(Do("updatewhere"), t) = 6 /\ Rank(Do("condition"), t) = 6
    /\ Rank(Do("condvalue"), t) = 7
    /\ Rank(Do("pairs"), t) = 8 /\ Rank(Do("method"), t) = 8
    /\ Rank(Do("return"), t) = 9
BY DEF Rank, Both, OfCondition, Do, Name, Loop, Word

LEMMA Tops ==
  /\ \A x, t : x \notin {Do("where"), Do("updatewhere"), Do("condition")} => Top(x, t) = Rank(x, t)
  /\ \A x \in {Do("where"), Do("updatewhere"), Do("condition")} : \A t : Top(x, t) = 7
BY DEF Top

(* A call that takes the place of another. *)
Replaces(u, x, t) == IsWord(u) \/ (~IsWord(x) /\ Top(u, t) <= Top(x, t))

Ranked(a, x, q) ==
  /\ Expected(a, q) /\ Sorted(a, q.type)
  /\ \A k \in 1 .. Len(a) : Replaces(a[k], x, q.type)

(* What is expected after a call stays so when the query is changed. *)
Behind(x, q, r) == \A y : Expects(y, q) /\ Before(x, y, q.type) => Expects(y, r)

LEMMA Replacing ==
  ASSUME NEW u, NEW x, NEW y, NEW t, Replaces(u, x, t), Before(x, y, t)
  PROVE  Before(u, y, t)
<1>1. Top(u, t) \in Nat /\ Top(x, t) \in Nat /\ Rank(y, t) \in Nat
  BY RankBounds
<1> QED BY <1>1 DEF Replaces, Before

LEMMA PutRanked ==
  ASSUME NEW s \in Seq(Item), s # <<>>, NEW a \in Seq(Item), NEW q, NEW r,
         r.type = q.type, Expected(s, q), Sorted(s, q.type),
         Ranked(a, Head(s), r), Behind(Head(s), q, r)
  PROVE  Expected(a \o Tail(s), r) /\ Sorted(a \o Tail(s), r.type)
<1> DEFINE b == Tail(s)
           t == a \o b
           x == Head(s)
<1>1. /\ Len(s) \in Nat /\ Len(s) # 0 /\ b \in Seq(Item) /\ Len(b) = Len(s) - 1
      /\ x = s[1] /\ \A k \in 1 .. Len(s) - 1 : b[k] = s[k + 1]
  BY HeadTailProperties, EmptySeq, LenProperties
<1> HIDE DEF b
<1>2. /\ Len(a) \in Nat /\ Len(b) \in Nat
      /\ t \in Seq(Item) /\ Len(t) = Len(a) + Len(b)
      /\ \A k \in 1 .. Len(a) + Len(b) : t[k] = IF k <= Len(a) THEN a[k] ELSE b[k - Len(a)]
  BY <1>1, LenProperties, ConcatProperties
<1> HIDE DEF t, x
<1>3. ASSUME NEW k \in 1 .. Len(b)
      PROVE  Expects(b[k], r) /\ Before(x, b[k], q.type)
  <2>1. k + 1 \in 1 .. Len(s) /\ 1 \in 1 .. Len(s) /\ 1 < k + 1 /\ b[k] = s[k + 1]
    BY <1>1
  <2>2. Expects(s[k + 1], q) /\ Before(s[1], s[k + 1], q.type)
    BY <2>1 DEF Expected, Sorted
  <2>3. Expects(b[k], q) /\ Before(x, b[k], q.type)
    BY <1>1, <2>1, <2>2
  <2>4. Behind(x, q, r)
    BY DEF x
  <2> QED BY <2>3, <2>4 DEF Behind
<1>4. ASSUME NEW j \in 1 .. Len(b), NEW k \in 1 .. Len(b), j < k
      PROVE  Before(b[j], b[k], q.type)
  <2>1. j + 1 \in 1 .. Len(s) /\ k + 1 \in 1 .. Len(s) /\ j + 1 < k + 1
    BY <1>1, <1>4
  <2>2. Before(s[j + 1], s[k + 1], q.type)
    BY <2>1 DEF Sorted
  <2> QED BY <1>1, <2>2
<1>5. \A k \in 1 .. Len(a) : Expects(a[k], r) /\ Replaces(a[k], x, q.type)
  BY DEF Ranked, Expected, x
<1>6. ASSUME NEW j \in 1 .. Len(a), NEW k \in 1 .. Len(b)
      PROVE  Before(a[j], b[k], q.type)
  BY <1>3, <1>5, Replacing
<1>7. Expected(t, r)
  <2> SUFFICES ASSUME NEW k \in 1 .. Len(a) + Len(b) PROVE Expects(t[k], r)
    BY <1>2 DEF Expected
  <2>1. k <= Len(a) => k \in 1 .. Len(a)
    BY <1>2
  <2>2. ~(k <= Len(a)) => k - Len(a) \in 1 .. Len(b)
    BY <1>2
  <2> QED BY <1>2, <1>3, <1>5, <2>1, <2>2
<1>8. Sorted(t, q.type)
  <2> SUFFICES ASSUME NEW j \in 1 .. Len(a) + Len(b), NEW k \in 1 .. Len(a) + Len(b), j < k
               PROVE  Before(t[j], t[k], q.type)
    BY <1>2 DEF Sorted
  <2>1. CASE k <= Len(a)
    <3>1. j \in 1 .. Len(a) /\ k \in 1 .. Len(a) /\ j <= Len(a)
      BY <1>2, <2>1
    <3>2. Before(a[j], a[k], q.type)
      BY <3>1 DEF Ranked, Sorted
    <3> QED BY <1>2, <2>1, <3>1, <3>2
  <2>2. CASE j <= Len(a) /\ ~(k <= Len(a))
    <3>1. j \in 1 .. Len(a) /\ k - Len(a) \in 1 .. Len(b)
      BY <1>2, <2>2
    <3> QED BY <1>2, <1>6, <2>2, <3>1
  <2>3. CASE ~(j <= Len(a))
    <3> j - Len(a) \in 1 .. Len(b) /\ k - Len(a) \in 1 .. Len(b)
      BY <1>2, <2>3
    <3>1. PICK m \in 1 .. Len(b), n \in 1 .. Len(b) : m = j - Len(a) /\ n = k - Len(a)
      OBVIOUS
    <3>2. m < n /\ ~(k <= Len(a))
      BY <1>2, <2>3, <3>1
    <3>3. t[j] = b[m] /\ t[k] = b[n]
      BY <1>2, <2>3, <3>1, <3>2
    <3> QED BY <1>4, <3>2, <3>3
  <2> QED BY <1>2, <2>1, <2>2, <2>3
<1> QED BY <1>7, <1>8 DEF t, b

(* Lists of calls to put. *)
LEMMA RankedNone ==
  ASSUME NEW x, NEW q
  PROVE  Ranked(<<>>, x, q)
BY DEF Ranked, Expected, Sorted

LEMMA RankedOne ==
  ASSUME NEW x, NEW q, NEW u, Expects(u, q), Replaces(u, x, q.type)
  PROVE  Ranked(<<u>>, x, q)
<1>1. Len(<<u>>) = 1 /\ <<u>>[1] = u
  OBVIOUS
<1> QED BY <1>1 DEF Ranked, Expected, Sorted

LEMMA RankedTwo ==
  ASSUME NEW x, NEW q, NEW u, NEW v, Expects(u, q), Replaces(u, x, q.type),
         Expects(v, q), Replaces(v, x, q.type), Before(u, v, q.type)
  PROVE  Ranked(<<u, v>>, x, q)
<1> DEFINE a == <<u, v>>
<1>1. Len(a) = 2 /\ a[1] = u /\ a[2] = v
  OBVIOUS
<1> HIDE DEF a
<1>2. Expected(a, q) /\ \A k \in 1 .. Len(a) : Replaces(a[k], x, q.type)
  BY <1>1 DEF Expected
<1>3. ASSUME NEW j \in 1 .. Len(a), NEW k \in 1 .. Len(a), j < k
      PROVE  Before(a[j], a[k], q.type)
  <2>1. j = 1 /\ k = 2
    BY <1>1, <1>3
  <2> QED BY <1>1, <2>1
<1> QED BY <1>2, <1>3 DEF Ranked, Sorted, a

LEMMA RankedThree ==
  ASSUME NEW x, NEW q, NEW u, NEW v, NEW w, Expects(u, q), Replaces(u, x, q.type),
         Expects(v, q), Replaces(v, x, q.type), Expects(w, q), Replaces(w, x, q.type),
         Before(u, v, q.type), Before(u, w, q.type), Before(v, w, q.type)
  PROVE  Ranked(<<u, v, w>>, x, q)
<1> DEFINE a == <<u, v, w>>
<1>1. Len(a) = 3 /\ a[1] = u /\ a[2] = v /\ a[3] = w
  OBVIOUS
<1> HIDE DEF a
<1>2. Expected(a, q) /\ \A k \in 1 .. Len(a) : Replaces(a[k], x, q.type)
  BY <1>1 DEF Expected
<1>3. ASSUME NEW j \in 1 .. Len(a), NEW k \in 1 .. Len(a), j < k
      PROVE  Before(a[j], a[k], q.type)
  <2>1. (j = 1 /\ k = 2) \/ (j = 1 /\ k = 3) \/ (j = 2 /\ k = 3)
    BY <1>1, <1>3
  <2> QED BY <1>1, <2>1
<1> QED BY <1>2, <1>3 DEF Ranked, Sorted, a

(* The fields of a query of each kind. *)
LEMMA FieldsOf ==
  ASSUME NEW q, Shaped(q)
  PROVE  /\ "type" \in DOMAIN q
         /\ q.type \in {"none", "insert", "select", "update", "delete", "createtable", "createindex"}
         /\ q.type # "none" => "tablename" \in DOMAIN q
         /\ q.type \in {"insert", "select", "createindex"} => "cols" \in DOMAIN q
         /\ q.type \in {"insert", "update"} => "values" \in DOMAIN q
         /\ q.type = "createtable" => "columns" \in DOMAIN q
         /\ q.type = "createindex" => {"name", "unique", "indextype"} \subseteq DOMAIN q
         /\ q.type = "select" => "allCols" \in DOMAIN q
         /\ q.type \in Conditional => {"condname", "condvalue"} \subseteq DOMAIN q
<1>1. CASE q = NoQuery
  BY <1>1 DEF NoQuery, Conditional
<1>2. CASE q \in InsertQueries
  BY <1>2 DEF InsertQueries, Conditional
<1>3. CASE q \in SelectQueries
  BY <1>3 DEF SelectQueries, Conditional
<1>4. CASE q \in UpdateQueries
  BY <1>4 DEF UpdateQueries, Conditional
<1>5. CASE q \in DeleteQueries
  BY <1>5 DEF DeleteQueries, Conditional
<1>6. CASE q \in TableQueries
  BY <1>6 DEF TableQueries, Conditional
<1>7. CASE q \in IndexQueries
  BY <1>7 DEF IndexQueries, Conditional
<1> QED BY <1>1, <1>2, <1>3, <1>4, <1>5, <1>6, <1>7 DEF Shaped

LEMMA ShapeOf ==
  ASSUME NEW q, Shaped(q)
  PROVE  /\ q.type = "none" => q = NoQuery
         /\ q.type = "insert" => q \in InsertQueries
         /\ q.type = "select" => q \in SelectQueries
         /\ q.type = "update" => q \in UpdateQueries
         /\ q.type = "delete" => q \in DeleteQueries
         /\ q.type = "createtable" => q \in TableQueries
         /\ q.type = "createindex" => q \in IndexQueries
<1>1. q = NoQuery => q.type = "none"
  BY DEF NoQuery
<1>2. q \in InsertQueries => q.type = "insert"
  BY DEF InsertQueries
<1>3. q \in SelectQueries => q.type = "select"
  BY DEF SelectQueries
<1>4. q \in UpdateQueries => q.type = "update"
  BY DEF UpdateQueries
<1>5. q \in DeleteQueries => q.type = "delete"
  BY DEF DeleteQueries
<1>6. q \in TableQueries => q.type = "createtable"
  BY DEF TableQueries
<1>7. q \in IndexQueries => q.type = "createindex"
  BY DEF IndexQueries
<1> QED BY <1>1, <1>2, <1>3, <1>4, <1>5, <1>6, <1>7 DEF Shaped

(* The first place behind which a field is set. *)
Placed(f, t, c) ==
  /\ f = "name" => c >= 1
  /\ f = "tablename" => c >= 2
  /\ f = "cols" => t = "select" \/ c >= 2
  /\ f = "values" => c >= 5 \/ (t = "update" /\ c >= 2)
  /\ f = "columns" => c >= 3
  /\ f = "condname" => c >= 6
  /\ f = "condvalue" => c >= 7

LEMMA BlankField ==
  ASSUME NEW q, Shaped(q), NEW f, f # "type", NEW v, NEW c \in Nat, NEW k \in Nat, c < k,
         Placed(f, q.type, c), Blank(q, k)
  PROVE  Blank([q EXCEPT ![f] = v], k)
<1> DEFINE r == [q EXCEPT ![f] = v]
           t == q.type
<1>1. \A g \in DOMAIN q : g # f => r[g] = q[g]
  OBVIOUS
<1>2. r.type = t
  BY <1>1, FieldsOf
<1> HIDE DEF r
<1>3. t = "createindex" /\ k <= 1 => r.name = NoName
  BY <1>1, FieldsOf DEF Blank, Placed
<1>4. t # "none" /\ k <= 2 => r.tablename = NoName
  BY <1>1, FieldsOf DEF Blank, Placed
<1>5. t \in {"insert", "createindex"} /\ k <= 2 => r.cols = <<>>
  BY <1>1, FieldsOf DEF Blank, Placed
<1>6. t = "update" /\ k <= 2 => r.values = <<>>
  BY <1>1, FieldsOf DEF Blank, Placed
<1>7. t = "createtable" /\ k <= 2 => r.columns = <<>>
  BY <1>1, FieldsOf DEF Blank, Placed
<1>8. t = "insert" /\ k <= 5 => r.values = <<>>
  BY <1>1, FieldsOf DEF Blank, Placed
<1>9. t \in Conditional /\ k <= 6 => r.condname = NoName
  BY <1>1, FieldsOf DEF Blank, Placed
<1>10. t \in Conditional /\ k <= 7 => r.condvalue = Junk
  BY <1>1, FieldsOf DEF Blank, Placed
<1> QED BY <1>2, <1>3, <1>4, <1>5, <1>6, <1>7, <1>8, <1>9, <1>10 DEF Blank, r

LEMMA BehindField ==
  ASSUME NEW q, Shaped(q), NEW f, f # "type", NEW v, NEW x, ~IsWord(x),
         Placed(f, q.type, Top(x, q.type))
  PROVE  LET r == [q EXCEPT ![f] = v]
         IN  Behind(x, q, r) /\ r.type = q.type
<1> DEFINE r == [q EXCEPT ![f] = v]
           t == q.type
           c == Top(x, t)
<1>1. \A g \in DOMAIN q : g # f => r[g] = q[g]
  OBVIOUS
<1>2. r.type = t
  BY <1>1, FieldsOf
<1> HIDE DEF r
<1>3. ASSUME NEW y, Expects(y, q), Before(x, y, t) PROVE Expects(y, r)
  <2>1. Suits(y, t)
    BY <1>3 DEF Expects
  <2>2. CASE IsWord(y)
    <3>1. y \notin {Do("type"), Do("length")}
      BY <2>2, Kinds
    <3> QED BY <1>2, <2>1, <2>2, <3>1 DEF Expects
  <2>3. CASE ~IsWord(y)
    <3> DEFINE k == Rank(y, t)
    <3>1. c \in Nat /\ k \in Nat /\ c < k
      BY <1>3, <2>3, RankBounds DEF Before
    <3>2. Blank(q, k)
      BY <1>3, <2>3 DEF Expects
    <3>3. Placed(f, t, c)
      OBVIOUS
    <3>4. y \in {Do("type"), Do("length")} => k = 3 /\ t = "createtable"
      BY <2>1, Ranks DEF Suits, OfTable
    <3> HIDE DEF c, k
    <3>5. Blank(r, k)
      BY <3>1, <3>2, <3>3, BlankField DEF r
    <3>6. y \in {Do("type"), Do("length")} => Untyped(r)
      <4> SUFFICES ASSUME y \in {Do("type"), Do("length")} PROVE Untyped(r)
        OBVIOUS
      <4>1. f # "columns" /\ "columns" \in DOMAIN q
        BY <3>1, <3>3, <3>4, FieldsOf DEF Placed
      <4>2. r.columns = q.columns
        BY <1>1, <4>1
      <4>3. Untyped(q)
        BY <1>3 DEF Expects
      <4> QED BY <4>2, <4>3 DEF Untyped
    <3>7. Rank(y, r.type) = k
      BY <1>2 DEF k
    <3> QED BY <1>2, <2>1, <2>3, <3>5, <3>6, <3>7 DEF Expects
  <2> QED BY <2>2, <2>3
<1> QED BY <1>2, <1>3 DEF Behind, r

(* The kinds of statements that a call is part of. *)
LEMMA SuitWords ==
  ASSUME NEW l, l \notin Constants \cup {"Ident"}, NEW q
  PROVE  Expects(Word(l), q)
BY Kinds DEF Expects, Suits, Both, OfInsert, OfSelect, InUpdate, OfUpdate, OfSets, OfTable, OfIndex,
             Word, Name, Loop, Do

LEMMA SuitNames ==
  ASSUME NEW t
  PROVE  /\ Suits(Name("tablename"), t) <=> t # "none"
         /\ Suits(Name("name"), t) <=> t = "createindex"
         /\ Suits(Name("condname"), t) <=> t \in Conditional
BY Kinds DEF Suits, Both, OfInsert, OfSelect, InUpdate, OfUpdate, OfSets, OfTable, OfIndex,
             Name, Loop, Do

LEMMA SuitLoops ==
  ASSUME NEW t
  PROVE  /\ \A x \in Both("cols") : Suits(x, t) <=> t \in {"insert", "select"}
         /\ \A x \in Both("values") : Suits(x, t) <=> t = "insert"
         /\ \A x \in Both("sets") : Suits(x, t) <=> t = "update"
         /\ \A x \in Both("columns") : Suits(x, t) <=> t = "createtable"
         /\ \A x \in Both("indexcols") : Suits(x, t) <=> t = "createindex"
<1>1. \A x \in Both("cols") : Suits(x, t) <=> t \in {"insert", "select"}
  <2>1. Suits(Loop("cols"), t) <=> t \in {"insert", "select"}
    BY Kinds DEF Suits, Both, OfInsert, OfSelect, InUpdate, OfUpdate, OfSets, OfTable, OfIndex,
                 Name, Loop, Do
  <2>2. Suits(<<"comma", "cols">>, t) <=> t \in {"insert", "select"}
    BY Kinds DEF Suits, Both, OfInsert, OfSelect, InUpdate, OfUpdate, OfSets, OfTable, OfIndex,
                 Name, Loop, Do
  <2> QED BY <2>1, <2>2 DEF Both
<1>2. \A x \in Both("values") : Suits(x, t) <=> t = "insert"
  <2>1. Suits(Loop("values"), t) <=> t = "insert"
    BY Kinds DEF Suits, Both, OfInsert, OfSelect, InUpdate, OfUpdate, OfSets, OfTable, OfIndex,
                 Name, Loop, Do
  <2>2. Suits(<<"comma", "values">>, t) <=> t = "insert"
    BY Kinds DEF Suits, Both, OfInsert, OfSelect, InUpdate, OfUpdate, OfSets, OfTable, OfIndex,
                 Name, Loop, Do
  <2> QED BY <2>1, <2>2 DEF Both
<1>3. \A x \in Both("sets") : Suits(x, t) <=> t = "update"
  <2>1. Suits(Loop("sets"), t) <=> t = "update"
    BY Kinds DEF Suits, Both, OfInsert, OfSelect, InUpdate, OfUpdate, OfSets, OfTable, OfIndex,
                 Name, Loop, Do
  <2>2. Suits(<<"comma", "sets">>, t) <=> t = "update"
    BY Kinds DEF Suits, Both, OfInsert, OfSelect, InUpdate, OfUpdate, OfSets, OfTable, OfIndex,
                 Name, Loop, Do
  <2> QED BY <2>1, <2>2 DEF Both
<1>4. \A x \in Both("columns") : Suits(x, t) <=> t = "createtable"
  <2>1. Suits(Loop("columns"), t) <=> t = "createtable"
    BY Kinds DEF Suits, Both, OfInsert, OfSelect, InUpdate, OfUpdate, OfSets, OfTable, OfIndex,
                 Name, Loop, Do
  <2>2. Suits(<<"comma", "columns">>, t) <=> t = "createtable"
    BY Kinds DEF Suits, Both, OfInsert, OfSelect, InUpdate, OfUpdate, OfSets, OfTable, OfIndex,
                 Name, Loop, Do
  <2> QED BY <2>1, <2>2 DEF Both
<1>5. \A x \in Both("indexcols") : Suits(x, t) <=> t = "createindex"
  <2>1. Suits(Loop("indexcols"), t) <=> t = "createindex"
    BY Kinds DEF Suits, Both, OfInsert, OfSelect, InUpdate, OfUpdate, OfSets, OfTable, OfIndex,
                 Name, Loop, Do
  <2>2. Suits(<<"comma", "indexcols">>, t) <=> t = "createindex"
    BY Kinds DEF Suits, Both, OfInsert, OfSelect, InUpdate, OfUpdate, OfSets, OfTable, OfIndex,
                 Name, Loop, Do
  <2> QED BY <2>1, <2>2 DEF Both
<1> QED BY <1>1, <1>2, <1>3, <1>4, <1>5

LEMMA SuitDeeds ==
  ASSUME NEW t
  PROVE  /\ \A x \in {"statement", "create"} : Suits(Do(x), t) <=> t = "none"
         /\ Suits(Do("return"), t) <=> t # "none"
         /\ Suits(Do("pairs"), t) <=> t = "insert"
         /\ \A x \in {"columns", "where"} : Suits(Do(x), t) <=> t = "select"
         /\ \A x \in {"table", "updatewhere", "condition", "condname", "setname", "setvalue"} :
              Suits(Do(x), t) <=> t = "update"
         /\ Suits(Do("condvalue"), t) <=> t \in Conditional
         /\ \A x \in {"unique", "method", "order"} : Suits(Do(x), t) <=> t = "createindex"
         /\ \A x \in {"type", "length"} : Suits(Do(x), t) <=> t = "createtable"
BY Kinds DEF Suits, Both, OfInsert, OfSelect, InUpdate, OfUpdate, OfSets, OfTable, OfIndex,
             Name, Loop, Do

(* A call that is not about the type of a column. *)
LEMMA ExpectsIs ==
  ASSUME NEW x, NEW q, ~IsWord(x), x \notin {Do("type"), Do("length")}
  PROVE  Expects(x, q) <=> Suits(x, q.type) /\ Blank(q, Rank(x, q.type))
BY DEF Expects

LEMMA Distinct ==
  /\ \A x : Name(x) \notin {Do("type"), Do("length")} /\ Loop(x) \notin {Do("type"), Do("length")}
              /\ <<"comma", x>> \notin {Do("type"), Do("length")}
  /\ \A x \in {"statement", "create", "return", "pairs", "columns", "where", "table", "updatewhere",
               "condition", "condname", "condvalue", "setname", "setvalue", "unique", "method", "order"} :
       Do(x) \notin {Do("type"), Do("length")}
BY DEF Name, Loop, Do

(* What the calls of a statement, as it begins, expect of its query. *)
LEMMA Fresh ==
  \A q \in {NewInsert, NewSelect, NewUpdate, NewDelete, NewTable, NewIndex, NoQuery} :
    \A k \in Nat : Blank(q, k)
BY DEF Blank, Conditional, NewInsert, NewSelect, NewUpdate, NewDelete, NewTable, NewIndex, NoQuery

LEMMA InsertRanked == Expected(p_insert, NewInsert) /\ Sorted(p_insert, "insert")
<1> DEFINE s == p_insert
           t == "insert"
<1>1. /\ Len(s) = 12
      /\ s[1] = Word("insert") /\ s[2] = Word("into") /\ s[3] = Name("tablename") /\ s[4] = Word("(")
      /\ s[5] = Loop("cols") /\ s[6] = Word(")") /\ s[7] = Word("values") /\ s[8] = Word("(")
      /\ s[9] = Loop("values") /\ s[10] = Word(")") /\ s[11] = Do("pairs") /\ s[12] = Do("return")
  BY DEF p_insert
<1>2. \A k \in {1, 2, 4, 6, 7, 8, 10} : IsWord(s[k])
  BY <1>1, Kinds
<1>3. Rank(s[3], t) = 2 /\ Rank(s[5], t) = 5 /\ Rank(s[9], t) = 6 /\ Rank(s[11], t) = 8 /\ Rank(s[12], t) = 9
  BY <1>1, Ranks DEF Both
<1>4. \A k \in {3, 5, 9, 11, 12} : Top(s[k], t) = Rank(s[k], t)
  BY <1>1, Tops DEF Name, Loop, Do
<1> HIDE DEF s
<1>5. Sorted(s, t)
  <2> SUFFICES ASSUME NEW j \in 1 .. 12, NEW k \in 1 .. 12, j < k, ~IsWord(s[j]), ~IsWord(s[k])
               PROVE  Top(s[j], t) < Rank(s[k], t)
    BY <1>1 DEF Sorted, Before
  <2>1. j \in {3, 5, 9, 11, 12} /\ k \in {3, 5, 9, 11, 12}
    BY <1>2
  <2> QED BY <1>3, <1>4, <2>1
<1>6. \A k \in {1, 2, 4, 6, 7, 8, 10} : Expects(s[k], NewInsert)
  BY <1>1, SuitWords DEF Constants
<1>7. NewInsert.type = "insert"
  BY DEF NewInsert
<1>8. \A k \in {3, 5, 9, 11, 12} : Suits(s[k], t) /\ ~IsWord(s[k]) /\ s[k] \notin {Do("type"), Do("length")}
  <2>1. \A k \in {3} : Suits(s[k], t) /\ ~IsWord(s[k]) /\ s[k] \notin {Do("type"), Do("length")}
    <3>1. \A k \in {3} : Suits(s[k], t)
      BY <1>1, SuitNames
    <3>2. \A k \in {3} : ~IsWord(s[k])
      BY <1>1, Kinds, ZenonT(20)
    <3>3. \A k \in {3} : s[k] \notin {Do("type"), Do("length")}
      BY <1>1, Distinct
    <3> QED BY <3>1, <3>2, <3>3
  <2>2. \A k \in {5, 9} : Suits(s[k], t) /\ ~IsWord(s[k]) /\ s[k] \notin {Do("type"), Do("length")}
    <3>1. \A k \in {5, 9} : Suits(s[k], t)
      BY <1>1, SuitLoops DEF Both
    <3>2. \A k \in {5, 9} : ~IsWord(s[k])
      BY <1>1, Kinds, ZenonT(20)
    <3>3. \A k \in {5, 9} : s[k] \notin {Do("type"), Do("length")}
      BY <1>1, Distinct DEF Both
    <3> QED BY <3>1, <3>2, <3>3
  <2>3. \A k \in {11, 12} : Suits(s[k], t) /\ ~IsWord(s[k]) /\ s[k] \notin {Do("type"), Do("length")}
    <3>1. \A k \in {11, 12} : Suits(s[k], t)
      BY <1>1, SuitDeeds
    <3>2. \A k \in {11, 12} : ~IsWord(s[k])
      BY <1>1, Kinds, ZenonT(20)
    <3>3. \A k \in {11, 12} : s[k] \notin {Do("type"), Do("length")}
      BY <1>1, Distinct
    <3> QED BY <3>1, <3>2, <3>3
  <2> QED BY <2>1, <2>2, <2>3
<1>9. \A k \in {3, 5, 9, 11, 12} : Expects(s[k], NewInsert)
  BY <1>7, <1>8, ExpectsIs, Fresh, RankBounds
<1>10. Expected(s, NewInsert)
  BY <1>1, <1>6, <1>9 DEF Expected
<1> QED BY <1>5, <1>10 DEF s

LEMMA SelectRanked == Expected(p_select, NewSelect) /\ Sorted(p_select, "select")
<1> DEFINE s == p_select
           t == "select"
<1>1. /\ Len(s) = 6
      /\ s[1] = Word("select") /\ s[2] = Do("columns") /\ s[3] = Word("from") /\ s[4] = Name("tablename")
      /\ s[5] = Do("where") /\ s[6] = Do("return")
  BY DEF p_select
<1>2. \A k \in {1, 3} : IsWord(s[k])
  BY <1>1, Kinds
<1>3. Rank(s[2], t) = 1 /\ Rank(s[4], t) = 2 /\ Rank(s[5], t) = 6 /\ Rank(s[6], t) = 9
  BY <1>1, Ranks DEF Both
<1>4. /\ \A k \in {2, 4, 6} : Top(s[k], t) = Rank(s[k], t)
      /\ Top(s[5], t) = 7
  BY <1>1, Tops DEF Name, Loop, Do
<1> HIDE DEF s
<1>5. Sorted(s, t)
  <2> SUFFICES ASSUME NEW j \in 1 .. 6, NEW k \in 1 .. 6, j < k, ~IsWord(s[j]), ~IsWord(s[k])
               PROVE  Top(s[j], t) < Rank(s[k], t)
    BY <1>1 DEF Sorted, Before
  <2>1. j \in {2, 4, 5, 6} /\ k \in {2, 4, 5, 6}
    BY <1>2
  <2> QED BY <1>3, <1>4, <2>1
<1>6. \A k \in {1, 3} : Expects(s[k], NewSelect)
  BY <1>1, SuitWords DEF Constants
<1>7. NewSelect.type = "select"
  BY DEF NewSelect
<1>8. \A k \in {2, 4, 5, 6} : Suits(s[k], t) /\ ~IsWord(s[k]) /\ s[k] \notin {Do("type"), Do("length")}
  <2>1. \A k \in {4} : Suits(s[k], t) /\ ~IsWord(s[k]) /\ s[k] \notin {Do("type"), Do("length")}
    <3>1. \A k \in {4} : Suits(s[k], t)
      BY <1>1, SuitNames
    <3>2. \A k \in {4} : ~IsWord(s[k])
      BY <1>1, Kinds, ZenonT(20)
    <3>3. \A k \in {4} : s[k] \notin {Do("type"), Do("length")}
      BY <1>1, Distinct
    <3> QED BY <3>1, <3>2, <3>3
  <2>2. \A k \in {2, 5, 6} : Suits(s[k], t) /\ ~IsWord(s[k]) /\ s[k] \notin {Do("type"), Do("length")}
    <3>1. \A k \in {2, 5, 6} : Suits(s[k], t)
      BY <1>1, SuitDeeds
    <3>2. \A k \in {2, 5, 6} : ~IsWord(s[k])
      BY <1>1, Kinds, ZenonT(20)
    <3>3. \A k \in {2, 5, 6} : s[k] \notin {Do("type"), Do("length")}
      BY <1>1, Distinct
    <3> QED BY <3>1, <3>2, <3>3
  <2> QED BY <2>1, <2>2
<1>9. \A k \in {2, 4, 5, 6} : Expects(s[k], NewSelect)
  BY <1>7, <1>8, ExpectsIs, Fresh, RankBounds
<1>10. Expected(s, NewSelect)
  BY <1>1, <1>6, <1>9 DEF Expected
<1> QED BY <1>5, <1>10 DEF s

LEMMA UpdateRanked == Expected(p_update, NewUpdate) /\ Sorted(p_update, "update")
<1> DEFINE s == p_update
           t == "update"
<1>1. /\ Len(s) = 7
      /\ s[1] = Word("update") /\ s[2] = Do("table") /\ s[3] = Name("tablename") /\ s[4] = Word("set")
      /\ s[5] = Loop("sets") /\ s[6] = Do("updatewhere") /\ s[7] = Do("return")
  BY DEF p_update
<1>2. \A k \in {1, 4} : IsWord(s[k])
  BY <1>1, Kinds
<1>3. Rank(s[2], t) = 1 /\ Rank(s[3], t) = 2 /\ Rank(s[5], t) = 5 /\ Rank(s[6], t) = 6 /\ Rank(s[7], t) = 9
  BY <1>1, Ranks DEF Both
<1>4. /\ \A k \in {2, 3, 5, 7} : Top(s[k], t) = Rank(s[k], t)
      /\ Top(s[6], t) = 7
  BY <1>1, Tops DEF Name, Loop, Do
<1> HIDE DEF s
<1>5. Sorted(s, t)
  <2> SUFFICES ASSUME NEW j \in 1 .. 7, NEW k \in 1 .. 7, j < k, ~IsWord(s[j]), ~IsWord(s[k])
               PROVE  Top(s[j], t) < Rank(s[k], t)
    BY <1>1 DEF Sorted, Before
  <2>1. j \in {2, 3, 5, 6, 7} /\ k \in {2, 3, 5, 6, 7}
    BY <1>2
  <2> QED BY <1>3, <1>4, <2>1
<1>6. \A k \in {1, 4} : Expects(s[k], NewUpdate)
  BY <1>1, SuitWords DEF Constants
<1>7. NewUpdate.type = "update"
  BY DEF NewUpdate
<1>8. \A k \in {2, 3, 5, 6, 7} : Suits(s[k], t) /\ ~IsWord(s[k]) /\ s[k] \notin {Do("type"), Do("length")}
  <2>1. \A k \in {3} : Suits(s[k], t) /\ ~IsWord(s[k]) /\ s[k] \notin {Do("type"), Do("length")}
    <3>1. \A k \in {3} : Suits(s[k], t)
      BY <1>1, SuitNames
    <3>2. \A k \in {3} : ~IsWord(s[k])
      BY <1>1, Kinds, ZenonT(20)
    <3>3. \A k \in {3} : s[k] \notin {Do("type"), Do("length")}
      BY <1>1, Distinct
    <3> QED BY <3>1, <3>2, <3>3
  <2>2. \A k \in {5} : Suits(s[k], t) /\ ~IsWord(s[k]) /\ s[k] \notin {Do("type"), Do("length")}
    <3>1. \A k \in {5} : Suits(s[k], t)
      BY <1>1, SuitLoops DEF Both
    <3>2. \A k \in {5} : ~IsWord(s[k])
      BY <1>1, Kinds, ZenonT(20)
    <3>3. \A k \in {5} : s[k] \notin {Do("type"), Do("length")}
      BY <1>1, Distinct DEF Both
    <3> QED BY <3>1, <3>2, <3>3
  <2>3. \A k \in {2, 6, 7} : Suits(s[k], t) /\ ~IsWord(s[k]) /\ s[k] \notin {Do("type"), Do("length")}
    <3>1. \A k \in {2, 6, 7} : Suits(s[k], t)
      BY <1>1, SuitDeeds
    <3>2. \A k \in {2, 6, 7} : ~IsWord(s[k])
      BY <1>1, Kinds, ZenonT(20)
    <3>3. \A k \in {2, 6, 7} : s[k] \notin {Do("type"), Do("length")}
      BY <1>1, Distinct
    <3> QED BY <3>1, <3>2, <3>3
  <2> QED BY <2>1, <2>2, <2>3
<1>9. \A k \in {2, 3, 5, 6, 7} : Expects(s[k], NewUpdate)
  BY <1>7, <1>8, ExpectsIs, Fresh, RankBounds
<1>10. Expected(s, NewUpdate)
  BY <1>1, <1>6, <1>9 DEF Expected
<1> QED BY <1>5, <1>10 DEF s

LEMMA DeleteRanked == Expected(p_delete, NewDelete) /\ Sorted(p_delete, "delete")
<1> DEFINE s == p_delete
           t == "delete"
<1>1. /\ Len(s) = 8
      /\ s[1] = Word("delete") /\ s[2] = Word("from") /\ s[3] = Name("tablename") /\ s[4] = Word("where")
      /\ s[5] = Name("condname") /\ s[6] = Word("=") /\ s[7] = Do("condvalue") /\ s[8] = Do("return")
  BY DEF p_delete
<1>2. \A k \in {1, 2, 4, 6} : IsWord(s[k])
  BY <1>1, Kinds
<1>3. Rank(s[3], t) = 2 /\ Rank(s[5], t) = 6 /\ Rank(s[7], t) = 7 /\ Rank(s[8], t) = 9
  BY <1>1, Ranks DEF Both
<1>4. \A k \in {3, 5, 7, 8} : Top(s[k], t) = Rank(s[k], t)
  BY <1>1, Tops DEF Name, Loop, Do
<1> HIDE DEF s
<1>5. Sorted(s, t)
  <2> SUFFICES ASSUME NEW j \in 1 .. 8, NEW k \in 1 .. 8, j < k, ~IsWord(s[j]), ~IsWord(s[k])
               PROVE  Top(s[j], t) < Rank(s[k], t)
    BY <1>1 DEF Sorted, Before
  <2>1. j \in {3, 5, 7, 8} /\ k \in {3, 5, 7, 8}
    BY <1>2
  <2> QED BY <1>3, <1>4, <2>1
<1>6. \A k \in {1, 2, 4, 6} : Expects(s[k], NewDelete)
  BY <1>1, SuitWords DEF Constants
<1>7. NewDelete.type = "delete"
  BY DEF NewDelete
<1>8. t \in Conditional
  BY DEF Conditional
<1>9. \A k \in {3, 5, 7, 8} : Suits(s[k], t) /\ ~IsWord(s[k]) /\ s[k] \notin {Do("type"), Do("length")}
  <2>1. \A k \in {3, 5} : Suits(s[k], t) /\ ~IsWord(s[k]) /\ s[k] \notin {Do("type"), Do("length")}
    <3>1. \A k \in {3, 5} : Suits(s[k], t)
      BY <1>1, <1>8, SuitNames
    <3>2. \A k \in {3, 5} : ~IsWord(s[k])
      BY <1>1, Kinds, ZenonT(20)
    <3>3. \A k \in {3, 5} : s[k] \notin {Do("type"), Do("length")}
      BY <1>1, Distinct
    <3> QED BY <3>1, <3>2, <3>3
  <2>2. \A k \in {7, 8} : Suits(s[k], t) /\ ~IsWord(s[k]) /\ s[k] \notin {Do("type"), Do("length")}
    <3>1. \A k \in {7, 8} : Suits(s[k], t)
      BY <1>1, <1>8, SuitDeeds
    <3>2. \A k \in {7, 8} : ~IsWord(s[k])
      BY <1>1, Kinds, ZenonT(20)
    <3>3. \A k \in {7, 8} : s[k] \notin {Do("type"), Do("length")}
      BY <1>1, Distinct
    <3> QED BY <3>1, <3>2, <3>3
  <2> QED BY <2>1, <2>2
<1>10. \A k \in {3, 5, 7, 8} : Expects(s[k], NewDelete)
  BY <1>7, <1>9, ExpectsIs, Fresh, RankBounds
<1>11. Expected(s, NewDelete)
  BY <1>1, <1>6, <1>10 DEF Expected
<1> QED BY <1>5, <1>11 DEF s

LEMMA TableRanked == Expected(CreateTable, NewTable) /\ Sorted(CreateTable, "createtable")
<1> DEFINE s == CreateTable
           t == "createtable"
<1>1. /\ Len(s) = 6
      /\ s[1] = Word("table") /\ s[2] = Name("tablename") /\ s[3] = Word("(") /\ s[4] = Loop("columns")
      /\ s[5] = Word(")") /\ s[6] = Do("return")
  BY DEF CreateTable
<1>2. \A k \in {1, 3, 5} : IsWord(s[k])
  BY <1>1, Kinds
<1>3. Rank(s[2], t) = 2 /\ Rank(s[4], t) = 5 /\ Rank(s[6], t) = 9
  BY <1>1, Ranks DEF Both
<1>4. \A k \in {2, 4, 6} : Top(s[k], t) = Rank(s[k], t)
  BY <1>1, Tops DEF Name, Loop, Do
<1> HIDE DEF s
<1>5. Sorted(s, t)
  <2> SUFFICES ASSUME NEW j \in 1 .. 6, NEW k \in 1 .. 6, j < k, ~IsWord(s[j]), ~IsWord(s[k])
               PROVE  Top(s[j], t) < Rank(s[k], t)
    BY <1>1 DEF Sorted, Before
  <2>1. j \in {2, 4, 6} /\ k \in {2, 4, 6}
    BY <1>2
  <2> QED BY <1>3, <1>4, <2>1
<1>6. \A k \in {1, 3, 5} : Expects(s[k], NewTable)
  BY <1>1, SuitWords DEF Constants
<1>7. NewTable.type = "createtable"
  BY DEF NewTable
<1>8. \A k \in {2, 4, 6} : Suits(s[k], t) /\ ~IsWord(s[k]) /\ s[k] \notin {Do("type"), Do("length")}
  <2>1. \A k \in {2} : Suits(s[k], t) /\ ~IsWord(s[k]) /\ s[k] \notin {Do("type"), Do("length")}
    <3>1. \A k \in {2} : Suits(s[k], t)
      BY <1>1, SuitNames
    <3>2. \A k \in {2} : ~IsWord(s[k])
      BY <1>1, Kinds, ZenonT(20)
    <3>3. \A k \in {2} : s[k] \notin {Do("type"), Do("length")}
      BY <1>1, Distinct
    <3> QED BY <3>1, <3>2, <3>3
  <2>2. \A k \in {4} : Suits(s[k], t) /\ ~IsWord(s[k]) /\ s[k] \notin {Do("type"), Do("length")}
    <3>1. \A k \in {4} : Suits(s[k], t)
      BY <1>1, SuitLoops DEF Both
    <3>2. \A k \in {4} : ~IsWord(s[k])
      BY <1>1, Kinds, ZenonT(20)
    <3>3. \A k \in {4} : s[k] \notin {Do("type"), Do("length")}
      BY <1>1, Distinct DEF Both
    <3> QED BY <3>1, <3>2, <3>3
  <2>3. \A k \in {6} : Suits(s[k], t) /\ ~IsWord(s[k]) /\ s[k] \notin {Do("type"), Do("length")}
    <3>1. \A k \in {6} : Suits(s[k], t)
      BY <1>1, SuitDeeds
    <3>2. \A k \in {6} : ~IsWord(s[k])
      BY <1>1, Kinds, ZenonT(20)
    <3>3. \A k \in {6} : s[k] \notin {Do("type"), Do("length")}
      BY <1>1, Distinct
    <3> QED BY <3>1, <3>2, <3>3
  <2> QED BY <2>1, <2>2, <2>3
<1>9. \A k \in {2, 4, 6} : Expects(s[k], NewTable)
  BY <1>7, <1>8, ExpectsIs, Fresh, RankBounds
<1>10. Expected(s, NewTable)
  BY <1>1, <1>6, <1>9 DEF Expected
<1> QED BY <1>5, <1>10 DEF s

LEMMA IndexRanked == Expected(CreateIndex, NewIndex) /\ Sorted(CreateIndex, "createindex")
<1> DEFINE s == CreateIndex
           t == "createindex"
<1>1. /\ Len(s) = 11
      /\ s[1] = Do("unique") /\ s[2] = Word("index") /\ s[3] = Name("name") /\ s[4] = Word("on")
      /\ s[5] = Name("tablename") /\ s[6] = Word("(") /\ s[7] = Loop("indexcols") /\ s[8] = Word(")")
      /\ s[9] = Word("using") /\ s[10] = Do("method") /\ s[11] = Do("return")
  BY DEF CreateIndex
<1>2. \A k \in {2, 4, 6, 8, 9} : IsWord(s[k])
  BY <1>1, Kinds
<1>3. Rank(s[1], t) = 0 /\ Rank(s[3], t) = 1 /\ Rank(s[5], t) = 2 /\ Rank(s[7], t) = 5 /\ Rank(s[10], t) = 8 /\ Rank(s[11], t) = 9
  BY <1>1, Ranks DEF Both
<1>4. \A k \in {1, 3, 5, 7, 10, 11} : Top(s[k], t) = Rank(s[k], t)
  BY <1>1, Tops DEF Name, Loop, Do
<1> HIDE DEF s
<1>5. Sorted(s, t)
  <2> SUFFICES ASSUME NEW j \in 1 .. 11, NEW k \in 1 .. 11, j < k, ~IsWord(s[j]), ~IsWord(s[k])
               PROVE  Top(s[j], t) < Rank(s[k], t)
    BY <1>1 DEF Sorted, Before
  <2>1. j \in {1, 3, 5, 7, 10, 11} /\ k \in {1, 3, 5, 7, 10, 11}
    BY <1>2
  <2> QED BY <1>3, <1>4, <2>1
<1>6. \A k \in {2, 4, 6, 8, 9} : Expects(s[k], NewIndex)
  BY <1>1, SuitWords DEF Constants
<1>7. NewIndex.type = "createindex"
  BY DEF NewIndex
<1>8. \A k \in {1, 3, 5, 7, 10, 11} : Suits(s[k], t) /\ ~IsWord(s[k]) /\ s[k] \notin {Do("type"), Do("length")}
  <2>1. \A k \in {3, 5} : Suits(s[k], t) /\ ~IsWord(s[k]) /\ s[k] \notin {Do("type"), Do("length")}
    <3>1. Suits(s[3], t) /\ ~IsWord(s[3]) /\ s[3] \notin {Do("type"), Do("length")}
      BY <1>1, SuitNames, Kinds, Distinct
    <3>2. Suits(s[5], t) /\ ~IsWord(s[5]) /\ s[5] \notin {Do("type"), Do("length")}
      BY <1>1, SuitNames, Kinds, Distinct
    <3> QED BY <3>1, <3>2
  <2>2. \A k \in {7} : Suits(s[k], t) /\ ~IsWord(s[k]) /\ s[k] \notin {Do("type"), Do("length")}
    <3>1. \A k \in {7} : Suits(s[k], t)
      BY <1>1, SuitLoops DEF Both
    <3>2. \A k \in {7} : ~IsWord(s[k])
      BY <1>1, Kinds, ZenonT(20)
    <3>3. \A k \in {7} : s[k] \notin {Do("type"), Do("length")}
      BY <1>1, Distinct DEF Both
    <3> QED BY <3>1, <3>2, <3>3
  <2>3. \A k \in {1, 10, 11} : Suits(s[k], t) /\ ~IsWord(s[k]) /\ s[k] \notin {Do("type"), Do("length")}
    <3>1. \A k \in {1, 10, 11} : Suits(s[k], t)
      BY <1>1, SuitDeeds
    <3>2. \A k \in {1, 10, 11} : ~IsWord(s[k])
      BY <1>1, Kinds, ZenonT(20)
    <3>3. \A k \in {1, 10, 11} : s[k] \notin {Do("type"), Do("length")}
      BY <1>1, Distinct
    <3> QED BY <3>1, <3>2, <3>3
  <2> QED BY <2>1, <2>2, <2>3
<1>9. \A k \in {1, 3, 5, 7, 10, 11} : Expects(s[k], NewIndex)
  BY <1>7, <1>8, ExpectsIs, Fresh, RankBounds
<1>10. Expected(s, NewIndex)
  BY <1>1, <1>6, <1>9 DEF Expected
<1> QED BY <1>5, <1>10 DEF s

LEMMA CreateRanked == Expected(p_create, NoQuery) /\ Sorted(p_create, "none")
<1>1. Len(p_create) = 2 /\ p_create[1] = Word("create") /\ p_create[2] = Do("create")
  BY DEF p_create
<1>2. Expects(Word("create"), NoQuery)
  BY SuitWords DEF Constants
<1>3. Expects(Do("create"), NoQuery)
  <2>1. Suits(Do("create"), "none") /\ ~IsWord(Do("create")) /\ Do("create") \notin {Do("type"), Do("length")}
    BY SuitDeeds, Kinds, Distinct
  <2>2. NoQuery.type = "none"
    BY DEF NoQuery
  <2> QED BY <2>1, <2>2, ExpectsIs, Fresh, RankBounds
<1>4. IsWord(p_create[1])
  BY <1>1, Kinds
<1>5. ASSUME NEW j \in 1 .. 2, NEW k \in 1 .. 2, j < k PROVE Before(p_create[j], p_create[k], "none")
  <2>1. j = 1
    BY <1>5
  <2> QED BY <1>4, <2>1 DEF Before
<1> QED BY <1>1, <1>2, <1>3, <1>5 DEF Expected, Sorted

-----------------------------------------------------------------------------
(* The symbol ahead, and the text that has been consumed. *)

Appended == \E p \in Pieces : text' = Append(text, p)

LEMMA AppendedAhead ==
  ASSUME LexOK, NEW p \in Pieces, text' = Append(text, p)
  PROVE  text' # <<>> /\ text'[Len(text')] = p
<1>1. text \in Seq(Pieces) /\ Len(text) \in Nat
  BY LenProperties DEF LexOK
<1>2. /\ text' \in Seq(Pieces) /\ Len(text') = Len(text) + 1 /\ text'[Len(text) + 1] = p
  BY <1>1, AppendProperties
<1>3. text' # <<>>
  BY <1>1, <1>2
<1> QED BY <1>2, <1>3

(* What a number leaves in the constants is its value, when an int holds it. *)
LEMMA NumberRead ==
  ASSUME negative = FALSE, NEW x \in Numbers, NEW minus \in BOOLEAN, ReadNumber(x, minus),
         ~Overflows(Piece(x.lex, IF minus THEN -x.val ELSE x.val))
  PROVE  LET v == IF minus THEN -x.val ELSE x.val
         IN  /\ x.lex = "intconst" => intconst' = v
             /\ x.lex = "doubleconst" => doubleconst' = v
<1> DEFINE v == IF minus THEN -x.val ELSE x.val
           w == Wrap(x.val)
<1>1. x.val \in Nat /\ v \in Int
  BY ParserAssumption DEF Numbers, Piece
<1>2. CASE x.lex = "intconst"
  <2>1. Wrap(v) = v
    BY <1>2 DEF Overflows, Piece
  <2>2. intconst' = IF minus THEN Wrap(-w) ELSE w
    BY DEF ReadNumber
  <2>3. minus => Wrap(-w) = v
    BY <1>1, <2>1, WrapFits
  <2> HIDE DEF w
  <2> QED BY <1>2, <2>1, <2>2, <2>3 DEF w
<1>3. CASE x.lex = "doubleconst"
  <2>1. Wrap(x.val) = x.val
    <3>1. \A n \in {v, -v} : Wrap(n) = n
      BY <1>3 DEF Overflows, Piece
    <3>2. x.val = v \/ x.val = -v
      BY <1>1
    <3> QED BY <3>1, <3>2
  <2>2. doubleconst' = IF minus THEN -w ELSE w
    BY <1>3 DEF ReadNumber
  <2> QED BY <1>3, <2>1, <2>2
<1> QED BY <1>1, <1>2, <1>3 DEF Numbers, Piece

LEMMA NextsymAhead ==
  ASSUME LexOK, negative = FALSE, ~AtEnd, nextsym
  PROVE  Ahead' /\ Appended
<1>0. negative = FALSE /\ ~AtEnd
  OBVIOUS
<1>1. ASSUME NEW x \in Words, ReadWord(x) PROVE Ahead' /\ Appended
  <2>1. x \in Pieces /\ x.lex \in {"Ident"} \cup Keywords
    BY DEF Words, Piece, Pieces, Symbols, Spoken, Idents
  <2>2. symbol' = x.lex /\ ident' = x.val /\ text' = Append(text, x)
    BY <1>0, <1>1 DEF ReadWord, Reads
  <2>3. x.lex \notin Constants
    BY <2>1 DEF Keywords, Constants
  <2> QED BY <2>1, <2>2, <2>3, AppendedAhead DEF Ahead, Appended, Constants
<1>2. ASSUME NEW x \in Quoted, ReadQuoted(x) PROVE Ahead' /\ Appended
  <2>1. x \in Pieces /\ x.lex = "stringconst" /\ x.lex \notin Keywords
    BY DEF Quoted, Piece, Pieces, Symbols, Constants, Spoken, Keywords
  <2>2. symbol' = x.lex /\ stringconst' = x.val /\ text' = Append(text, x)
    BY <1>0, <1>2 DEF ReadQuoted, Reads
  <2> QED BY <2>1, <2>2, AppendedAhead DEF Ahead, Appended
<1>3. ASSUME NEW x \in Numbers, NEW minus \in BOOLEAN, ReadNumber(x, minus) PROVE Ahead' /\ Appended
  <2> DEFINE v == IF minus THEN -x.val ELSE x.val
             y == Piece(x.lex, v)
  <2>1. x.lex \in {"intconst", "doubleconst"} /\ x.val \in Nat /\ x.lex \notin Keywords
    BY ParserAssumption DEF Numbers, Piece, Keywords
  <2>2. y \in Pieces /\ y.val = v
    BY <2>1 DEF Piece, Pieces, Symbols, Constants, Spoken
  <2>3. symbol' = x.lex /\ text' = Append(text, y)
    BY <1>0, <1>3 DEF ReadNumber, Reads
  <2>4. ~Overflows(y) => /\ x.lex = "intconst" => intconst' = v
                         /\ x.lex = "doubleconst" => doubleconst' = v
    BY <1>0, <1>3, NumberRead
  <2> HIDE DEF y, v
  <2>5. text' # <<>> /\ text'[Len(text')] = y
    BY <2>2, <2>3, AppendedAhead
  <2> QED BY <2>1, <2>2, <2>3, <2>4, <2>5 DEF Ahead, Appended
<1>4. ASSUME NEW x \in Signs \cup {Other, Minus, End}, ReadOther(x) PROVE Ahead' /\ Appended
  <2>1. x \in Pieces /\ x.lex \notin Constants \cup {"Ident"} \cup Keywords
    <3>1. CASE x \in Signs
      <4>1. PICK s \in Punctuation : x = Piece(s, s)
        BY <3>1 DEF Signs
      <4> QED BY <4>1 DEF Piece, Pieces, Symbols, Punctuation, Spoken, Constants, Keywords
    <3>2. CASE x \in {Other, Minus, End}
      BY <3>2 DEF Other, Minus, End, Piece, Pieces, Symbols, Spoken, Constants, Keywords
    <3> QED BY <3>1, <3>2
  <2>2. symbol' = x.lex /\ text' = Append(text, x)
    BY <1>0, <1>4 DEF ReadOther, Reads
  <2>3. text' # <<>>
    BY <2>1, <2>2, AppendedAhead
  <2> QED BY <2>1, <2>2, <2>3 DEF Ahead, Appended, Constants
<1> QED BY <1>1, <1>2, <1>3, <1>4 DEF nextsym

(* A statement of the same kind, a symbol later. *)
LEMMA Consuming ==
  ASSUME LexOK, text # <<>>, Appended, result'.type = result.type, ~Lost'
  PROVE  /\ ~Lost /\ ~Overflows(text[Len(text)])
         /\ ~(result.type = "createtable" /\ text[Len(text)] = Piece("intconst", 0))
         /\ Atoms(Consumed') = Atoms(Consumed) \o AtomOf(text[Len(text)])
         /\ Atoms(Consumed) \in Seq(Pieces) /\ text[Len(text)] \in Pieces
<1> DEFINE n == Len(text)
           last == text[n]
<1>1. PICK p \in Pieces : text' = Append(text, p)
  BY DEF Appended
<1>2. text \in Seq(Pieces) /\ n \in Nat /\ n # 0
  BY LenProperties, EmptySeq DEF LexOK
<1>3. /\ Consumed \in Seq(Pieces) /\ Len(Consumed) = n - 1 /\ last \in Pieces
      /\ text = Append(Consumed, last)
  BY <1>2, FrontLast DEF Consumed
<1>4. Consumed' = text
  <2>1. /\ text' \in Seq(Pieces) /\ Len(text') = n + 1 /\ \A i \in 1 .. n : text'[i] = text[i]
    BY <1>1, <1>2, AppendProperties
  <2>2. text' # <<>>
    BY <1>2, <2>1
  <2>3. /\ Front(text') \in Seq(Pieces) /\ Len(Front(text')) = Len(text') - 1
        /\ text' = Append(Front(text'), text'[Len(text')]) /\ text'[Len(text')] \in Pieces
    BY <2>1, <2>2, FrontLast
  <2>4. Len(Front(text')) = n
    BY <1>2, <2>1, <2>3
  <2>5. \A i \in 1 .. n : Append(Front(text'), text'[Len(text')])[i] = Front(text')[i]
    BY <2>3, <2>4, AppendProperties
  <2>6. \A i \in 1 .. n : Front(text')[i] = text[i]
    BY <2>1, <2>3, <2>5
  <2>7. Front(text') = text
    BY <1>2, <2>3, <2>4, <2>6, SeqEqual
  <2> QED BY <2>7 DEF Consumed
<1>5. Atoms(text) = Atoms(Consumed) \o AtomOf(last) /\ Atoms(Consumed) \in Seq(Pieces)
  BY <1>3, AtomsNext
<1>6. ASSUME NEW i \in DOMAIN text
      PROVE  ~Overflows(text[i]) /\ ~(result.type = "createtable" /\ text[i] = Piece("intconst", 0))
  BY <1>4, <1>6 DEF Lost, ZeroLength
<1>7. n \in DOMAIN text
  BY <1>2, LenProperties
<1>8. ASSUME NEW i \in DOMAIN Consumed PROVE i \in DOMAIN text /\ Consumed[i] = text[i]
  <2>1. i \in 1 .. n - 1 /\ Consumed[i] = text[i]
    BY ConsumedIs DEF LexOK
  <2> QED BY <1>2, <2>1, LenProperties
<1>9. ~Lost
  BY <1>6, <1>8 DEF Lost, ZeroLength
<1> QED BY <1>3, <1>4, <1>5, <1>6, <1>7, <1>9

(* What the symbol ahead brings. *)
LEMMA Brought ==
  ASSUME LexOK, Ahead, text[Len(text)] \in Pieces, ~Overflows(text[Len(text)])
  PROVE  /\ symbol \notin Constants \cup {"Ident"} => AtomOf(text[Len(text)]) = <<>>
         /\ symbol = "Ident" => AtomOf(text[Len(text)]) = <<IdentPiece(ident)>> /\ ident \in Names
         /\ symbol \in Constants =>
              AtomOf(text[Len(text)]) = <<Piece(Constant.type, Constant.val)>> /\ Constant \in Literal
<1> DEFINE last == text[Len(text)]
<1>1. symbol = last.lex
  BY DEF LexOK, Ahead
<1>2. last = Piece(last.lex, last.val)
  BY DEF Pieces, Piece
<1>3. symbol = "Ident" => ident = last.val /\ ident \in Names
  BY DEF Ahead, LexOK
<1>4. symbol \in Constants => Constant.type = last.lex /\ Constant.val = last.val /\ Constant \in Literal
  <2> SUFFICES ASSUME symbol \in Constants
               PROVE  Constant.type = last.lex /\ Constant.val = last.val /\ Constant \in Literal
    OBVIOUS
  <2>1. Constant \in Literal
    BY ConstantIsLiteral
  <2>2. Constant.type = symbol
    BY DEF Constant
  <2>3. Constant.val = last.val
    BY DEF Constant, Constants, Ahead
  <2> QED BY <1>1, <2>1, <2>2, <2>3
<1>5. AtomOf(last) = IF symbol \in Constants \cup {"Ident"} THEN <<last>> ELSE <<>>
  BY <1>1 DEF AtomOf
<1> HIDE DEF last
<1>6. symbol = "Ident" => last = IdentPiece(ident)
  BY <1>1, <1>2, <1>3 DEF IdentPiece
<1>7. symbol \in Constants => last = Piece(Constant.type, Constant.val)
  BY <1>1, <1>2, <1>4
<1> QED BY <1>3, <1>4, <1>5, <1>6, <1>7 DEF last

-----------------------------------------------------------------------------
(* A call is made, and the query is changed. *)

Onto(x, items) ==
  /\ At(x) /\ x \notin Enders \cup {Do("start")} /\ items \in Seq(Item) /\ Go(items)
  /\ Ranked(items, x, result') /\ Behind(x, result, result')
  /\ result'.type = result.type /\ Shaped(result') /\ outcome' = outcome

LEMMA TodoNext ==
  ASSUME IInv, NEW x, NEW items, Onto(x, items)
  PROVE  /\ todo \in Seq(Item) /\ Len(todo) \in Nat /\ Len(items) \in Nat /\ todo[1] = x
         /\ todo' = items \o Tail(todo) /\ todo' # <<>>
         /\ Len(todo') = Len(items) + Len(todo) - 1
         /\ \A k \in 1 .. Len(items) : todo'[k] = items[k]
         /\ \A k \in 2 .. Len(todo) : /\ k - 1 + Len(items) \in 1 .. Len(todo')
                                      /\ todo'[k - 1 + Len(items)] = todo[k]
         /\ Head(todo') = IF items = <<>> THEN todo[2] ELSE items[1]
<1> DEFINE s == Tail(todo)
           a == Len(items)
           t == items \o s
<1>1. Begun /\ Plan(todo) /\ todo # <<>> /\ Head(todo) = x /\ x \notin Enders
  BY Started DEF Onto, At, Begun
<1>2. /\ s # <<>> /\ Len(s) = Len(todo) - 1
      /\ \A k \in 1 .. Len(todo) - 1 : s[k] = todo[k + 1]
  BY <1>1, TailPlan
<1>3. todo \in Seq(Item) /\ Len(todo) \in Nat /\ Len(todo) # 0 /\ s \in Seq(Item) /\ todo[1] = x
  BY <1>1, HeadTailProperties, LenProperties, EmptySeq DEF Plan
<1>4. items \in Seq(Item) /\ a \in Nat /\ todo' = t
  BY LenProperties DEF Onto, Go
<1> HIDE DEF s
<1>5. /\ Len(s) \in Nat /\ Len(s) # 0 /\ t \in Seq(Item) /\ Len(t) = a + Len(s)
      /\ \A k \in 1 .. a + Len(s) : t[k] = IF k <= a THEN items[k] ELSE s[k - a]
  BY <1>2, <1>3, <1>4, ConcatProperties, LenProperties, EmptySeq
<1> HIDE DEF t, a
<1>6. \A k \in 1 .. a : t[k] = items[k]
  BY <1>4, <1>5
<1>7. ASSUME NEW k \in 2 .. Len(todo)
      PROVE  k - 1 + a \in 1 .. Len(t) /\ t[k - 1 + a] = todo[k]
  <2> k - 1 \in 1 .. Len(s)
    BY <1>2, <1>3
  <2>1. PICK m \in 1 .. Len(s) : m = k - 1
    OBVIOUS
  <2>2. m + a \in 1 .. Len(t) /\ m + a \in 1 .. a + Len(s) /\ ~(m + a <= a) /\ m + a - a = m /\ m + 1 = k
    BY <1>4, <1>5, <2>1
  <2>3. PICK i \in 1 .. a + Len(s) : i = m + a
    BY <2>2
  <2>4. t[i] = s[i - a] /\ i - a = m
    BY <1>4, <1>5, <2>2, <2>3
  <2>5. m \in 1 .. Len(todo) - 1
    BY <1>2
  <2>6. s[m] = todo[m + 1]
    BY <1>2, <2>5
  <2> QED BY <2>1, <2>2, <2>3, <2>4, <2>6
<1>8. t # <<>> /\ Head(t) = t[1]
  BY <1>4, <1>5
<1>9. Head(t) = IF items = <<>> THEN todo[2] ELSE items[1]
  <2>1. CASE a = 0
    <3>1. items = <<>>
      BY <1>4, <2>1, EmptySeq DEF a
    <3>2. 2 \in 2 .. Len(todo) /\ 2 - 1 + a = 1
      BY <1>2, <1>3, <1>5, <2>1
    <3> QED BY <1>7, <1>8, <3>1, <3>2
  <2>2. CASE a # 0
    <3>1. items # <<>> /\ 1 \in 1 .. a
      BY <1>4, <2>2, EmptySeq DEF a
    <3> QED BY <1>6, <1>8, <3>1
  <2> QED BY <2>1, <2>2
<1>10. Len(t) = a + Len(todo) - 1
  BY <1>2, <1>3, <1>4, <1>5
<1> QED BY <1>3, <1>4, <1>6, <1>7, <1>8, <1>9, <1>10 DEF a, t, s

LEMMA OntoOrder ==
  ASSUME IInv, Gathered, NEW x, NEW items, Onto(x, items)
  PROVE  Expected(todo', result') /\ Sorted(todo', result'.type)
<1>1. todo \in Seq(Item) /\ todo # <<>> /\ Head(todo) = x /\ todo' = items \o Tail(todo)
  BY TodoNext DEF Onto, At
<1>2. Expected(todo, result) /\ Sorted(todo, result.type)
  BY DEF Gathered
<1>3. /\ items \in Seq(Item) /\ Ranked(items, x, result') /\ Behind(x, result, result')
      /\ result'.type = result.type
  BY DEF Onto
<1>4. Ranked(items, Head(todo), result') /\ Behind(Head(todo), result, result')
  BY <1>1, <1>3
<1>5. Expected(items \o Tail(todo), result') /\ Sorted(items \o Tail(todo), result'.type)
  BY <1>1, <1>2, <1>3, <1>4, PutRanked
<1> QED BY <1>1, <1>5

(* Calls that are not about an assignment, and compare nothing without a name. *)
CondOK(items) == ToCome(Do("condvalue"), items) => CondNameToCome(items)
NoSet(items) ==
  /\ \A k \in 1 .. Len(items) : items[k] \notin {Do("setname"), Do("setvalue"), Do("condname")}
  /\ CondOK(items)

LEMMA WhichCall ==
  ASSUME IInv, NEW x, NEW items, Onto(x, items), NEW k \in 1 .. Len(todo')
  PROVE  \/ k \in 1 .. Len(items) /\ todo'[k] = items[k]
         \/ \E j \in 2 .. Len(todo) : k = j - 1 + Len(items) /\ todo'[k] = todo[j]
<1>1. /\ Len(todo) \in Nat /\ Len(items) \in Nat
      /\ Len(todo') = Len(items) + Len(todo) - 1
      /\ \A i \in 1 .. Len(items) : todo'[i] = items[i]
      /\ \A j \in 2 .. Len(todo) : todo'[j - 1 + Len(items)] = todo[j]
  BY TodoNext
<1>2. CASE k <= Len(items)
  <2>1. k \in 1 .. Len(items)
    BY <1>1, <1>2
  <2> QED BY <1>1, <2>1
<1>3. CASE ~(k <= Len(items))
  <2> k + 1 - Len(items) \in 2 .. Len(todo)
    BY <1>1, <1>3
  <2>1. PICK j \in 2 .. Len(todo) : j = k + 1 - Len(items)
    OBVIOUS
  <2>2. k = j - 1 + Len(items)
    BY <1>1, <2>1
  <2> QED BY <1>1, <2>2
<1> QED BY <1>2, <1>3

LEMMA DueKept ==
  ASSUME IInv, Gathered, NEW x, NEW items, Onto(x, items),
         \A k \in 1 .. Len(items) : items[k] \notin {Do("setname"), Do("setvalue")},
         x = Do("setname") => Unvalued(result'),
         x # Do("setname") /\ Unvalued(result) /\ result.type = "update"
           /\ Before(x, Do("setvalue"), "update") => Unvalued(result')
  PROVE  ValueDue'
<1>1. todo[1] = x /\ Len(todo) \in Nat
  BY TodoNext
<1> SUFFICES ASSUME NEW k \in 1 .. Len(todo')
             PROVE  /\ todo'[k] = Do("setvalue") => Unvalued(result')
                    /\ todo'[k] # Do("setname")
  BY DEF ValueDue
<1>2. CASE k \in 1 .. Len(items) /\ todo'[k] = items[k]
  BY <1>2
<1>3. ASSUME NEW j \in 2 .. Len(todo), todo'[k] = todo[j]
      PROVE  /\ todo'[k] = Do("setvalue") => Unvalued(result')
             /\ todo'[k] # Do("setname")
  <2>1. j \in 1 .. Len(todo) /\ 1 \in 1 .. Len(todo) /\ j # 1 /\ 1 < j
    BY <1>1
  <2>2. todo[j] = Do("setvalue") => At(Do("setname")) \/ Unvalued(result)
    BY <2>1 DEF Gathered, ValueDue
  <2>3. todo[j] # Do("setname")
    BY <2>1 DEF Gathered, ValueDue
  <2>4. todo[j] = Do("setvalue") => result.type = "update" /\ Before(x, Do("setvalue"), "update")
    <3> SUFFICES ASSUME todo[j] = Do("setvalue")
                 PROVE  result.type = "update" /\ Before(x, Do("setvalue"), "update")
      OBVIOUS
    <3>1. Suits(Do("setvalue"), result.type)
      BY <2>1 DEF Gathered, Expected, Expects
    <3>2. result.type = "update"
      BY <3>1, SuitDeeds
    <3>3. Before(todo[1], todo[j], result.type)
      BY <2>1 DEF Gathered, Sorted
    <3> QED BY <1>1, <3>2, <3>3
  <2>5. At(Do("setname")) => x = Do("setname")
    BY DEF Onto, At
  <2> QED BY <1>3, <2>2, <2>3, <2>4, <2>5
<1> QED BY <1>2, <1>3, WhichCall

LEMMA ToComeKept ==
  ASSUME IInv, NEW x, NEW items, Onto(x, items), NEW y, y # x, ToCome(y, todo)
  PROVE  ToCome(y, todo')
<1>1. PICK k \in 1 .. Len(todo) : todo[k] = y
  BY DEF ToCome
<1>2. Len(todo) \in Nat /\ todo[1] = x
  BY TodoNext
<1>3. k \in 2 .. Len(todo)
  BY <1>1, <1>2
<1>4. k - 1 + Len(items) \in 1 .. Len(todo') /\ todo'[k - 1 + Len(items)] = todo[k]
  BY <1>3, TodoNext
<1> QED BY <1>1, <1>4 DEF ToCome

LEMMA Parsing ==
  ASSUME IInv, NEW x, At(x), x # Do("start")
  PROVE  outcome = "parsing"
<1>1. Begun /\ todo # <<>>
  BY Started DEF At
<1> QED BY <1>1 DEF Begun, EndOK

LEMMA ToComePut ==
  ASSUME IInv, NEW x, NEW items, Onto(x, items), NEW y, ToCome(y, items)
  PROVE  ToCome(y, todo')
<1>1. PICK k \in 1 .. Len(items) : items[k] = y
  BY DEF ToCome
<1>2. /\ todo \in Seq(Item) /\ todo # <<>> /\ Len(items) \in Nat /\ Len(todo) \in Nat
      /\ Len(todo') = Len(items) + Len(todo) - 1 /\ todo'[k] = items[k]
  BY TodoNext DEF Onto, At
<1>3. Len(todo) # 0
  BY <1>2, EmptySeq
<1>4. k \in 1 .. Len(todo')
  BY <1>2, <1>3
<1> QED BY <1>1, <1>2, <1>4 DEF ToCome

LEMMA Compared ==
  ASSUME Gathered, ToCome(Do("condvalue"), todo)
  PROVE  result.type \in Conditional
<1>1. PICK k \in 1 .. Len(todo) : todo[k] = Do("condvalue")
  BY DEF ToCome
<1>2. Suits(Do("condvalue"), result.type)
  BY <1>1 DEF Gathered, Expected, Expects
<1> QED BY <1>2, SuitDeeds

LEMMA CondKept ==
  ASSUME IInv, Gathered, NEW x, NEW items, Onto(x, items), CondOK(items), ~hasErrors,
         \/ /\ x \notin {Name("condname"), Do("condname")}
            /\ result.type \in Conditional => result'.condname = result.condname
         \/ result'.condname \in Names
  PROVE  ToCome(Do("condvalue"), todo') => result'.condname \in Names \/ CondNameToCome(todo')
<1> SUFFICES ASSUME ToCome(Do("condvalue"), todo'), x \notin {Name("condname"), Do("condname")},
                    result.type \in Conditional => result'.condname = result.condname
             PROVE  result'.condname \in Names \/ CondNameToCome(todo')
  OBVIOUS
<1>1. PICK k \in 1 .. Len(todo') : todo'[k] = Do("condvalue")
  BY DEF ToCome
<1>2. CASE k \in 1 .. Len(items) /\ todo'[k] = items[k]
  <2>1. ToCome(Do("condvalue"), items)
    BY <1>1, <1>2 DEF ToCome
  <2>2. CondNameToCome(items)
    BY <2>1 DEF CondOK
  <2> QED BY <2>2, ToComePut DEF CondNameToCome
<1>3. ASSUME NEW j \in 2 .. Len(todo), todo'[k] = todo[j]
      PROVE  result'.condname \in Names \/ CondNameToCome(todo')
  <2>1. j \in 1 .. Len(todo)
    BY TodoNext
  <2>2. ToCome(Do("condvalue"), todo)
    BY <1>1, <1>3, <2>1 DEF ToCome
  <2>3. outcome = "parsing"
    BY Parsing DEF Onto
  <2>4. result.condname \in Names \/ CondNameToCome(todo)
    BY <2>2, <2>3 DEF Gathered, Named
  <2>5. CondNameToCome(todo) => CondNameToCome(todo')
    BY ToComeKept DEF CondNameToCome
  <2> QED BY <2>2, <2>4, <2>5, Compared
<1> QED BY <1>2, <1>3, WhichCall

(* A call that sets no name. *)
LEMMA NamedKept ==
  ASSUME IInv, Gathered, NEW x, NEW items, Onto(x, items), CondOK(items),
         x \notin {Name("tablename"), Name("name")}, ~hasErrors' => ~hasErrors,
         result.type # "none" => result'.tablename = result.tablename,
         result.type = "createindex" => result'.name = result.name,
         ~hasErrors' =>
           \/ /\ x \notin {Name("condname"), Do("condname")}
              /\ result.type \in Conditional => result'.condname = result.condname
           \/ result'.condname \in Names
  PROVE  Named'
<1>1. Named
  BY DEF Gathered
<1>2. ToCome(Name("tablename"), todo) => ToCome(Name("tablename"), todo')
  BY ToComeKept
<1>3. ToCome(Name("name"), todo) => ToCome(Name("name"), todo')
  BY ToComeKept
<1>4. outcome = "parsing" /\ outcome' # "query" /\ result'.type = result.type
  BY Parsing DEF Onto
<1>5. ~hasErrors' =>
        (ToCome(Do("condvalue"), todo') => result'.condname \in Names \/ CondNameToCome(todo'))
  BY CondKept
<1> QED BY <1>1, <1>2, <1>3, <1>4, <1>5 DEF Named, CondNameToCome, ToCome

LEMMA HeldNext ==
  ASSUME IInv, Gathered, NEW x, NEW items, Onto(x, items), NoSet(items)
  PROVE  ~Held'
<1>1. todo' # <<>> /\ Head(todo') = IF items = <<>> THEN todo[2] ELSE items[1]
  BY TodoNext
<1>2. CASE items = <<>>
  <2>1. Tail(todo) # <<>> /\ FollowedBy(x, Head(Tail(todo)))
    BY NextCall DEF Onto
  <2>2. Head(todo') = Head(Tail(todo))
    <3>1. <<>> \o Tail(todo) = Tail(todo)
      <4>1. Tail(todo) \in Seq(Item)
        BY TodoNext, HeadTailProperties DEF Onto, At
      <4> QED BY <4>1, ConcatEmptySeq
    <3> QED BY <1>2, <3>1, TodoNext
  <2>3. Head(todo') # Do("condname")
    BY <2>1, <2>2 DEF FollowedBy
  <2>4. Head(todo') # Do("setname")
    <3>1. Len(todo) \in Nat /\ Len(todo) - 1 >= 1
      BY <1>1, <1>2, TodoNext, LenProperties, <2>1, HeadTailProperties, EmptySeq DEF Onto, At
    <3>2. 2 \in 1 .. Len(todo) /\ 2 # 1
      BY <3>1
    <3>3. todo[2] # Do("setname")
      BY <3>2 DEF Gathered, ValueDue
    <3> QED BY <1>1, <1>2, <3>3
  <2> QED BY <2>3, <2>4 DEF Held, At
<1>3. CASE items # <<>>
  <2>1. 1 \in 1 .. Len(items)
    <3>1. Len(items) \in Nat /\ Len(items) # 0
      BY <1>3, LenProperties, EmptySeq DEF Onto
    <3> QED BY <3>1
  <2>2. items[1] \notin {Do("setname"), Do("condname")}
    BY <2>1 DEF NoSet
  <2> QED BY <1>1, <1>3, <2>2 DEF Held, At
<1> QED BY <1>2, <1>3

-----------------------------------------------------------------------------
(* What reading on brings, as long as the statement is still good. *)
Brings(a) ==
  ~hasErrors' /\ ~Lost' => ~hasErrors /\ ~Lost /\ Atoms(Consumed') = Atoms(Consumed) \o a

LEMMA StandBrings ==
  ASSUME LexOK, Ahead, UNCHANGED lexer, ~hasErrors' => ~hasErrors, result'.type = result.type
  PROVE  Ahead' /\ Brings(<<>>)
<1>1. text \in Seq(Pieces) /\ text # <<>>
  BY DEF LexOK, Ahead
<1>2. Consumed \in Seq(Pieces)
  BY <1>1, FrontLast DEF Consumed
<1>3. Atoms(Consumed) \in Seq(Pieces)
  <2>1. text[Len(text)] \in Pieces
    BY <1>1, FrontLast
  <2> QED BY <1>2, <2>1, AtomsNext
<1>4. Atoms(Consumed) = Atoms(Consumed) \o <<>>
  BY <1>3, NoNothing
<1>5. Consumed' = Consumed /\ (Lost' <=> Lost)
  BY DEF Consumed, Lost, ZeroLength, lexer
<1>6. Ahead'
  BY DEF Ahead, lexer
<1> QED BY <1>4, <1>5, <1>6 DEF Brings, Atoms

LEMMA NextsymBrings ==
  ASSUME LexOK, Ahead, symbol # "Unknown", nextsym, ~hasErrors' => ~hasErrors,
         result'.type = result.type, NEW a,
         text[Len(text)] \in Pieces /\ ~Overflows(text[Len(text)]) => AtomOf(text[Len(text)]) = a
  PROVE  Ahead' /\ Brings(a)
<1>1. Ahead' /\ Appended
  <2>1. text # <<>> /\ symbol = text[Len(text)].lex /\ negative = FALSE
    BY DEF LexOK, Ahead
  <2>2. End.lex = "Unknown"
    BY DEF End, Piece
  <2>3. ~AtEnd
    BY <2>1, <2>2 DEF AtEnd, Last
  <2> QED BY <2>1, <2>3, NextsymAhead
<1>2. ASSUME ~Lost'
      PROVE  ~Lost /\ Atoms(Consumed') = Atoms(Consumed) \o a
  BY <1>1, <1>2, Consuming DEF Ahead
<1> QED BY <1>1, <1>2 DEF Brings

LEMMA SilentBrings ==
  ASSUME LexOK, Ahead, symbol \notin Constants \cup {"Ident", "Unknown"}, nextsym,
         ~hasErrors' => ~hasErrors, result'.type = result.type
  PROVE  Ahead' /\ Brings(<<>>)
BY Brought, NextsymBrings

LEMMA AcceptBrings ==
  ASSUME LexOK, Ahead, NEW l, l \notin Constants \cup {"Ident", "Unknown"}, accept(l),
         result'.type = result.type
  PROVE  Ahead' /\ Brings(<<>>) /\ (~hasErrors' => ~hasErrors /\ symbol = l)
<1>1. CASE hasErrors \/ symbol # l
  <2>1. hasErrors' /\ UNCHANGED lexer
    BY <1>1 DEF accept
  <2> QED BY <2>1, StandBrings
<1>2. CASE ~hasErrors /\ symbol = l
  <2>1. nextsym /\ hasErrors' = hasErrors
    BY <1>2 DEF accept
  <2> QED BY <1>2, <2>1, SilentBrings
<1> QED BY <1>1, <1>2

LEMMA IdentBrings ==
  ASSUME LexOK, Ahead, accept("Ident"), result'.type = result.type
  PROVE  /\ Ahead' /\ Brings(<<IdentPiece(ident)>>)
         /\ ~hasErrors' => ~hasErrors /\ symbol = "Ident" /\ ident \in Names
<1>1. CASE hasErrors \/ symbol # "Ident"
  <2>1. hasErrors' /\ UNCHANGED lexer
    BY <1>1 DEF accept
  <2> QED BY <2>1, StandBrings DEF Brings
<1>2. CASE ~hasErrors /\ symbol = "Ident"
  <2>1. nextsym /\ hasErrors' = hasErrors
    BY <1>2 DEF accept
  <2>2. ident \in Names
    BY <1>2 DEF LexOK
  <2>3. text[Len(text)] \in Pieces /\ ~Overflows(text[Len(text)])
          => AtomOf(text[Len(text)]) = <<IdentPiece(ident)>>
    BY <1>2, Brought
  <2> QED BY <1>2, <2>1, <2>2, <2>3, NextsymBrings
<1> QED BY <1>1, <1>2

LEMMA ConstBrings ==
  ASSUME LexOK, Ahead, symbol \in Constants, accept(symbol), result'.type = result.type
  PROVE  /\ Ahead' /\ Brings(<<Piece(Constant.type, Constant.val)>>)
         /\ Constant \in Literal /\ (~hasErrors' => ~hasErrors)
<1>1. Constant \in Literal
  BY ConstantIsLiteral
<1>2. CASE hasErrors
  <2>1. hasErrors' /\ UNCHANGED lexer
    BY <1>2 DEF accept
  <2> QED BY <1>1, <2>1, StandBrings DEF Brings
<1>3. CASE ~hasErrors
  <2>1. nextsym /\ hasErrors' = hasErrors
    BY <1>3 DEF accept
  <2>2. text[Len(text)] \in Pieces /\ ~Overflows(text[Len(text)])
          => AtomOf(text[Len(text)]) = <<Piece(Constant.type, Constant.val)>>
    BY Brought
  <2>3. symbol # "Unknown"
    BY DEF Constants
  <2> QED BY <1>1, <1>3, <2>1, <2>2, <2>3, NextsymBrings
<1> QED BY <1>2, <1>3

-----------------------------------------------------------------------------
(* The parts of what a query has so far. *)
LEMMA PartTypes ==
  /\ <<>> \in Seq(Pieces)
  /\ \A n \in Idents : NamePart(n) \in Seq(Pieces)
  /\ \A s \in Seq(Idents) : NamePieces(s) \in Seq(Pieces)
  /\ \A s \in Seq(Literal) : ValuePieces(s) \in Seq(Pieces)
  /\ \A s \in Seq(SetOf) : SetPieces(s) \in Seq(Pieces)
  /\ \A s \in Seq(ColumnOf) : ColumnPieces(s) \in Seq(Pieces)
<1>1. <<>> \in Seq(Pieces)
  OBVIOUS
<1>2. \A n \in Idents : NamePart(n) \in Seq(Pieces)
  BY <1>1, PieceTypes DEF NamePart
<1>3. \A s \in Seq(Idents) : NamePieces(s) \in Seq(Pieces)
  BY NamesNext
<1>4. \A s \in Seq(Literal) : ValuePieces(s) \in Seq(Pieces)
  BY ValuesNext
<1>5. \A s \in Seq(SetOf) : SetPieces(s) \in Seq(Pieces)
  BY SetsNext
<1>6. \A s \in Seq(ColumnOf) : ColumnPieces(s) \in Seq(Pieces)
  BY ColumnsNext
<1> QED BY <1>1, <1>2, <1>3, <1>4, <1>5, <1>6

LEMMA CondTypes ==
  ASSUME NEW q, q.condname \in Idents, q.condvalue \in Literal \cup {Junk}
  PROVE  /\ CondPieces(q) \in Seq(Pieces)
         /\ q.condname = NoName => CondPieces(q) = <<>>
         /\ q.condname # NoName => CondPieces(q) = <<IdentPiece(q.condname)>> \o ConstPiece(q.condvalue)
<1>1. /\ <<IdentPiece(q.condname)>> \in Seq(Pieces) /\ ConstPiece(q.condvalue) \in Seq(Pieces)
      /\ <<>> \in Seq(Pieces)
  BY PieceTypes, PartTypes
<1>2. <<IdentPiece(q.condname)>> \o ConstPiece(q.condvalue) \in Seq(Pieces)
  BY <1>1, ConcatProperties
<1> QED BY <1>1, <1>2 DEF CondPieces

LEMMA CondOf ==
  ASSUME NEW q, Shaped(q), q.type \in Conditional
  PROVE  q.condname \in Idents /\ q.condvalue \in Literal \cup {Junk} /\ CondPieces(q) \in Seq(Pieces)
<1>1. q.condname \in Idents /\ q.condvalue \in Literal \cup {Junk}
  <2>1. q.type = "select" \/ q.type = "update" \/ q.type = "delete"
    BY DEF Conditional
  <2>2. q \in SelectQueries \/ q \in UpdateQueries \/ q \in DeleteQueries
    BY <2>1, ShapeOf
  <2> QED BY <2>2 DEF SelectQueries, UpdateQueries, DeleteQueries
<1> QED BY <1>1, CondTypes

LEMMA ThreeParts ==
  ASSUME NEW s \in Seq(Pieces), NEW t \in Seq(Pieces), NEW u \in Seq(Pieces)
  PROVE  s \o t \in Seq(Pieces) /\ s \o t \o u \in Seq(Pieces) /\ (s \o t) \o u = s \o (t \o u)
BY ConcatProperties, ConcatAssociative, SMTT(30)

LEMMA TakenType ==
  ASSUME NEW q, Shaped(q)
  PROVE  Taken(q) \in Seq(Pieces)
<1>1. q.type \in {"none", "insert", "select", "update", "delete", "createtable", "createindex"}
  BY FieldsOf
<1>2. CASE q.type = "none"
  BY <1>2, PartTypes DEF Taken
<1>3. CASE q.type = "insert"
  <2>1. q \in InsertQueries
    BY <1>3, ShapeOf
  <2>2. /\ NamePart(q.tablename) \in Seq(Pieces) /\ NamePieces(q.cols) \in Seq(Pieces)
        /\ ValuePieces(q.values) \in Seq(Pieces)
    BY <2>1, PartTypes DEF InsertQueries
  <2> QED BY <1>3, <2>2, ThreeParts DEF Taken
<1>4. CASE q.type = "select"
  <2>1. q \in SelectQueries
    BY <1>4, ShapeOf
  <2>2. /\ NamePart(q.tablename) \in Seq(Pieces) /\ NamePieces(q.cols) \in Seq(Pieces)
        /\ CondPieces(q) \in Seq(Pieces)
    BY <1>4, <2>1, PartTypes, CondOf DEF SelectQueries, Conditional
  <2> QED BY <1>4, <2>2, ThreeParts DEF Taken
<1>5. CASE q.type = "update"
  <2>1. q \in UpdateQueries
    BY <1>5, ShapeOf
  <2>2. /\ NamePart(q.tablename) \in Seq(Pieces) /\ SetPieces(q.values) \in Seq(Pieces)
        /\ CondPieces(q) \in Seq(Pieces)
    BY <1>5, <2>1, PartTypes, CondOf DEF UpdateQueries, Conditional
  <2> QED BY <1>5, <2>2, ThreeParts DEF Taken
<1>6. CASE q.type = "delete"
  <2>1. q \in DeleteQueries
    BY <1>6, ShapeOf
  <2>2. NamePart(q.tablename) \in Seq(Pieces) /\ CondPieces(q) \in Seq(Pieces)
    BY <1>6, <2>1, PartTypes, CondOf DEF DeleteQueries, Conditional
  <2> QED BY <1>6, <2>2, ThreeParts DEF Taken
<1>7. CASE q.type = "createtable"
  <2>1. q \in TableQueries
    BY <1>7, ShapeOf
  <2>2. NamePart(q.tablename) \in Seq(Pieces) /\ ColumnPieces(q.columns) \in Seq(Pieces)
    BY <2>1, PartTypes DEF TableQueries
  <2> QED BY <1>7, <2>2, ThreeParts DEF Taken
<1>8. CASE q.type = "createindex"
  <2>1. q \in IndexQueries
    BY <1>8, ShapeOf
  <2>2. /\ NamePart(q.name) \in Seq(Pieces) /\ NamePart(q.tablename) \in Seq(Pieces)
        /\ NamePieces(q.cols) \in Seq(Pieces)
    BY <2>1, PartTypes DEF IndexQueries
  <2> QED BY <1>8, <2>2, ThreeParts DEF Taken
<1> QED BY <1>1, <1>2, <1>3, <1>4, <1>5, <1>6, <1>7, <1>8

-----------------------------------------------------------------------------
(* A step of a statement. *)

LEMMA GatheredNext ==
  ASSUME IInv, Gathered, NEW x, NEW items, Onto(x, items),
         x \notin {Do("setname"), Do("condname")}, NoSet(items),
         NEW a, Ahead', Brings(a),
         ~hasErrors' /\ ~Lost' => Taken(result') = Taken(result) \o a,
         Named',
         Unvalued(result) /\ result.type = "update" /\ Before(x, Do("setvalue"), "update")
           => Unvalued(result')
  PROVE  Gathered'
<1>1. Expected(todo', result') /\ Sorted(todo', result'.type)
  BY OntoOrder
<1>2. ValueDue'
  BY DueKept DEF NoSet
<1>3. ~Held' /\ ~Held
  BY HeldNext DEF Held, Onto, At
<1>4. Carried'
  <2> SUFFICES ASSUME ~hasErrors', ~Lost' PROVE Atoms(Consumed') = Taken(result')
    BY <1>3 DEF Carried, Atoms
  <2>1. ~hasErrors /\ ~Lost /\ Atoms(Consumed') = Atoms(Consumed) \o a
    BY DEF Brings
  <2>2. Atoms(Consumed) = Taken(result)
    BY <1>3, <2>1 DEF Gathered, Carried
  <2> QED BY <2>1, <2>2
<1> QED BY <1>1, <1>2, <1>4 DEF Gathered, Onto, Expected, Sorted

(* Calls that may be next in a statement, and are not about an assignment. *)
Ordinarily(x) ==
  /\ At(x) /\ x \notin Enders \cup {Do("start")}
  /\ x \notin {Do("setname"), Do("condname"), Name("tablename"), Name("name"), Name("condname")}

LEMMA SameQuery ==
  ASSUME IInv, Gathered, NEW x, Ordinarily(x),
         NEW items \in Seq(Item), Go(items), Ranked(items, x, result), NoSet(items),
         result' = result, outcome' = outcome, ~hasErrors' => ~hasErrors, Ahead', Brings(<<>>)
  PROVE  Gathered'
<1>1. Shaped(result)
  BY DEF Gathered
<1>2. Onto(x, items)
  BY <1>1 DEF Onto, Behind, Ordinarily
<1>3. Taken(result) = Taken(result) \o <<>>
  BY <1>1, TakenType, NoNothing
<1>4. Named'
  BY <1>2, NamedKept DEF Ordinarily, NoSet
<1> QED BY <1>2, <1>3, <1>4, GatheredNext DEF Ordinarily

LEMMA FieldNext ==
  ASSUME IInv, Gathered, NEW x, At(x), x \notin Enders \cup {Do("start")},
         x \notin {Do("setname"), Do("condname")}, ~IsWord(x),
         NEW items \in Seq(Item), Go(items), NoSet(items),
         NEW f, f # "type", NEW v, result' = [result EXCEPT ![f] = v], outcome' = outcome,
         Placed(f, result.type, Top(x, result.type)), Shaped(result'), Ranked(items, x, result'),
         f = "values" /\ result.type = "update" => ~Before(x, Do("setvalue"), "update"),
         \/ Ordinarily(x) /\ f \notin {"name", "tablename", "condname"} /\ (~hasErrors' => ~hasErrors)
         \/ Named',
         NEW a, Ahead', Brings(a),
         ~hasErrors' /\ ~Lost' => Taken(result') = Taken(result) \o a
  PROVE  Gathered'
<1>1. Shaped(result)
  BY DEF Gathered
<1>2. Behind(x, result, result') /\ result'.type = result.type
  BY <1>1, BehindField
<1>3. Onto(x, items)
  BY <1>2 DEF Onto
<1>4. \A g \in DOMAIN result : g # f => result'[g] = result[g]
  OBVIOUS
<1>5. Named'
  <2> SUFFICES ASSUME Ordinarily(x), f \notin {"name", "tablename", "condname"}, ~hasErrors' => ~hasErrors
               PROVE  Named'
    OBVIOUS
  <2>1. result.type # "none" => result'.tablename = result.tablename
    BY <1>1, <1>4, FieldsOf
  <2>2. result.type = "createindex" => result'.name = result.name
    BY <1>1, <1>4, FieldsOf
  <2>3. result.type \in Conditional => result'.condname = result.condname
    BY <1>1, <1>4, FieldsOf
  <2> QED BY <1>3, <2>1, <2>2, <2>3, NamedKept DEF Ordinarily, NoSet
<1>6. Unvalued(result) /\ result.type = "update" /\ Before(x, Do("setvalue"), "update")
        => Unvalued(result')
  <2> SUFFICES ASSUME Unvalued(result), result.type = "update", f # "values" PROVE Unvalued(result')
    OBVIOUS
  <2>1. result'.values = result.values
    BY <1>1, <1>4, FieldsOf
  <2> QED BY <2>1 DEF Unvalued
<1> QED BY <1>3, <1>5, <1>6, GatheredNext

(* What every call of a statement may rely on. *)
LEMMA Gathering ==
  ASSUME IInv, Gathered, NEW x, At(x), x # Do("start")
  PROVE  /\ LexOK /\ Ahead /\ Shaped(result) /\ Expects(x, result)
         /\ x \in Item /\ outcome = "parsing"
         /\ ~IsWord(x) => Blank(result, Rank(x, result.type))
         /\ Suits(x, result.type)
<1>1. LexOK /\ Begun /\ x \in Item
  BY Started
<1>2. todo \in Seq(Item) /\ todo # <<>> /\ Head(todo) = x
  BY <1>1 DEF At, Begun, Plan
<1>3. Len(todo) \in Nat /\ Len(todo) # 0 /\ todo[1] = x
  BY <1>2, LenProperties, EmptySeq
<1>4. 1 \in 1 .. Len(todo)
  BY <1>3
<1>5. Expects(x, result)
  BY <1>3, <1>4 DEF Gathered, Expected
<1>6. outcome = "parsing"
  BY <1>1, <1>2 DEF Begun, EndOK
<1> QED BY <1>1, <1>5, <1>6 DEF Gathered, Expects

-----------------------------------------------------------------------------
(* Steps that leave the query as it is. *)

LEMMA OrdinarilyIs ==
  /\ \A y : At(Loop(y)) => Ordinarily(Loop(y))
  /\ \A y : At(<<"comma", y>>) => Ordinarily(<<"comma", y>>)
  /\ \A y : At(Word(y)) => Ordinarily(Word(y))
  /\ \A y \in Deeds \ {"statement", "create", "return", "setname", "condname"} :
       At(Do(y)) => Ordinarily(Do(y))
BY DEF Ordinarily, Enders, Deeds, Word, Name, Loop, Do

LEMMA BlankNear ==
  ASSUME NEW q
  PROVE  /\ \A j, k \in 3 .. 5 : Blank(q, j) => Blank(q, k)
         /\ Blank(q, 6) => Blank(q, 7)
BY DEF Blank

Harmless(x) == x \notin {Do("setname"), Do("setvalue"), Do("condname"), Do("condvalue")}

LEMMA NoneSet ==
  /\ NoSet(<<>>)
  /\ \A x : Harmless(x) => NoSet(<<x>>)
  /\ \A x, y : Harmless(x) /\ Harmless(y) => NoSet(<<x, y>>)
  /\ \A x, y, z : Harmless(x) /\ Harmless(y) /\ Harmless(z) => NoSet(<<x, y, z>>)
<1>1. NoSet(<<>>)
  BY DEF NoSet, CondOK, ToCome
<1>2. ASSUME NEW s, \A k \in 1 .. Len(s) : Harmless(s[k])
      PROVE  NoSet(s)
  BY <1>2 DEF NoSet, CondOK, ToCome, Harmless
<1>3. ASSUME NEW x, Harmless(x) PROVE NoSet(<<x>>)
  <2>1. \A k \in 1 .. Len(<<x>>) : <<x>>[k] = x
    OBVIOUS
  <2> QED BY <1>2, <1>3, <2>1
<1>4. ASSUME NEW x, NEW y, Harmless(x), Harmless(y) PROVE NoSet(<<x, y>>)
  <2>1. \A k \in 1 .. Len(<<x, y>>) : <<x, y>>[k] \in {x, y}
    OBVIOUS
  <2> QED BY <1>2, <1>4, <2>1
<1>5. ASSUME NEW x, NEW y, NEW z, Harmless(x), Harmless(y), Harmless(z) PROVE NoSet(<<x, y, z>>)
  <2>1. \A k \in 1 .. Len(<<x, y, z>>) : <<x, y, z>>[k] \in {x, y, z}
    OBVIOUS
  <2> QED BY <1>2, <1>5, <2>1
<1> QED BY <1>1, <1>3, <1>4, <1>5

LEMMA QuietStep ==
  ASSUME IInv, Gathered, NEW x, Ordinarily(x), Go(<<>>),
         result' = result, outcome' = outcome, ~hasErrors' => ~hasErrors, Ahead', Brings(<<>>)
  PROVE  Gathered'
<1>1. <<>> \in Seq(Item) /\ NoSet(<<>>) /\ Ranked(<<>>, x, result)
  BY RankedNone, NoneSet
<1> QED BY <1>1, SameQuery

LEMMA StandStep ==
  ASSUME IInv, Gathered, NEW x, Ordinarily(x), Go(<<>>),
         UNCHANGED <<lexer, result, outcome>>, ~hasErrors' => ~hasErrors
  PROVE  Gathered'
<1>1. LexOK /\ Ahead
  BY Gathering DEF Ordinarily
<1>2. Ahead' /\ Brings(<<>>)
  BY <1>1, StandBrings
<1> QED BY <1>2, QuietStep

LEMMA AcceptKeeps ==
  ASSUME IInv, Gathered, Accept
  PROVE  Gathered'
<1> DEFINE x == Head(todo)
           l == x[2]
<1>1. At(x) /\ x # Do("start")
  BY DEF Accept, At, Do
<1>2. x \in Item /\ x[1] = "accept" /\ LexOK /\ Ahead /\ Suits(x, result.type)
  BY <1>1, Gathering DEF Accept
<1>3. l \in Symbols \ {"Unknown"} /\ x = Word(l)
  BY <1>2 DEF Item, Word
<1>4. l \notin Constants \cup {"Ident", "Unknown"}
  BY <1>2, <1>3 DEF Suits, IsWord
<1>5. Ordinarily(x)
  BY <1>1, <1>3, OrdinarilyIs
<1>6. accept(l) /\ Go(<<>>) /\ result' = result /\ outcome' = outcome
  BY DEF Accept
<1>7. Ahead' /\ Brings(<<>>) /\ (~hasErrors' => ~hasErrors)
  BY <1>2, <1>4, <1>6, AcceptBrings
<1> QED BY <1>5, <1>6, <1>7, QuietStep

LEMMA LeaveLoopKeeps ==
  ASSUME IInv, Gathered, NEW y, LeaveLoop(y)
  PROVE  Gathered'
<1>1. Ordinarily(Loop(y))
  BY OrdinarilyIs DEF LeaveLoop
<1> QED BY <1>1, StandStep DEF LeaveLoop

LEMMA LoopComma ==
  ASSUME NEW y \in Loops, NEW t
  PROVE  /\ Suits(Loop(y), t) <=> Suits(<<"comma", y>>, t)
         /\ Rank(Loop(y), t) = Rank(<<"comma", y>>, t)
         /\ Top(Loop(y), t) = Rank(Loop(y), t)
         /\ Top(<<"comma", y>>, t) = Rank(<<"comma", y>>, t)
<1>1. Suits(Loop(y), t) <=> Suits(<<"comma", y>>, t)
  BY SuitLoops DEF Loops, Both
<1>2. Rank(Loop(y), t) = Rank(<<"comma", y>>, t)
  BY Ranks DEF Loops, Both
<1>3. Loop(y) \notin {Do("where"), Do("updatewhere"), Do("condition")}
        /\ <<"comma", y>> \notin {Do("where"), Do("updatewhere"), Do("condition")}
  BY DEF Loop, Do
<1> QED BY <1>1, <1>2, <1>3, Tops

LEMMA CommaKeeps ==
  ASSUME IInv, Gathered, NEW y \in Loops, Comma(y)
  PROVE  Gathered'
<1> DEFINE x == <<"comma", y>>
<1>1. Ordinarily(x) /\ result' = result /\ outcome' = outcome
  BY OrdinarilyIs DEF Comma
<1>2. LexOK /\ Ahead /\ Suits(x, result.type) /\ Expects(x, result)
  BY <1>1, Gathering DEF Ordinarily
<1>3. CASE symbol = ","
  <2>1. Go(<<Loop(y)>>) /\ (accept(",") \/ (nextsym /\ hasErrors' = hasErrors))
    BY <1>3 DEF Comma
  <2>2. symbol \notin Constants \cup {"Ident", "Unknown"}
    BY <1>3 DEF Constants
  <2>3. Ahead' /\ Brings(<<>>) /\ (~hasErrors' => ~hasErrors)
    <3>1. CASE accept(",")
      BY <1>1, <1>2, <1>3, <2>2, <3>1, AcceptBrings
    <3>2. CASE nextsym /\ hasErrors' = hasErrors
      BY <1>1, <1>2, <2>2, <3>2, SilentBrings
    <3> QED BY <2>1, <3>1, <3>2
  <2>4. ~IsWord(x) /\ ~IsWord(Loop(y))
    BY Kinds
  <2>5. Blank(result, Rank(Loop(y), result.type))
    BY <1>2, <2>4, LoopComma DEF Expects
  <2>6. Expects(Loop(y), result)
    BY <1>2, <2>4, <2>5, LoopComma, Distinct, ExpectsIs
  <2>7. Replaces(Loop(y), x, result.type)
    BY <2>4, LoopComma, RankBounds DEF Replaces
  <2>8. Ranked(<<Loop(y)>>, x, result)
    BY <2>6, <2>7, RankedOne
  <2>9. NoSet(<<Loop(y)>>) /\ <<Loop(y)>> \in Seq(Item)
    <3>1. Harmless(Loop(y))
      BY DEF Harmless, Loop, Do
    <3>2. Loop(y) \in Item
      BY Items
    <3> QED BY <3>1, <3>2, NoneSet
  <2> QED BY <1>1, <2>1, <2>3, <2>8, <2>9, SameQuery
<1>4. CASE symbol # ","
  <2>1. Go(<<>>) /\ UNCHANGED <<lexer, hasErrors>>
    BY <1>4 DEF Comma
  <2> QED BY <1>1, <2>1, StandStep
<1> QED BY <1>3, <1>4

LEMMA UpdateTableKeeps ==
  ASSUME IInv, Gathered, UpdateTable
  PROVE  Gathered'
<1> DEFINE x == Do("table")
<1>1. Ordinarily(x) /\ result' = result /\ outcome' = outcome /\ Go(<<>>)
  BY OrdinarilyIs DEF UpdateTable, Deeds
<1>2. LexOK /\ Ahead
  BY <1>1, Gathering DEF Ordinarily
<1>3. CASE symbol = "table"
  <2>1. accept("table") /\ "table" \notin Constants \cup {"Ident", "Unknown"}
    BY <1>3 DEF UpdateTable, Constants
  <2> QED BY <1>1, <1>2, <2>1, AcceptBrings, QuietStep
<1>4. CASE symbol # "table"
  BY <1>1, <1>4, StandStep DEF UpdateTable
<1> QED BY <1>3, <1>4

LEMMA OrderKeeps ==
  ASSUME IInv, Gathered, Order
  PROVE  Gathered'
<1> DEFINE x == Do("order")
<1>1. Ordinarily(x) /\ result' = result /\ outcome' = outcome /\ Go(<<>>)
  BY OrdinarilyIs DEF Order, Deeds
<1>2. LexOK /\ Ahead
  BY <1>1, Gathering DEF Ordinarily
<1>3. CASE symbol \in {"asc", "desc"}
  <2>1. accept(symbol) /\ symbol \notin Constants \cup {"Ident", "Unknown"}
    BY <1>3 DEF Order, Constants
  <2> QED BY <1>1, <1>2, <2>1, AcceptBrings, QuietStep
<1>4. CASE symbol \notin {"asc", "desc"}
  BY <1>1, <1>4, StandStep DEF Order
<1> QED BY <1>3, <1>4

(* The calls of a condition that is to come. *)
LEMMA WhereKeeps ==
  ASSUME IInv, Gathered, Where
  PROVE  Gathered'
<1> DEFINE x == Do("where")
           items == <<Name("condname"), Word("="), Do("condvalue")>>
           t == result.type
<1>1. Ordinarily(x) /\ result' = result /\ outcome' = outcome
  BY OrdinarilyIs DEF Where, Deeds
<1>2. LexOK /\ Ahead /\ Suits(x, t) /\ (~IsWord(x) => Blank(result, Rank(x, t)))
  BY <1>1, Gathering DEF Ordinarily
<1>3. CASE symbol = "where"
  <2>1. accept("where") /\ Go(items) /\ "where" \notin Constants \cup {"Ident", "Unknown"}
    BY <1>3 DEF Where, Constants
  <2>2. Ahead' /\ Brings(<<>>) /\ (~hasErrors' => ~hasErrors)
    BY <1>1, <1>2, <2>1, AcceptBrings
  <2>3. Rank(x, t) = 6 /\ Rank(Name("condname"), t) = 6 /\ Rank(Do("condvalue"), t) = 7
    BY Ranks
  <2>4. Blank(result, 6) /\ Blank(result, 7)
    BY <1>2, <2>3, Kinds, BlankNear
  <2>5. t = "select"
    BY <1>2, SuitDeeds
  <2>6. t \in Conditional
    BY <2>5 DEF Conditional
  <2>7. Suits(Name("condname"), t) /\ Suits(Do("condvalue"), t)
    BY <2>6, SuitNames, SuitDeeds
  <2>8. Expects(Name("condname"), result)
    BY <2>3, <2>4, <2>7, Kinds, Distinct, ExpectsIs
  <2>9. Expects(Do("condvalue"), result)
    BY <2>3, <2>4, <2>7, Kinds, Distinct, ExpectsIs
  <2>10. Expects(Word("="), result)
    BY SuitWords DEF Constants
  <2>11. /\ ~IsWord(x) /\ IsWord(Word("=")) /\ ~IsWord(Name("condname")) /\ ~IsWord(Do("condvalue"))
    BY Kinds
  <2>12. Top(x, t) = 7 /\ Top(Name("condname"), t) = 6 /\ Top(Do("condvalue"), t) = 7
    BY <2>3, Tops DEF Name, Do
  <2>13. /\ Replaces(Name("condname"), x, t) /\ Replaces(Word("="), x, t)
         /\ Replaces(Do("condvalue"), x, t)
         /\ Before(Name("condname"), Word("="), t)
         /\ Before(Name("condname"), Do("condvalue"), t)
         /\ Before(Word("="), Do("condvalue"), t)
    BY <2>3, <2>11, <2>12 DEF Replaces, Before
  <2>14. Ranked(items, x, result)
    BY <2>8, <2>9, <2>10, <2>13, RankedThree
  <2>15. NoSet(items)
    <3>1. /\ Len(items) = 3 /\ items[1] = Name("condname") /\ items[2] = Word("=")
          /\ items[3] = Do("condvalue")
      OBVIOUS
    <3>2. /\ Name("condname") \notin {Do("setname"), Do("setvalue"), Do("condname")}
          /\ Word("=") \notin {Do("setname"), Do("setvalue"), Do("condname")}
          /\ Do("condvalue") \notin {Do("setname"), Do("setvalue"), Do("condname")}
      BY DEF Name, Word, Do
    <3> HIDE DEF items
    <3>3. ASSUME NEW k \in 1 .. Len(items)
          PROVE  items[k] \notin {Do("setname"), Do("setvalue"), Do("condname")}
      <4>1. k = 1 \/ k = 2 \/ k = 3
        BY <3>1
      <4> QED BY <3>1, <3>2, <4>1
    <3>4. 1 \in 1 .. Len(items)
      BY <3>1
    <3>5. CondOK(items)
      BY <3>1, <3>4 DEF CondOK, CondNameToCome, ToCome
    <3> QED BY <3>3, <3>5 DEF NoSet
  <2>16. items \in Seq(Item)
    BY ConditionCalls DEF Free
  <2> QED BY <1>1, <2>1, <2>2, <2>14, <2>15, <2>16, SameQuery
<1>4. CASE symbol # "where"
  BY <1>1, <1>4, StandStep DEF Where
<1> QED BY <1>3, <1>4

LEMMA UpdateWhereKeeps ==
  ASSUME IInv, Gathered, UpdateWhere
  PROVE  Gathered'
<1> DEFINE x == Do("updatewhere")
           y == Do("condition")
           t == result.type
<1>1. Ordinarily(x) /\ result' = result /\ outcome' = outcome
  BY OrdinarilyIs DEF UpdateWhere, Deeds
<1>2. LexOK /\ Ahead /\ Suits(x, t) /\ (~IsWord(x) => Blank(result, Rank(x, t)))
  BY <1>1, Gathering DEF Ordinarily
<1>3. CASE symbol = "where"
  <2>1. accept("where") /\ Go(<<y>>) /\ "where" \notin Constants \cup {"Ident", "Unknown"}
    BY <1>3 DEF UpdateWhere, Constants
  <2>2. Ahead' /\ Brings(<<>>) /\ (~hasErrors' => ~hasErrors)
    BY <1>1, <1>2, <2>1, AcceptBrings
  <2>3. Rank(x, t) = 6 /\ Rank(y, t) = 6 /\ Top(x, t) = 7 /\ Top(y, t) = 7 /\ ~IsWord(x) /\ ~IsWord(y)
    BY Ranks, Tops, Kinds
  <2>4. Suits(y, t)
    BY <1>2, SuitDeeds
  <2>5. Expects(y, result)
    BY <1>2, <2>3, <2>4, Distinct, ExpectsIs
  <2>6. Replaces(y, x, t)
    BY <2>3 DEF Replaces
  <2>7. Ranked(<<y>>, x, result)
    BY <2>5, <2>6, RankedOne
  <2>8. NoSet(<<y>>) /\ <<y>> \in Seq(Item)
    <3>1. Harmless(y)
      BY DEF Harmless, Do
    <3>2. y \in Item
      BY ConditionCalls
    <3> QED BY <3>1, <3>2, NoneSet
  <2> QED BY <1>1, <2>1, <2>2, <2>7, <2>8, SameQuery
<1>4. CASE symbol # "where"
  BY <1>1, <1>4, StandStep DEF UpdateWhere
<1> QED BY <1>3, <1>4

(* The name of the condition of an UPDATE is still to be put into the query. *)
LEMMA ConditionKeeps ==
  ASSUME IInv, Gathered, Condition
  PROVE  Gathered'
<1> DEFINE x == Do("condition")
           n == Do("condname")
           v == Do("condvalue")
           items == <<n, v>>
           t == result.type
<1>1. Ordinarily(x) /\ At(x) /\ result' = result /\ outcome' = outcome
  BY OrdinarilyIs DEF Condition, Deeds
<1>2. /\ LexOK /\ Ahead /\ Shaped(result) /\ Suits(x, t)
      /\ ~IsWord(x) => Blank(result, Rank(x, t))
  BY <1>1, Gathering DEF Ordinarily
<1>3. CASE symbol = "Ident"
  <2>1. accept("Ident") /\ Go(items)
    BY <1>3 DEF Condition
  <2>2. Rank(x, t) = 6 /\ Rank(n, t) = 6 /\ Rank(v, t) = 7 /\ Top(x, t) = 7 /\ ~IsWord(x) /\ ~IsWord(n) /\ ~IsWord(v)
    BY Ranks, Tops, Kinds
  <2>3. Top(n, t) = 6 /\ Top(v, t) = 7
    BY <2>2, Tops DEF Do
  <2>4. Blank(result, 6) /\ Blank(result, 7)
    BY <1>2, <2>2, BlankNear
  <2>5. t = "update"
    BY <1>2, SuitDeeds
  <2>6. Suits(n, t) /\ Suits(v, t)
    <3>1. t \in Conditional
      BY <2>5 DEF Conditional
    <3> QED BY <2>5, <3>1, SuitDeeds
  <2>7. Expects(n, result)
    BY <2>2, <2>4, <2>6, Distinct, ExpectsIs
  <2>8. Expects(v, result)
    BY <2>2, <2>4, <2>6, Distinct, ExpectsIs
  <2>9. Replaces(n, x, t) /\ Replaces(v, x, t) /\ Before(n, v, t)
    BY <2>2, <2>3 DEF Replaces, Before
  <2>10. Ranked(items, x, result)
    BY <2>7, <2>8, <2>9, RankedTwo
  <2>11. items \in Seq(Item) /\ Len(items) = 2 /\ items[1] = n /\ items[2] = v /\ items # <<>>
    BY ConditionCalls DEF Free
  <2> HIDE DEF items
  <2>12. Onto(x, items)
    BY <1>1, <1>2, <2>1, <2>10, <2>11 DEF Onto, Behind, Ordinarily
  <2>13. Expected(todo', result') /\ Sorted(todo', result'.type)
    BY <2>12, OntoOrder
  <2>14. ValueDue'
    <3>1. x # Do("setname") /\ n \notin {Do("setname"), Do("setvalue")} /\ v \notin {Do("setname"), Do("setvalue")}
      BY DEF Do
    <3>2. ASSUME NEW k \in 1 .. Len(items) PROVE items[k] \notin {Do("setname"), Do("setvalue")}
      <4>1. k = 1 \/ k = 2
        BY <2>11
      <4> QED BY <2>11, <3>1, <4>1
    <3>3. Unvalued(result')  <=> Unvalued(result)
      BY <1>1
    <3> QED BY <2>12, <3>1, <3>2, <3>3, DueKept
  <2>15. /\ Ahead' /\ Brings(<<IdentPiece(ident)>>)
         /\ ~hasErrors' => ~hasErrors /\ symbol = "Ident" /\ ident \in Names
    BY <1>1, <1>2, <2>1, IdentBrings
  <2>16. Named'
    <3>1. x \notin {Name("tablename"), Name("name"), Name("condname"), Do("condname")}
      BY DEF Name, Do
    <3>2. 1 \in 1 .. Len(items)
      BY <2>11
    <3>3. CondOK(items)
      BY <2>11, <3>2 DEF CondOK, CondNameToCome, ToCome
    <3> QED BY <1>1, <2>12, <2>15, <3>1, <3>3, NamedKept
  <2>17. Carried'
    <3>1. Held'
      BY <2>11, <2>12, TodoNext DEF Held, At
    <3>2. ~hasErrors' => (symbol' = "=" => ident' = ident)
      BY <1>2, <2>1, AcceptLexes DEF Passing, Reading
    <3>3. ~Held
      BY <1>1 DEF Ordinarily, Held, At
    <3> SUFFICES ASSUME ~hasErrors', ~Lost', symbol' = "="
                 PROVE  Atoms(Consumed') = Taken(result') \o <<IdentPiece(ident')>>
      BY <3>1 DEF Carried, Atoms
    <3>4. ~hasErrors /\ ~Lost /\ Atoms(Consumed') = Atoms(Consumed) \o <<IdentPiece(ident)>>
      BY <2>15 DEF Brings
    <3>5. Atoms(Consumed) = Taken(result)
      BY <3>3, <3>4 DEF Gathered, Carried
    <3> QED BY <1>1, <3>2, <3>4, <3>5
  <2> QED BY <1>1, <1>2, <2>13, <2>14, <2>15, <2>16, <2>17 DEF Gathered, Expected, Sorted
<1>4. CASE symbol # "Ident"
  BY <1>1, <1>4, StandStep DEF Condition
<1> QED BY <1>3, <1>4

(* The end of a parse. *)
LEMMA NothingToCome == 1 .. Len(<<>>) = {}
OBVIOUS

LEMMA HaltKeeps ==
  ASSUME IInv, Gathered, NEW x, At(x), x \notin {Do("start"), Do("setname"), Do("condname")},
         NEW how \in {"query", "null", "abort", "out of range"}, Stop(how), result' = result,
         how = "query" => x = Do("return")
  PROVE  Gathered'
<1>1. LexOK /\ Ahead /\ Shaped(result) /\ Suits(x, result.type) /\ outcome = "parsing"
  BY Gathering
<1>2. todo' = <<>> /\ outcome' = how /\ UNCHANGED <<lexer, hasErrors>>
  BY DEF Stop
<1>3. 1 .. Len(todo') = {}
  BY <1>2, NothingToCome
<1>4. Expected(todo', result') /\ Sorted(todo', result'.type) /\ ValueDue' /\ ~Held'
  <2>1. Expected(todo', result')
    BY <1>3 DEF Expected
  <2>2. Sorted(todo', result'.type)
    BY <1>3 DEF Sorted
  <2>3. ValueDue'
    BY <1>3 DEF ValueDue
  <2> QED BY <1>2, <2>1, <2>2, <2>3 DEF Held, At
<1>5. ~Held
  BY DEF Held, At
<1>6. Named'
  <2> SUFFICES ASSUME ~hasErrors', how = "query" PROVE Named'
    BY <1>2 DEF Named
  <2>1. result.type # "none"
    BY <1>1, SuitDeeds
  <2>2. \A y : y # Do("return") => ~ToCome(y, todo)
    <3>1. Tail(todo) = <<>> /\ todo # <<>> /\ Head(todo) = Do("return") /\ todo \in Seq(Item)
      BY Started, LastCall DEF At, Begun, Plan, Enders
    <3>2. Len(todo) = 1 /\ todo[1] = Do("return")
      <4>1. Len(todo) \in Nat /\ Len(Tail(todo)) = Len(todo) - 1
        BY <3>1, HeadTailProperties, LenProperties
      <4>2. Len(Tail(todo)) = 0
        BY <3>1, EmptySeq
      <4> QED BY <3>1, <4>1, <4>2
    <3> QED BY <3>2 DEF ToCome
  <2>3. Name("tablename") # Do("return") /\ Name("name") # Do("return")
    BY DEF Name, Do
  <2>4. ~ToCome(Do("condvalue"), todo')
    BY <1>3 DEF ToCome
  <2>5. /\ result.tablename \in Names
        /\ result.type = "createindex" => result.name \in Names
    BY <1>1, <1>2, <2>1, <2>2, <2>3 DEF Gathered, Named
  <2> QED BY <2>1, <2>4, <2>5 DEF Named
<1>7. Carried'
  <2>1. Lost' <=> Lost
    BY <1>2 DEF Lost, ZeroLength, Consumed, lexer
  <2> QED BY <1>2, <1>4, <1>5, <2>1 DEF Gathered, Carried, Consumed, lexer
<1>8. Ahead'
  BY <1>1, <1>2 DEF Ahead, lexer
<1> QED BY <1>1, <1>4, <1>6, <1>7, <1>8 DEF Gathered, Expected, Sorted

LEMMA ReturnKeeps ==
  ASSUME IInv, Gathered, Return
  PROVE  Gathered'
BY HaltKeeps DEF Return, Do

LEMMA NoStatementKeeps ==
  ASSUME IInv, Gathered, NoStatement
  PROVE  Gathered'
<1>1. PICK x \in {Do("statement"), Do("create")} : At(x)
  BY DEF NoStatement
<1>2. x \notin {Do("start"), Do("setname"), Do("condname")}
  BY DEF Do
<1> QED BY <1>1, <1>2, HaltKeeps DEF NoStatement

LEMMA AssertFailsKeeps ==
  ASSUME IInv, Gathered, AssertFails
  PROVE  Gathered'
<1>1. PICK x \in {Do("condvalue"), Do("setvalue"), Loop("values"), Do("length")} : At(x)
  BY DEF AssertFails
<1>2. x \notin {Do("start"), Do("setname"), Do("condname")}
  BY DEF Loop, Do
<1> QED BY <1>1, <1>2, HaltKeeps DEF AssertFails

LEMMA PairsKeeps ==
  ASSUME IInv, Gathered, Pairs
  PROVE  Gathered'
<1> DEFINE x == Do("pairs")
<1>1. CASE Len(result.cols) > Len(result.values)
  <2>1. Stop("out of range") /\ At(x) /\ result' = result
    BY <1>1 DEF Pairs
  <2>2. x \notin {Do("start"), Do("setname"), Do("condname")}
    BY DEF Do
  <2> QED BY <2>1, <2>2, HaltKeeps
<1>2. CASE ~(Len(result.cols) > Len(result.values))
  <2>1. Ordinarily(x)
    BY OrdinarilyIs DEF Pairs, Deeds
  <2>2. Go(<<>>) /\ UNCHANGED <<lexer, result, outcome>> /\ (~hasErrors' => ~hasErrors)
    BY <1>2 DEF Pairs
  <2> QED BY <2>1, <2>2, StandStep
<1> QED BY <1>1, <1>2

(* A query as it begins. *)
LEMMA NothingTaken ==
  \A q \in {NoQuery, NewInsert, NewSelect, NewUpdate, NewDelete, NewTable, NewIndex} : Taken(q) = <<>>
<1>1. /\ NamePart(NoName) = <<>> /\ NamePieces(<<>>) = <<>> /\ ValuePieces(<<>>) = <<>>
      /\ SetPieces(<<>>) = <<>> /\ ColumnPieces(<<>>) = <<>> /\ <<>> \o <<>> = <<>>
  BY NoPieces DEF NamePart
<1>2. \A q \in {NewSelect, NewUpdate, NewDelete} : CondPieces(q) = <<>>
  BY DEF CondPieces, NewSelect, NewUpdate, NewDelete
<1>3. Taken(NoQuery) = <<>>
  BY DEF Taken, NoQuery
<1>4. Taken(NewInsert) = <<>>
  <2>1. /\ NewInsert.type = "insert" /\ NewInsert.tablename = NoName
        /\ NewInsert.cols = <<>> /\ NewInsert.values = <<>>
    BY DEF NewInsert
  <2> QED BY <1>1, <2>1 DEF Taken
<1>5. Taken(NewSelect) = <<>>
  <2>1. NewSelect.type = "select" /\ NewSelect.tablename = NoName /\ NewSelect.cols = <<>>
    BY DEF NewSelect
  <2> QED BY <1>1, <1>2, <2>1 DEF Taken
<1>6. Taken(NewUpdate) = <<>>
  <2>1. NewUpdate.type = "update" /\ NewUpdate.tablename = NoName /\ NewUpdate.values = <<>>
    BY DEF NewUpdate
  <2> QED BY <1>1, <1>2, <2>1 DEF Taken
<1>7. Taken(NewDelete) = <<>>
  <2>1. NewDelete.type = "delete" /\ NewDelete.tablename = NoName
    BY DEF NewDelete
  <2> QED BY <1>1, <1>2, <2>1 DEF Taken
<1>8. Taken(NewTable) = <<>>
  <2>1. NewTable.type = "createtable" /\ NewTable.tablename = NoName /\ NewTable.columns = <<>>
    BY DEF NewTable
  <2> QED BY <1>1, <2>1 DEF Taken
<1>9. Taken(NewIndex) = <<>>
  <2>1. /\ NewIndex.type = "createindex" /\ NewIndex.name = NoName /\ NewIndex.tablename = NoName
        /\ NewIndex.cols = <<>>
    BY DEF NewIndex
  <2> QED BY <1>1, <2>1 DEF Taken
<1> QED BY <1>3, <1>4, <1>5, <1>6, <1>7, <1>8, <1>9

LEMMA NewShapes ==
  \A q \in {NoQuery, NewInsert, NewSelect, NewUpdate, NewDelete, NewTable, NewIndex} : Shaped(q)
<1>1. NewInsert \in InsertQueries
  BY DEF NewInsert, InsertQueries, Idents
<1>2. NewSelect \in SelectQueries
  BY DEF NewSelect, SelectQueries, Idents
<1>3. NewUpdate \in UpdateQueries
  BY DEF NewUpdate, UpdateQueries, Idents
<1>4. NewDelete \in DeleteQueries
  BY DEF NewDelete, DeleteQueries, Idents
<1>5. NewTable \in TableQueries
  BY DEF NewTable, TableQueries, Idents
<1>6. NewIndex \in IndexQueries
  BY DEF NewIndex, IndexQueries, Idents
<1> QED BY <1>1, <1>2, <1>3, <1>4, <1>5, <1>6 DEF Shaped

LEMMA NewQueryKeeps ==
  ASSUME IInv, Gathered, NEW x \in {Do("statement"), Do("create")}, At(x),
         NEW q \in {NoQuery, NewInsert, NewSelect, NewUpdate, NewDelete, NewTable, NewIndex},
         NEW items, Plan(items), items # <<>>, result' = q, Go(items),
         UNCHANGED <<lexer, hasErrors, errormsg, outcome>>,
         Expected(items, q), Sorted(items, q.type), NoSet(items),
         q.type # "none" => ToCome(Name("tablename"), items),
         q.type = "createindex" => ToCome(Name("name"), items)
  PROVE  Gathered'
<1>1. x # Do("start") /\ x \in Enders /\ x \notin {Do("setname"), Do("condname")}
  BY DEF Do, Enders
<1>2. LexOK /\ Begun /\ Shaped(result) /\ Ahead /\ Suits(x, result.type)
  BY <1>1, Started, Gathering
<1>3. todo' = items
  <2>1. Tail(todo) = <<>>
    BY <1>1, <1>2, LastCall DEF Begun, At
  <2>2. items \in Seq(Item)
    BY DEF Plan
  <2> QED BY <2>1, <2>2, ConcatEmptySeq DEF Go
<1>4. Shaped(q) /\ Taken(q) = <<>>
  BY NewShapes, NothingTaken
<1>5. Taken(result) = <<>> /\ result.type = "none"
  <2>1. result.type = "none"
    BY <1>2, SuitDeeds
  <2>2. result = NoQuery
    BY <1>2, <2>1, ShapeOf
  <2> QED BY <2>1, <2>2, NothingTaken
<1>6. ~Held /\ ~Held'
  <2>1. 1 \in 1 .. Len(items) /\ Head(items) = items[1]
    <3>1. items \in Seq(Item)
      BY DEF Plan
    <3>2. Len(items) \in Nat /\ Len(items) # 0
      BY <3>1, LenProperties, EmptySeq
    <3> QED BY <3>1, <3>2
  <2>2. Head(items) \notin {Do("setname"), Do("condname")}
    BY <2>1 DEF NoSet
  <2> QED BY <1>1, <1>3, <2>2 DEF Held, At
<1>7. ValueDue'
  BY <1>3 DEF ValueDue, NoSet
<1>8. Named'
  <2>1. outcome' = "parsing"
    BY <1>1, Parsing
  <2>2. ToCome(Do("condvalue"), todo') => CondNameToCome(todo')
    BY <1>3 DEF NoSet, CondOK
  <2> QED BY <1>3, <2>1, <2>2 DEF Named, ToCome, CondNameToCome
<1>9. Ahead'
  BY <1>2 DEF Ahead, lexer
<1>10. Carried'
  <2> SUFFICES ASSUME ~hasErrors', ~Lost' PROVE Atoms(Consumed') = Taken(result')
    BY <1>6 DEF Carried, Atoms
  <2>1. Consumed' = Consumed
    BY DEF Consumed, lexer
  <2>2. ~hasErrors /\ ~Lost
    BY <1>5, <2>1 DEF Lost, ZeroLength
  <2>3. Atoms(Consumed) = Taken(result)
    BY <1>6, <2>2 DEF Gathered, Carried
  <2> QED BY <1>4, <1>5, <2>1, <2>3
<1> QED BY <1>3, <1>4, <1>7, <1>8, <1>9, <1>10 DEF Gathered, Expected, Sorted

LEMMA PlanNames ==
  /\ \A s \in {p_insert, p_select, p_update, p_delete, p_create, CreateTable, CreateIndex} : NoSet(s)
  /\ \A s \in {p_insert, p_select, p_update, p_delete, CreateTable, CreateIndex} :
       ToCome(Name("tablename"), s)
  /\ ToCome(Name("name"), CreateIndex)
<1>1. /\ Len(p_insert) = 12 /\ Len(p_select) = 6 /\ Len(p_update) = 7 /\ Len(p_delete) = 8
      /\ Len(p_create) = 2 /\ Len(CreateTable) = 6 /\ Len(CreateIndex) = 11
  BY DEF p_insert, p_select, p_update, p_delete, p_create, CreateTable, CreateIndex
<1>2. /\ p_insert[3] = Name("tablename") /\ p_select[4] = Name("tablename")
      /\ p_update[3] = Name("tablename") /\ p_delete[3] = Name("tablename")
      /\ CreateTable[2] = Name("tablename") /\ CreateIndex[5] = Name("tablename")
      /\ CreateIndex[3] = Name("name")
  BY DEF p_insert, p_select, p_update, p_delete, CreateTable, CreateIndex
<1>3. \A s \in {p_insert, p_select, p_update, p_delete, CreateTable, CreateIndex} :
        ToCome(Name("tablename"), s)
  BY <1>1, <1>2 DEF ToCome
<1>4. ToCome(Name("name"), CreateIndex)
  BY <1>1, <1>2 DEF ToCome
<1>5. NoSet(p_insert) /\ NoSet(p_select) /\ NoSet(p_update)
  BY DEF NoSet, CondOK, ToCome, p_insert, p_select, p_update, Word, Name, Loop, Do
<1>6. NoSet(p_create) /\ NoSet(CreateTable) /\ NoSet(CreateIndex)
  BY DEF NoSet, CondOK, ToCome, p_create, CreateTable, CreateIndex, Word, Name, Loop, Do
<1>7. NoSet(p_delete)
  <2>1. p_delete[5] = Name("condname") /\ 5 \in 1 .. Len(p_delete)
    BY DEF p_delete
  <2>2. CondOK(p_delete)
    BY <2>1 DEF CondOK, CondNameToCome, ToCome
  <2> QED BY <2>2 DEF NoSet, p_delete, Word, Name, Loop, Do
<1> QED BY <1>3, <1>4, <1>5, <1>6, <1>7

LEMMA NewTypes ==
  /\ NoQuery.type = "none" /\ NewInsert.type = "insert" /\ NewSelect.type = "select"
  /\ NewUpdate.type = "update" /\ NewDelete.type = "delete" /\ NewTable.type = "createtable"
  /\ NewIndex.type = "createindex"
BY DEF NoQuery, NewInsert, NewSelect, NewUpdate, NewDelete, NewTable, NewIndex

LEMMA StatementKeeps ==
  ASSUME IInv, Gathered, Statement
  PROVE  Gathered'
<1>1. CASE Begin("create", NoQuery, p_create)
  <2>1. Plan(p_create) /\ p_create # <<>> /\ NoSet(p_create)
    BY CreatePlan, FirstCalls, PlanNames
  <2> QED BY <1>1, <2>1, NewTypes, CreateRanked, NewQueryKeeps DEF Begin
<1>2. CASE Begin("select", NewSelect, p_select)
  <2>1. Plan(p_select) /\ p_select # <<>> /\ NoSet(p_select) /\ ToCome(Name("tablename"), p_select)
    BY SelectPlan, FirstCalls, PlanNames
  <2> QED BY <1>2, <2>1, NewTypes, SelectRanked, NewQueryKeeps DEF Begin
<1>3. CASE Begin("insert", NewInsert, p_insert)
  <2>1. Plan(p_insert) /\ p_insert # <<>> /\ NoSet(p_insert) /\ ToCome(Name("tablename"), p_insert)
    BY InsertPlan, FirstCalls, PlanNames
  <2> QED BY <1>3, <2>1, NewTypes, InsertRanked, NewQueryKeeps DEF Begin
<1>4. CASE Begin("update", NewUpdate, p_update)
  <2>1. Plan(p_update) /\ p_update # <<>> /\ NoSet(p_update) /\ ToCome(Name("tablename"), p_update)
    BY UpdatePlan, FirstCalls, PlanNames
  <2> QED BY <1>4, <2>1, NewTypes, UpdateRanked, NewQueryKeeps DEF Begin
<1>5. CASE Begin("delete", NewDelete, p_delete)
  <2>1. Plan(p_delete) /\ p_delete # <<>> /\ NoSet(p_delete) /\ ToCome(Name("tablename"), p_delete)
    BY DeletePlan, FirstCalls, PlanNames
  <2> QED BY <1>5, <2>1, NewTypes, DeleteRanked, NewQueryKeeps DEF Begin
<1> QED BY <1>1, <1>2, <1>3, <1>4, <1>5 DEF Statement

LEMMA CreateTableKeeps ==
  ASSUME IInv, Gathered, Create(NewTable, CreateTable, {"table"})
  PROVE  Gathered'
<1>1. Plan(CreateTable) /\ CreateTable # <<>> /\ NoSet(CreateTable) /\ ToCome(Name("tablename"), CreateTable)
  BY TablePlan, FirstCalls, PlanNames
<1> QED BY <1>1, NewTypes, TableRanked, NewQueryKeeps DEF Create

LEMMA CreateIndexKeeps ==
  ASSUME IInv, Gathered, Create(NewIndex, CreateIndex, {"index", "unique"})
  PROVE  Gathered'
<1>1. /\ Plan(CreateIndex) /\ CreateIndex # <<>> /\ NoSet(CreateIndex)
      /\ ToCome(Name("tablename"), CreateIndex) /\ ToCome(Name("name"), CreateIndex)
  BY IndexPlan, FirstCalls, PlanNames
<1> QED BY <1>1, NewTypes, IndexRanked, NewQueryKeeps DEF Create

(* The first symbol of all. *)
LEMMA StartKeeps ==
  ASSUME IInv, Untouched, Start
  PROVE  Gathered'
<1>1. LexOK /\ Unstarted
  <2>1. Do("start") \notin Item
    BY DEF Item, Do, Deeds
  <2>2. Begun => Head(todo) \in Item
    <3> SUFFICES ASSUME Begun PROVE Head(todo) \in Item
      OBVIOUS
    <3>1. todo \in Seq(Item) /\ todo # <<>>
      BY DEF Begun, Plan, Start, At
    <3> QED BY <3>1, HeadTailProperties
  <2> QED BY <2>1, <2>2 DEF IInv, Start, At
<1>2. Ahead' /\ Appended
  <2>1. negative = FALSE /\ ~AtEnd
    BY <1>1 DEF Unstarted, AtEnd
  <2> QED BY <1>1, <2>1, NextsymAhead DEF Start
<1>3. todo' = <<Do("statement")>> /\ result' = NoQuery
  BY <1>1 DEF Start, Go, Unstarted
<1>4. Shaped(result') /\ Taken(result') = <<>> /\ result'.type = "none"
  BY <1>3, NewShapes, NothingTaken, NewTypes
<1>5. Len(todo') = 1 /\ todo'[1] = Do("statement") /\ Head(todo') = Do("statement")
  BY <1>3
<1>6. Expects(Do("statement"), result')
  <2>1. Suits(Do("statement"), "none")
    BY SuitDeeds
  <2>2. Blank(result', Rank(Do("statement"), "none"))
    BY <1>3, Fresh, RankBounds
  <2> QED BY <1>4, <2>1, <2>2, Kinds, Distinct, ExpectsIs
<1>7. Expected(todo', result') /\ Sorted(todo', result'.type)
  BY <1>5, <1>6 DEF Expected, Sorted
<1>8. ValueDue' /\ ~Held'
  BY <1>5 DEF ValueDue, Held, At, Do
<1>9. Named'
  <2>1. ~ToCome(Do("condvalue"), todo')
    BY <1>5 DEF ToCome, Do
  <2> QED BY <1>4, <1>1, <2>1 DEF Named, Start, Unstarted
<1>10. Atoms(Consumed') = <<>>
  <2>1. PICK p \in Pieces : text' = Append(text, p)
    BY <1>2 DEF Appended
  <2>2. text \in Seq(Pieces) /\ Len(text) = 0
    BY <1>1, EmptySeq DEF LexOK, Unstarted
  <2>3. text' \in Seq(Pieces) /\ Len(text') = 1 /\ text' # <<>>
    BY <2>1, <2>2, AppendProperties
  <2>4. Front(text') \in Seq(Pieces) /\ Len(Front(text')) = 0
    BY <2>3, FrontLast
  <2>5. Front(text') = <<>>
    BY <2>4, EmptySeq
  <2> QED BY <2>5, NoPieces DEF Consumed
<1>11. Carried'
  BY <1>4, <1>8, <1>10 DEF Carried, Atoms
<1> QED BY <1>2, <1>4, <1>7, <1>8, <1>9, <1>11 DEF Gathered, Expected, Sorted

-----------------------------------------------------------------------------
(* A query takes a name or a constant. *)

LEMMA EmptyParts ==
  /\ NamePart(NoName) = <<>> /\ NamePieces(<<>>) = <<>> /\ ValuePieces(<<>>) = <<>>
  /\ SetPieces(<<>>) = <<>> /\ ColumnPieces(<<>>) = <<>>
  /\ \A n \in Idents \ {NoName} : NamePart(n) = <<IdentPiece(n)>> /\ NamePart(n) \in Seq(Pieces)
BY NoPieces, PieceTypes DEF NamePart

LEMMA SameCond ==
  ASSUME NEW q, NEW r, r.condname = q.condname, r.condvalue = q.condvalue
  PROVE  CondPieces(r) = CondPieces(q)
BY DEF CondPieces

LEMMA TakeTable ==
  ASSUME NEW q, Shaped(q), q.type # "none", Blank(q, 2), NEW n \in Idents
  PROVE  LET r == [q EXCEPT !["tablename"] = n]
         IN  Shaped(r) /\ (n # NoName => Taken(r) = Taken(q) \o <<IdentPiece(n)>>)
<1> DEFINE r == [q EXCEPT !["tablename"] = n]
           i == <<IdentPiece(n)>>
<1>1. \A g \in DOMAIN q : g # "tablename" => r[g] = q[g]
  OBVIOUS
<1>2. r.type = q.type /\ r.tablename = n /\ q.tablename = NoName
  BY <1>1, FieldsOf DEF Blank
<1>3. i \in Seq(Pieces) /\ NamePart(NoName) = <<>> /\ (n # NoName => NamePart(n) = i)
  BY PieceTypes, EmptyParts
<1>4. i \o <<>> = i /\ <<>> \o i = i /\ <<>> \o <<>> = <<>>
  BY <1>3, NoNothing, PartTypes
<1>5. CASE q.type = "insert"
  <2>1. q \in InsertQueries
    BY <1>5, ShapeOf
  <2>2. r \in InsertQueries
    BY <2>1 DEF InsertQueries
  <2>3. r.cols = <<>> /\ q.cols = <<>> /\ r.values = <<>> /\ q.values = <<>>
    BY <1>1, <1>5, FieldsOf DEF Blank
  <2> HIDE DEF r, i
  <2>4. Taken(q) = <<>> /\ (n # NoName => Taken(r) = i)
    BY <1>2, <1>3, <1>4, <1>5, <2>3, EmptyParts DEF Taken
  <2> QED BY <1>4, <2>2, <2>4 DEF Shaped, r, i
<1>6. CASE q.type = "select"
  <2>1. q \in SelectQueries
    BY <1>6, ShapeOf
  <2>2. r \in SelectQueries
    BY <2>1 DEF SelectQueries
  <2>3. /\ r.cols = q.cols /\ CondPieces(r) = <<>> /\ CondPieces(q) = <<>>
        /\ NamePieces(q.cols) \in Seq(Pieces)
    <3>1. /\ r.condname = NoName /\ q.condname = NoName /\ r.cols = q.cols
      BY <1>1, <1>6, FieldsOf DEF Blank, Conditional
    <3>2. q.cols \in Seq(Idents)
      BY <2>1 DEF SelectQueries
    <3> QED BY <3>1, <3>2, PartTypes DEF CondPieces
  <2> HIDE DEF r, i
  <2>4. NamePieces(q.cols) \o <<>> = NamePieces(q.cols) /\ NamePieces(q.cols) \o i \in Seq(Pieces)
    BY <1>3, <2>3, NoNothing, ConcatProperties
  <2>5. NamePieces(q.cols) \o i \o <<>> = NamePieces(q.cols) \o i
    BY <2>4, NoNothing
  <2>6. Taken(q) = NamePieces(q.cols)
    BY <1>2, <1>3, <1>6, <2>3, <2>4 DEF Taken
  <2>7. n # NoName => Taken(r) = NamePieces(q.cols) \o i
    BY <1>2, <1>3, <1>6, <2>3, <2>5 DEF Taken
  <2> QED BY <2>2, <2>6, <2>7 DEF Shaped, r, i
<1>7. CASE q.type = "update"
  <2>1. q \in UpdateQueries
    BY <1>7, ShapeOf
  <2>2. r \in UpdateQueries
    BY <2>1 DEF UpdateQueries
  <2>3. r.values = <<>> /\ q.values = <<>> /\ CondPieces(r) = <<>> /\ CondPieces(q) = <<>>
    <3>1. r.condname = NoName /\ q.condname = NoName /\ r.values = <<>> /\ q.values = <<>>
      BY <1>1, <1>7, FieldsOf DEF Blank, Conditional
    <3> QED BY <3>1 DEF CondPieces
  <2> HIDE DEF r, i
  <2>4. Taken(q) = <<>> /\ (n # NoName => Taken(r) = i)
    BY <1>2, <1>3, <1>4, <1>7, <2>3, EmptyParts DEF Taken
  <2> QED BY <1>4, <2>2, <2>4 DEF Shaped, r, i
<1>8. CASE q.type = "delete"
  <2>1. q \in DeleteQueries
    BY <1>8, ShapeOf
  <2>2. r \in DeleteQueries
    BY <2>1 DEF DeleteQueries
  <2>3. CondPieces(r) = <<>> /\ CondPieces(q) = <<>>
    <3>1. r.condname = NoName /\ q.condname = NoName
      BY <1>1, <1>8, FieldsOf DEF Blank, Conditional
    <3> QED BY <3>1 DEF CondPieces
  <2> HIDE DEF r, i
  <2>4. Taken(q) = <<>> /\ (n # NoName => Taken(r) = i)
    BY <1>2, <1>3, <1>4, <1>8, <2>3, EmptyParts DEF Taken
  <2> QED BY <1>4, <2>2, <2>4 DEF Shaped, r, i
<1>9. CASE q.type = "createtable"
  <2>1. q \in TableQueries
    BY <1>9, ShapeOf
  <2>2. r \in TableQueries
    BY <2>1 DEF TableQueries
  <2>3. r.columns = <<>> /\ q.columns = <<>>
    BY <1>1, <1>9, FieldsOf DEF Blank
  <2> HIDE DEF r, i
  <2>4. Taken(q) = <<>> /\ (n # NoName => Taken(r) = i)
    BY <1>2, <1>3, <1>4, <1>9, <2>3, EmptyParts DEF Taken
  <2> QED BY <1>4, <2>2, <2>4 DEF Shaped, r, i
<1>10. CASE q.type = "createindex"
  <2>1. q \in IndexQueries
    BY <1>10, ShapeOf
  <2>2. r \in IndexQueries
    BY <2>1 DEF IndexQueries
  <2>3. r.cols = <<>> /\ q.cols = <<>> /\ r.name = q.name /\ NamePart(q.name) \in Seq(Pieces)
    <3>1. r.cols = <<>> /\ q.cols = <<>> /\ r.name = q.name
      BY <1>1, <1>10, FieldsOf DEF Blank
    <3>2. q.name \in Idents
      BY <2>1 DEF IndexQueries
    <3> QED BY <3>1, <3>2, PartTypes
  <2> HIDE DEF r, i
  <2>4. NamePart(q.name) \o <<>> = NamePart(q.name) /\ NamePart(q.name) \o i \in Seq(Pieces)
    BY <1>3, <2>3, NoNothing, ConcatProperties
  <2>5. NamePart(q.name) \o i \o <<>> = NamePart(q.name) \o i
    BY <2>4, NoNothing
  <2>6. Taken(q) = NamePart(q.name)
    BY <1>2, <1>3, <1>10, <2>3, <2>4, EmptyParts DEF Taken
  <2>7. n # NoName => Taken(r) = NamePart(q.name) \o i
    BY <1>2, <1>3, <1>10, <2>3, <2>5, EmptyParts DEF Taken
  <2> QED BY <2>2, <2>6, <2>7 DEF Shaped, r, i
<1> QED BY <1>5, <1>6, <1>7, <1>8, <1>9, <1>10, FieldsOf

LEMMA TakeIndexName ==
  ASSUME NEW q, Shaped(q), q.type = "createindex", Blank(q, 1), NEW n \in Idents
  PROVE  LET r == [q EXCEPT !["name"] = n]
         IN  Shaped(r) /\ (n # NoName => Taken(r) = Taken(q) \o <<IdentPiece(n)>>)
<1> DEFINE r == [q EXCEPT !["name"] = n]
           i == <<IdentPiece(n)>>
<1>1. \A g \in DOMAIN q : g # "name" => r[g] = q[g]
  OBVIOUS
<1>2. /\ r.type = q.type /\ r.name = n /\ q.name = NoName /\ r.tablename = NoName
      /\ q.tablename = NoName /\ r.cols = <<>> /\ q.cols = <<>>
  BY <1>1, FieldsOf DEF Blank
<1>3. i \in Seq(Pieces) /\ (n # NoName => NamePart(n) = i)
  BY PieceTypes, EmptyParts
<1>4. i \o <<>> = i /\ <<>> \o i = i /\ <<>> \o <<>> = <<>>
  BY <1>3, NoNothing, PartTypes
<1>5. r \in IndexQueries
  BY ShapeOf DEF IndexQueries
<1> HIDE DEF r, i
<1>6. Taken(q) = <<>>
  BY <1>2, <1>4, EmptyParts DEF Taken
<1>7. n # NoName => Taken(r) = i
  BY <1>2, <1>3, <1>4, EmptyParts DEF Taken
<1> QED BY <1>4, <1>5, <1>6, <1>7 DEF Shaped, r, i

(* What a conditional query has before its condition. *)
Unconditioned(q) ==
  CASE q.type = "select" -> NamePieces(q.cols) \o NamePart(q.tablename)
    [] q.type = "update" -> NamePart(q.tablename) \o SetPieces(q.values)
    [] q.type = "delete" -> NamePart(q.tablename)

LEMMA TakenCond ==
  ASSUME NEW q, Shaped(q), q.type \in Conditional
  PROVE  Taken(q) = Unconditioned(q) \o CondPieces(q) /\ Unconditioned(q) \in Seq(Pieces)
<1>1. CASE q.type = "select"
  <2> q \in SelectQueries
    BY <1>1, ShapeOf
  <2>1. q.cols \in Seq(Idents) /\ q.tablename \in Idents
    BY DEF SelectQueries
  <2>2. NamePieces(q.cols) \in Seq(Pieces) /\ NamePart(q.tablename) \in Seq(Pieces)
    BY <2>1, PartTypes
  <2> QED BY <1>1, <2>2, ThreeParts DEF Taken, Unconditioned
<1>2. CASE q.type = "update"
  <2>1. q.values \in Seq(SetOf) /\ q.tablename \in Idents
    BY <1>2, ShapeOf DEF UpdateQueries
  <2>2. SetPieces(q.values) \in Seq(Pieces) /\ NamePart(q.tablename) \in Seq(Pieces)
    BY <2>1, PartTypes
  <2> QED BY <1>2, <2>2, ThreeParts DEF Taken, Unconditioned
<1>3. CASE q.type = "delete"
  <2>1. q.tablename \in Idents
    BY <1>3, ShapeOf DEF DeleteQueries
  <2>2. NamePart(q.tablename) \in Seq(Pieces)
    BY <2>1, PartTypes
  <2> QED BY <1>3, <2>2 DEF Taken, Unconditioned
<1> QED BY <1>1, <1>2, <1>3 DEF Conditional

LEMMA CondShape ==
  ASSUME NEW q, Shaped(q), q.type \in Conditional, NEW f \in {"condname", "condvalue"}, NEW v,
         f = "condname" => v \in Idents, f = "condvalue" => v \in Literal \cup {Junk}
  PROVE  LET r == [q EXCEPT ![f] = v]
         IN  Shaped(r) /\ r.type = q.type /\ Unconditioned(r) = Unconditioned(q)
<1> DEFINE r == [q EXCEPT ![f] = v]
<1>1. CASE q.type = "select"
  <2>1. q \in SelectQueries
    BY <1>1, ShapeOf
  <2>2. r \in SelectQueries
    BY <2>1 DEF SelectQueries
  <2>3. r.type = q.type /\ r.cols = q.cols /\ r.tablename = q.tablename
    BY <2>1 DEF SelectQueries
  <2> QED BY <1>1, <2>2, <2>3 DEF Shaped, Unconditioned
<1>2. CASE q.type = "update"
  <2>1. q \in UpdateQueries
    BY <1>2, ShapeOf
  <2>2. r \in UpdateQueries
    BY <2>1 DEF UpdateQueries
  <2>3. r.type = q.type /\ r.values = q.values /\ r.tablename = q.tablename
    BY <2>1 DEF UpdateQueries
  <2> QED BY <1>2, <2>2, <2>3 DEF Shaped, Unconditioned
<1>3. CASE q.type = "delete"
  <2>1. q \in DeleteQueries
    BY <1>3, ShapeOf
  <2>2. r \in DeleteQueries
    BY <2>1 DEF DeleteQueries
  <2>3. r.type = q.type /\ r.tablename = q.tablename
    BY <2>1 DEF DeleteQueries
  <2> QED BY <1>3, <2>2, <2>3 DEF Shaped, Unconditioned
<1> QED BY <1>1, <1>2, <1>3 DEF Conditional

LEMMA TakeCondName ==
  ASSUME NEW q, Shaped(q), q.type \in Conditional, Blank(q, 6), NEW n \in Idents
  PROVE  LET r == [q EXCEPT !["condname"] = n]
         IN  Shaped(r) /\ (n # NoName => Taken(r) = Taken(q) \o <<IdentPiece(n)>>)
<1> DEFINE r == [q EXCEPT !["condname"] = n]
           i == <<IdentPiece(n)>>
<1>1. Shaped(r) /\ r.type = q.type /\ Unconditioned(r) = Unconditioned(q)
  BY CondShape
<1>2. r.condname = n /\ r.condvalue = Junk /\ q.condname = NoName
  BY FieldsOf DEF Blank
<1> HIDE DEF r
<1>3. i \in Seq(Pieces) /\ <<>> \in Seq(Pieces)
  BY PieceTypes, PartTypes
<1> HIDE DEF i
<1>4. CondPieces(q) = <<>>
  BY <1>2 DEF CondPieces
<1>5. n # NoName => CondPieces(r) = i
  <2>1. i \o <<>> = i
    BY <1>3, NoNothing
  <2> QED BY <1>2, <2>1, PieceTypes DEF CondPieces, i
<1>6. Taken(q) = Unconditioned(q) \o CondPieces(q) /\ Unconditioned(q) \in Seq(Pieces)
  BY TakenCond
<1>7. Taken(r) = Unconditioned(r) \o CondPieces(r)
  BY <1>1, TakenCond
<1>8. Taken(q) = Unconditioned(q)
  BY <1>4, <1>6, NoNothing
<1> QED BY <1>1, <1>5, <1>7, <1>8 DEF r, i

LEMMA TakeCondValue ==
  ASSUME NEW q, Shaped(q), q.type \in Conditional, Blank(q, 7), NEW v \in Literal
  PROVE  LET r == [q EXCEPT !["condvalue"] = v]
         IN  Shaped(r) /\ (q.condname # NoName => Taken(r) = Taken(q) \o <<Piece(v.type, v.val)>>)
<1> DEFINE r == [q EXCEPT !["condvalue"] = v]
           i == <<IdentPiece(q.condname)>>
           c == ConstPiece(v)
<1>1. Shaped(r) /\ r.type = q.type /\ Unconditioned(r) = Unconditioned(q)
  BY CondShape
<1>2. r.condname = q.condname /\ r.condvalue = v /\ q.condvalue = Junk
  BY FieldsOf DEF Blank
<1>3. q.condname \in Idents
  BY CondOf
<1> HIDE DEF r
<1>4. /\ i \in Seq(Pieces) /\ <<>> \in Seq(Pieces) /\ c \in Seq(Pieces)
      /\ c = <<Piece(v.type, v.val)>> /\ ConstPiece(Junk) = <<>>
  BY <1>3, PieceTypes, PartTypes
<1>5. q.condname # NoName => CondPieces(q) = i /\ CondPieces(r) = i \o c
  <2>1. i \o <<>> = i
    BY <1>4, NoNothing
  <2> QED BY <1>2, <1>4, <2>1 DEF CondPieces
<1> HIDE DEF i, c
<1>6. Taken(q) = Unconditioned(q) \o CondPieces(q) /\ Unconditioned(q) \in Seq(Pieces)
  BY TakenCond
<1>7. Taken(r) = Unconditioned(r) \o CondPieces(r)
  BY <1>1, TakenCond
<1>8. (Unconditioned(q) \o i) \o c = Unconditioned(q) \o (i \o c)
  BY <1>4, <1>6, ConcatAssociative, SMTT(30)
<1>9. q.condname # NoName => Taken(r) = Taken(q) \o c
  BY <1>1, <1>5, <1>6, <1>7, <1>8
<1> QED BY <1>1, <1>4, <1>9 DEF r

LEMMA TakeCol ==
  ASSUME NEW q, Shaped(q), NEW n \in Idents,
         \/ q.type = "insert" /\ Blank(q, 5)
         \/ q.type = "select" /\ Blank(q, 1)
         \/ q.type = "createindex"
  PROVE  LET r == [q EXCEPT !["cols"] = Append(q.cols, n)]
         IN  Shaped(r) /\ Taken(r) = Taken(q) \o <<IdentPiece(n)>>
<1> DEFINE r == [q EXCEPT !["cols"] = Append(q.cols, n)]
           i == <<IdentPiece(n)>>
           s == NamePieces(q.cols)
<1>1. \A g \in DOMAIN q : g # "cols" => r[g] = q[g]
  OBVIOUS
<1>2. r.type = q.type /\ r.cols = Append(q.cols, n)
  BY <1>1, FieldsOf
<1>3. i \in Seq(Pieces) /\ NamePart(NoName) = <<>> /\ ValuePieces(<<>>) = <<>>
  BY PieceTypes, EmptyParts
<1>4. q.cols \in Seq(Idents) => /\ Append(q.cols, n) \in Seq(Idents) /\ s \in Seq(Pieces)
                                /\ NamePieces(Append(q.cols, n)) = s \o i
  BY NamesNext, AppendProperties
<1>5. CASE q.type = "insert"
  <2>1. q \in InsertQueries
    BY <1>5, ShapeOf
  <2>2. q.cols \in Seq(Idents) /\ q.tablename \in Idents
    BY <2>1 DEF InsertQueries
  <2>3. r \in InsertQueries
    BY <1>4, <2>1, <2>2 DEF InsertQueries
  <2>4. r.tablename = q.tablename /\ r.values = <<>> /\ q.values = <<>>
    BY <1>1, <1>5, FieldsOf DEF Blank
  <2> DEFINE t == NamePart(q.tablename)
  <2>5. t \in Seq(Pieces)
    BY <2>2, PartTypes
  <2> HIDE DEF r, i, s
  <2>6. Taken(q) = t \o s \o <<>> /\ Taken(r) = t \o (s \o i) \o <<>>
    BY <1>2, <1>3, <1>4, <1>5, <2>2, <2>4 DEF Taken, s
  <2> HIDE DEF t
  <2>7. t \o s \in Seq(Pieces) /\ s \o i \in Seq(Pieces) /\ t \o (s \o i) \in Seq(Pieces)
    BY <1>3, <1>4, <2>2, <2>5, ConcatProperties
  <2>8. Taken(q) = t \o s /\ Taken(r) = t \o (s \o i)
    BY <2>6, <2>7, NoNothing
  <2>9. (t \o s) \o i = t \o (s \o i)
    BY <1>3, <1>4, <2>2, <2>5, ConcatAssociative, SMTT(30)
  <2> QED BY <2>3, <2>8, <2>9 DEF Shaped, r, i
<1>6. CASE q.type = "select"
  <2>1. q \in SelectQueries
    BY <1>6, ShapeOf
  <2>2. q.cols \in Seq(Idents)
    BY <2>1 DEF SelectQueries
  <2>3. r \in SelectQueries
    BY <1>4, <2>1, <2>2 DEF SelectQueries
  <2>4. /\ r.tablename = NoName /\ q.tablename = NoName /\ CondPieces(r) = <<>> /\ CondPieces(q) = <<>>
    <3>1. /\ r.tablename = NoName /\ q.tablename = NoName
          /\ r.condname = NoName /\ q.condname = NoName
      BY <1>1, <1>6, FieldsOf DEF Blank, Conditional
    <3> QED BY <3>1 DEF CondPieces
  <2> HIDE DEF r, i, s
  <2>5. Taken(q) = s \o <<>> \o <<>> /\ Taken(r) = (s \o i) \o <<>> \o <<>>
    BY <1>2, <1>3, <1>4, <1>6, <2>2, <2>4 DEF Taken, s
  <2>6. s \in Seq(Pieces) /\ s \o i \in Seq(Pieces)
    BY <1>3, <1>4, <2>2, ConcatProperties
  <2>7. Taken(q) = s /\ Taken(r) = s \o i
    BY <2>5, <2>6, NoNothing
  <2> QED BY <2>3, <2>7 DEF Shaped, r, i
<1>7. CASE q.type = "createindex"
  <2>1. q \in IndexQueries
    BY <1>7, ShapeOf
  <2>2. q.cols \in Seq(Idents) /\ q.tablename \in Idents /\ q.name \in Idents
    BY <2>1 DEF IndexQueries
  <2>3. r \in IndexQueries
    BY <1>4, <2>1, <2>2 DEF IndexQueries
  <2>4. r.tablename = q.tablename /\ r.name = q.name
    BY <1>1, <1>7, FieldsOf
  <2> DEFINE t == NamePart(q.name) \o NamePart(q.tablename)
  <2>5. t \in Seq(Pieces)
    <3>1. NamePart(q.name) \in Seq(Pieces) /\ NamePart(q.tablename) \in Seq(Pieces)
      BY <2>2, PartTypes
    <3> QED BY <3>1, ConcatProperties
  <2> HIDE DEF r, i, s
  <2>6. Taken(q) = t \o s /\ Taken(r) = t \o (s \o i)
    BY <1>2, <1>3, <1>4, <1>7, <2>2, <2>4 DEF Taken, s
  <2> HIDE DEF t
  <2>7. (t \o s) \o i = t \o (s \o i)
    BY <1>3, <1>4, <2>2, <2>5, ConcatAssociative, SMTT(30)
  <2> QED BY <2>3, <2>6, <2>7 DEF Shaped, r, i
<1> QED BY <1>5, <1>6, <1>7

LEMMA TakeValue ==
  ASSUME NEW q, Shaped(q), q.type = "insert", NEW v \in Literal
  PROVE  LET r == [q EXCEPT !["values"] = Append(q.values, v)]
         IN  Shaped(r) /\ Taken(r) = Taken(q) \o <<Piece(v.type, v.val)>>
<1> DEFINE r == [q EXCEPT !["values"] = Append(q.values, v)]
           i == <<Piece(v.type, v.val)>>
           s == ValuePieces(q.values)
           t == NamePart(q.tablename) \o NamePieces(q.cols)
<1>1. q \in InsertQueries
  BY ShapeOf
<1>2. q.values \in Seq(Literal) /\ q.tablename \in Idents /\ q.cols \in Seq(Idents)
  BY <1>1 DEF InsertQueries
<1>3. /\ Append(q.values, v) \in Seq(Literal) /\ s \in Seq(Pieces)
      /\ ValuePieces(Append(q.values, v)) = s \o i
  BY <1>2, ValuesNext, AppendProperties
<1>4. r \in InsertQueries
  BY <1>1, <1>3 DEF InsertQueries
<1>5. /\ r.type = "insert" /\ r.tablename = q.tablename /\ r.cols = q.cols
      /\ r.values = Append(q.values, v)
  BY <1>1 DEF InsertQueries
<1>6. i \in Seq(Pieces)
  BY PieceTypes
<1>7. t \in Seq(Pieces)
  <2>1. NamePart(q.tablename) \in Seq(Pieces) /\ NamePieces(q.cols) \in Seq(Pieces)
    BY <1>2, PartTypes
  <2> QED BY <2>1, ConcatProperties
<1> HIDE DEF r, i
<1>8. Taken(q) = t \o s /\ Taken(r) = t \o (s \o i)
  BY <1>3, <1>5 DEF Taken
<1> HIDE DEF t, s
<1>9. s \in Seq(Pieces)
  BY <1>3
<1>10. (t \o s) \o i = t \o (s \o i)
  BY <1>6, <1>7, <1>9, ConcatAssociative, SMTT(30)
<1> QED BY <1>4, <1>8, <1>10 DEF Shaped, r, i

(* The columns of a table, one more or the last one completed. *)
LEMMA TakeColumns ==
  ASSUME NEW q, Shaped(q), q.type = "createtable", NEW s \in Seq(ColumnOf), NEW a \in Seq(Pieces),
         ColumnPieces(s) = ColumnPieces(q.columns) \o a
  PROVE  LET r == [q EXCEPT !["columns"] = s]
         IN  Shaped(r) /\ Taken(r) = Taken(q) \o a
<1> DEFINE r == [q EXCEPT !["columns"] = s]
           t == NamePart(q.tablename)
           c == ColumnPieces(q.columns)
<1>1. q \in TableQueries
  BY ShapeOf
<1>2. q.columns \in Seq(ColumnOf) /\ q.tablename \in Idents
  BY <1>1 DEF TableQueries
<1>3. r \in TableQueries
  BY <1>1 DEF TableQueries
<1>4. r.type = "createtable" /\ r.tablename = q.tablename /\ r.columns = s
  BY <1>1 DEF TableQueries
<1>5. t \in Seq(Pieces) /\ c \in Seq(Pieces)
  BY <1>2, PartTypes
<1> HIDE DEF r
<1>6. Taken(q) = t \o c /\ Taken(r) = t \o (c \o a)
  BY <1>4 DEF Taken
<1> HIDE DEF t, c
<1>7. (t \o c) \o a = t \o (c \o a)
  BY <1>5, ConcatAssociative, SMTT(30)
<1> QED BY <1>3, <1>6, <1>7 DEF Shaped, r

LEMMA ColumnsGrow ==
  ASSUME NEW s \in Seq(ColumnOf), NEW n \in Idents
  PROVE  LET c == [name |-> n, type |-> Junk, len |-> Junk]
             t == Append(s, c)
         IN  /\ t \in Seq(ColumnOf) /\ t # <<>> /\ t[Len(t)] = c
             /\ ColumnPieces(t) = ColumnPieces(s) \o <<IdentPiece(n)>>
<1> DEFINE c == [name |-> n, type |-> Junk, len |-> Junk]
           t == Append(s, c)
<1>1. c \in ColumnOf
  BY JunkAssumption DEF ColumnOf, KnownTypes
<1>2. t \in Seq(ColumnOf) /\ t # <<>> /\ t[Len(t)] = c
  <2>1. /\ t \in Seq(ColumnOf) /\ t # <<>> /\ Len(t) = Len(s) + 1 /\ t[Len(s) + 1] = c
    BY <1>1, AppendProperties
  <2> QED BY <2>1
<1>3. ColumnPiece(c) = <<IdentPiece(n)>>
  <2>1. Junk # "varchar"
    BY JunkAssumption
  <2>2. <<IdentPiece(n)>> \o <<>> = <<IdentPiece(n)>>
    BY PieceTypes, NoNothing
  <2> QED BY <2>1, <2>2 DEF ColumnPiece
<1> QED BY <1>1, <1>2, <1>3, ColumnsNext

LEMMA ColumnCompleted ==
  ASSUME NEW s \in Seq(ColumnOf), s # <<>>, s[Len(s)].type = Junk,
         NEW type \in KnownTypes, NEW len \in Int
  PROVE  LET d == [Last(s) EXCEPT !.type = type, !.len = len]
             t == Front(s) \o <<d>>
         IN  /\ t \in Seq(ColumnOf)
             /\ ColumnPieces(t) = ColumnPieces(s) \o
                  (IF type = "varchar" THEN <<Piece("intconst", len)>> ELSE <<>>)
<1> DEFINE c == s[Len(s)]
           d == [c EXCEPT !.type = type, !.len = len]
           f == Front(s)
           a == IF type = "varchar" THEN <<Piece("intconst", len)>> ELSE <<>>
<1>1. f \in Seq(ColumnOf) /\ c \in ColumnOf /\ Last(s) = c /\ s = Append(f, c)
  BY FrontLast
<1>2. c \in [name : Idents, type : KnownTypes \cup {Junk}, len : Int \cup {Junk}]
  BY <1>1 DEF ColumnOf
<1>3. c.name \in Idents /\ d = [name |-> c.name, type |-> type, len |-> len]
  <2> DEFINE e == [c EXCEPT !.type = type]
  <2>1. c = [name |-> c.name, type |-> c.type, len |-> c.len] /\ c.name \in Idents
    <3> HIDE DEF c
    <3> QED BY <1>2
  <2>2. e = [name |-> c.name, type |-> type, len |-> c.len]
    <3> HIDE DEF c
    <3> QED BY <2>1
  <2>3. d = [e EXCEPT !.len = len]
    <3> HIDE DEF c
    <3> QED BY <2>1
  <2> HIDE DEF c, d, e
  <2>4. d = [name |-> c.name, type |-> type, len |-> len]
    BY <2>2, <2>3
  <2> QED BY <2>1, <2>4
<1>4. d \in ColumnOf /\ d.name = c.name /\ d.type = type /\ d.len = len
  BY <1>3 DEF ColumnOf
<1> HIDE DEF d, f
<1>5. f \o <<d>> = Append(f, d) /\ Append(f, d) \in Seq(ColumnOf)
  BY <1>1, <1>4, AppendIsConcat, AppendProperties
<1>6. <<IdentPiece(c.name)>> \in Seq(Pieces) /\ a \in Seq(Pieces) /\ ColumnPieces(f) \in Seq(Pieces)
  <2>1. Piece("intconst", len) \in Pieces
    BY DEF Piece, Pieces, Symbols, Constants, Spoken
  <2> QED BY <1>1, <1>3, <2>1, PieceTypes, PartTypes
<1>7. ColumnPiece(c) = <<IdentPiece(c.name)>> /\ ColumnPiece(d) = <<IdentPiece(c.name)>> \o a
  <2>1. Junk # "varchar"
    BY JunkAssumption
  <2>2. <<IdentPiece(c.name)>> \o <<>> = <<IdentPiece(c.name)>>
    BY <1>6, NoNothing
  <2> QED BY <1>4, <2>1, <2>2 DEF ColumnPiece
<1>8. /\ ColumnPieces(s) = ColumnPieces(f) \o ColumnPiece(c)
      /\ ColumnPieces(Append(f, d)) = ColumnPieces(f) \o ColumnPiece(d)
  BY <1>1, <1>4, ColumnsNext
<1> HIDE DEF c, a
<1>9. (ColumnPieces(f) \o <<IdentPiece(c.name)>>) \o a = ColumnPieces(f) \o (<<IdentPiece(c.name)>> \o a)
  BY <1>6, ConcatAssociative, SMTT(30)
<1> QED BY <1>1, <1>5, <1>7, <1>8, <1>9 DEF d, f, a

(* The assignments of an UPDATE, one more or the last one completed. *)
LEMMA TakeSets ==
  ASSUME NEW q, Shaped(q), q.type = "update", Blank(q, 6), NEW s \in Seq(SetOf), NEW a \in Seq(Pieces),
         SetPieces(s) = SetPieces(q.values) \o a
  PROVE  LET r == [q EXCEPT !["values"] = s]
         IN  Shaped(r) /\ Taken(r) = Taken(q) \o a
<1> DEFINE r == [q EXCEPT !["values"] = s]
           t == NamePart(q.tablename)
           c == SetPieces(q.values)
<1>1. q \in UpdateQueries
  BY ShapeOf
<1>2. q.values \in Seq(SetOf) /\ q.tablename \in Idents
  BY <1>1 DEF UpdateQueries
<1>3. r \in UpdateQueries
  BY <1>1 DEF UpdateQueries
<1>4. r.type = "update" /\ r.tablename = q.tablename /\ r.values = s /\ r.condname = q.condname
  BY <1>1 DEF UpdateQueries
<1>5. q.condname = NoName
  BY DEF Blank, Conditional
<1>6. CondPieces(q) = <<>> /\ CondPieces(r) = <<>>
  BY <1>4, <1>5 DEF CondPieces
<1>7. t \in Seq(Pieces) /\ c \in Seq(Pieces)
  BY <1>2, PartTypes
<1> HIDE DEF r
<1>8. Taken(q) = t \o c \o <<>> /\ Taken(r) = t \o (c \o a) \o <<>>
  BY <1>4, <1>6 DEF Taken
<1> HIDE DEF t, c
<1>9. t \o c \in Seq(Pieces) /\ c \o a \in Seq(Pieces) /\ t \o (c \o a) \in Seq(Pieces)
  BY <1>7, ConcatProperties
<1>10. Taken(q) = t \o c /\ Taken(r) = t \o (c \o a)
  BY <1>8, <1>9, NoNothing
<1>11. (t \o c) \o a = t \o (c \o a)
  BY <1>7, ConcatAssociative, SMTT(30)
<1> QED BY <1>3, <1>10, <1>11 DEF Shaped, r

LEMMA SetsGrow ==
  ASSUME NEW s \in Seq(SetOf), NEW n \in Idents
  PROVE  LET c == [name |-> n, value |-> Junk]
             t == Append(s, c)
         IN  /\ t \in Seq(SetOf) /\ t # <<>> /\ t[Len(t)] = c
             /\ SetPieces(t) = SetPieces(s) \o <<IdentPiece(n)>>
<1> DEFINE c == [name |-> n, value |-> Junk]
           t == Append(s, c)
<1>1. c \in SetOf
  BY DEF SetOf
<1>2. t \in Seq(SetOf) /\ t # <<>> /\ t[Len(t)] = c
  <2>1. /\ t \in Seq(SetOf) /\ t # <<>> /\ Len(t) = Len(s) + 1 /\ t[Len(s) + 1] = c
    BY <1>1, AppendProperties
  <2> QED BY <2>1
<1>3. SetPiece(c) = <<IdentPiece(n)>>
  <2>1. <<IdentPiece(n)>> \o <<>> = <<IdentPiece(n)>>
    BY PieceTypes, NoNothing
  <2> QED BY <2>1, PieceTypes DEF SetPiece
<1> QED BY <1>1, <1>2, <1>3, SetsNext

LEMMA SetCompleted ==
  ASSUME NEW s \in Seq(SetOf), s # <<>>, s[Len(s)].value = Junk, NEW v \in Literal \cup {Junk}
  PROVE  LET t == Front(s) \o <<[Last(s) EXCEPT !.value = v]>>
         IN  t \in Seq(SetOf) /\ SetPieces(t) = SetPieces(s) \o ConstPiece(v)
<1> DEFINE c == s[Len(s)]
           d == [c EXCEPT !.value = v]
           f == Front(s)
           a == ConstPiece(v)
           i == <<IdentPiece(c.name)>>
<1>1. f \in Seq(SetOf) /\ c \in SetOf /\ Last(s) = c /\ s = Append(f, c)
  BY FrontLast
<1>2. d = [name |-> c.name, value |-> v] /\ c.name \in Idents
  BY <1>1 DEF SetOf
<1>3. d \in SetOf /\ d.name = c.name /\ d.value = v
  BY <1>2 DEF SetOf
<1> HIDE DEF d, f
<1>4. f \o <<d>> = Append(f, d) /\ Append(f, d) \in Seq(SetOf)
  BY <1>1, <1>3, AppendIsConcat, AppendProperties
<1>5. i \in Seq(Pieces) /\ a \in Seq(Pieces) /\ SetPieces(f) \in Seq(Pieces)
  BY <1>1, <1>2, PieceTypes, PartTypes
<1>6. SetPiece(c) = i /\ SetPiece(d) = i \o a
  <2>1. i \o <<>> = i
    BY <1>5, NoNothing
  <2> QED BY <1>3, <2>1, PieceTypes DEF SetPiece
<1>7. /\ SetPieces(s) = SetPieces(f) \o SetPiece(c)
      /\ SetPieces(Append(f, d)) = SetPieces(f) \o SetPiece(d)
  BY <1>1, <1>3, SetsNext
<1> HIDE DEF c, a, i
<1>8. (SetPieces(f) \o i) \o a = SetPieces(f) \o (i \o a)
  BY <1>5, ConcatAssociative, SMTT(30)
<1> QED BY <1>1, <1>4, <1>6, <1>7, <1>8 DEF d, f, a

-----------------------------------------------------------------------------
(* Steps that put something into the query. *)

LEMMA BlankLater ==
  ASSUME NEW q, NEW j \in Nat, NEW k \in Nat, j <= k, Blank(q, j)
  PROVE  Blank(q, k)
BY DEF Blank

LEMMA StillBlank ==
  ASSUME NEW q, NEW r, Shaped(q), NEW f, f # "type", NEW v, r = [q EXCEPT ![f] = v]
  PROVE  /\ Placed(f, q.type, 0) /\ Blank(q, 1) => Blank(r, 1)
         /\ Placed(f, q.type, 4) /\ Blank(q, 5) => Blank(r, 5)
         /\ Placed(f, q.type, 5) /\ Blank(q, 6) => Blank(r, 6)
<1>1. /\ 0 \in Nat /\ 1 \in Nat /\ 4 \in Nat /\ 5 \in Nat /\ 6 \in Nat
      /\ 0 < 1 /\ 4 < 5 /\ 5 < 6
  OBVIOUS
<1>2. Placed(f, q.type, 0) /\ Blank(q, 1) => Blank(r, 1)
  BY <1>1, BlankField
<1>3. Placed(f, q.type, 4) /\ Blank(q, 5) => Blank(r, 5)
  BY <1>1, BlankField
<1>4. Placed(f, q.type, 5) /\ Blank(q, 6) => Blank(r, 6)
  BY <1>1, BlankField
<1> QED BY <1>2, <1>3, <1>4

LEMMA OfIdent ==
  ASSUME LexOK
  PROVE  ident \in Idents
BY DEF LexOK

(* The comma behind what a loop has taken. *)
LEMMA CommaNext ==
  ASSUME NEW y \in Loops, NEW q, Suits(Loop(y), q.type), Blank(q, Rank(Loop(y), q.type))
  PROVE  LET c == <<"comma", y>>
         IN  /\ Expects(c, q) /\ Replaces(c, Loop(y), q.type) /\ ~IsWord(c) /\ ~IsWord(Loop(y))
             /\ Harmless(c) /\ c \in Item
             /\ Top(Loop(y), q.type) = Rank(Loop(y), q.type)
             /\ Rank(c, q.type) = Rank(Loop(y), q.type)
<1> DEFINE c == <<"comma", y>>
<1>1. ~IsWord(c) /\ ~IsWord(Loop(y))
  BY Kinds
<1>2. /\ Suits(c, q.type) /\ Rank(c, q.type) = Rank(Loop(y), q.type)
      /\ Top(Loop(y), q.type) = Rank(Loop(y), q.type)
      /\ Top(c, q.type) = Rank(Loop(y), q.type)
  BY LoopComma
<1>3. Expects(c, q)
  BY <1>1, <1>2, Distinct, ExpectsIs
<1>4. Replaces(c, Loop(y), q.type)
  BY <1>1, <1>2, RankBounds DEF Replaces
<1>5. Harmless(c) /\ c \in Item
  BY Items DEF Harmless, Do
<1> QED BY <1>1, <1>2, <1>3, <1>4, <1>5

LEMMA ColsKeeps ==
  ASSUME IInv, Gathered, Cols
  PROVE  Gathered'
<1> DEFINE x == Loop("cols")
           y == <<"comma", "cols">>
           t == result.type
           v == Append(result.cols, ident)
<1>1. /\ Ordinarily(x) /\ At(x) /\ accept("Ident") /\ Go(<<y>>) /\ outcome' = outcome
      /\ result' = [result EXCEPT !["cols"] = v]
  BY OrdinarilyIs DEF Cols
<1>2. /\ LexOK /\ Ahead /\ Shaped(result) /\ Suits(x, t) /\ ~IsWord(x)
      /\ ~IsWord(x) => Blank(result, Rank(x, t))
  BY <1>1, Gathering, Kinds DEF Ordinarily
<1>3. "cols" \in Loops /\ x \in Both("cols")
  BY DEF Loops, Both
<1>4. t \in {"insert", "select"} /\ Rank(x, t) = IF t = "select" THEN 1 ELSE 5
  BY <1>2, <1>3, SuitLoops, Ranks
<1>5. Top(x, t) = Rank(x, t)
  BY <1>3, LoopComma
<1>6. Placed("cols", t, Top(x, t))
  BY <1>4, <1>5 DEF Placed
<1>7. Shaped(result') /\ Taken(result') = Taken(result) \o <<IdentPiece(ident)>>
  BY <1>1, <1>2, <1>4, TakeCol, OfIdent
<1>8. result'.type = t
  BY <1>1, <1>2, <1>6, BehindField
<1>9. Blank(result', Rank(x, t))
  <2>1. CASE t = "select"
    <3>1. Placed("cols", t, 0)
      BY <2>1 DEF Placed
    <3>2. Rank(x, t) = 1 /\ Blank(result, 1)
      BY <1>2, <1>4, <2>1
    <3>3. Blank(result', 1)
      BY <1>1, <1>2, <3>1, <3>2, StillBlank
    <3> QED BY <3>2, <3>3
  <2>2. CASE t # "select"
    <3>1. Placed("cols", t, 4)
      BY DEF Placed
    <3>2. Rank(x, t) = 5 /\ Blank(result, 5)
      BY <1>2, <1>4, <2>2
    <3>3. Blank(result', 5)
      BY <1>1, <1>2, <3>1, <3>2, StillBlank
    <3> QED BY <3>2, <3>3
  <2> QED BY <2>1, <2>2
<1>10. Expects(y, result') /\ Replaces(y, x, t) /\ Harmless(y) /\ y \in Item
  BY <1>2, <1>3, <1>8, <1>9, CommaNext
<1>11. Ranked(<<y>>, x, result') /\ NoSet(<<y>>) /\ <<y>> \in Seq(Item)
  BY <1>8, <1>10, RankedOne, NoneSet
<1>12. Ahead' /\ Brings(<<IdentPiece(ident)>>) /\ (~hasErrors' => ~hasErrors)
  BY <1>1, <1>2, <1>8, IdentBrings
<1> QED BY <1>1, <1>2, <1>6, <1>7, <1>11, <1>12, FieldNext DEF Ordinarily

LEMMA ValuesKeeps ==
  ASSUME IInv, Gathered, Values
  PROVE  Gathered'
<1> DEFINE x == Loop("values")
           y == <<"comma", "values">>
           t == result.type
           v == Append(result.values, Constant)
<1>1. /\ Ordinarily(x) /\ At(x) /\ accept(symbol) /\ Go(<<y>>) /\ outcome' = outcome
      /\ result' = [result EXCEPT !["values"] = v] /\ symbol \in Constants
  BY OrdinarilyIs DEF Values, Starts
<1>2. /\ LexOK /\ Ahead /\ Shaped(result) /\ Suits(x, t) /\ ~IsWord(x)
      /\ ~IsWord(x) => Blank(result, Rank(x, t))
  BY <1>1, Gathering, Kinds DEF Ordinarily
<1>3. "values" \in Loops /\ x \in Both("values")
  BY DEF Loops, Both
<1>4. t = "insert" /\ Rank(x, t) = 6
  BY <1>2, <1>3, SuitLoops, Ranks
<1>5. Top(x, t) = Rank(x, t)
  BY <1>3, LoopComma
<1>6. Placed("values", t, Top(x, t)) /\ Placed("values", t, 5)
  BY <1>4, <1>5 DEF Placed
<1>7. Constant \in Literal
  BY <1>1, <1>2, ConstantIsLiteral
<1>8. Shaped(result') /\ Taken(result') = Taken(result) \o <<Piece(Constant.type, Constant.val)>>
  BY <1>1, <1>2, <1>4, <1>7, TakeValue
<1>9. result'.type = t
  BY <1>1, <1>2, <1>6, BehindField
<1>10. Blank(result', Rank(x, t))
  <2>1. Blank(result', 6)
    BY <1>1, <1>2, <1>4, <1>6, StillBlank
  <2> QED BY <1>4, <2>1
<1>11. Expects(y, result') /\ Replaces(y, x, t) /\ Harmless(y) /\ y \in Item
  BY <1>2, <1>3, <1>9, <1>10, CommaNext
<1>12. Ranked(<<y>>, x, result') /\ NoSet(<<y>>) /\ <<y>> \in Seq(Item)
  BY <1>9, <1>11, RankedOne, NoneSet
<1>13. Ahead' /\ Brings(<<Piece(Constant.type, Constant.val)>>) /\ (~hasErrors' => ~hasErrors)
  BY <1>1, <1>2, <1>9, ConstBrings
<1> QED BY <1>1, <1>2, <1>4, <1>6, <1>8, <1>12, <1>13, FieldNext DEF Ordinarily

LEMMA ColumnsKeeps ==
  ASSUME IInv, Gathered, Columns
  PROVE  Gathered'
<1> DEFINE x == Loop("columns")
           y == <<"comma", "columns">>
           z == Do("type")
           t == result.type
           v == Append(result.columns, [name |-> ident, type |-> Junk, len |-> Junk])
<1>1. /\ Ordinarily(x) /\ At(x) /\ accept("Ident") /\ Go(<<z, y>>) /\ outcome' = outcome
      /\ result' = [result EXCEPT !["columns"] = v]
  BY OrdinarilyIs DEF Columns
<1>2. /\ LexOK /\ Ahead /\ Shaped(result) /\ Suits(x, t) /\ ~IsWord(x)
      /\ ~IsWord(x) => Blank(result, Rank(x, t))
  BY <1>1, Gathering, Kinds DEF Ordinarily
<1>3. "columns" \in Loops /\ x \in Both("columns")
  BY DEF Loops, Both
<1>4. t = "createtable" /\ Rank(x, t) = 5
  BY <1>2, <1>3, SuitLoops, Ranks
<1>5. Top(x, t) = Rank(x, t)
  BY <1>3, LoopComma
<1>6. Placed("columns", t, Top(x, t)) /\ Placed("columns", t, 4)
  BY <1>4, <1>5 DEF Placed
<1>7. /\ v \in Seq(ColumnOf) /\ v # <<>> /\ v[Len(v)] = [name |-> ident, type |-> Junk, len |-> Junk]
      /\ ColumnPieces(v) = ColumnPieces(result.columns) \o <<IdentPiece(ident)>>
  <2>1. result \in TableQueries
    BY <1>2, <1>4, ShapeOf
  <2>2. result.columns \in Seq(ColumnOf)
    BY <2>1 DEF TableQueries
  <2> QED BY <1>2, <2>2, OfIdent, ColumnsGrow
<1>8. Shaped(result') /\ Taken(result') = Taken(result) \o <<IdentPiece(ident)>>
  <2>1. <<IdentPiece(ident)>> \in Seq(Pieces)
    BY <1>2, OfIdent, PieceTypes
  <2> HIDE DEF v
  <2> QED BY <1>1, <1>2, <1>4, <1>7, <2>1, TakeColumns
<1>9. result'.type = t /\ result'.columns = v
  <2>1. "columns" \in DOMAIN result
    BY <1>2, <1>4, FieldsOf
  <2>2. result'.type = t
    BY <1>1, <1>2, <1>6, BehindField
  <2> QED BY <1>1, <2>1, <2>2
<1>10. Untyped(result')
  <2>1. v[Len(v)].type = Junk
    BY <1>7
  <2> HIDE DEF v
  <2> QED BY <1>7, <1>9, <2>1 DEF Untyped
<1> HIDE DEF v
<1>11. Blank(result', Rank(x, t)) /\ Blank(result', 3)
  <2>1. Blank(result', 5)
    BY <1>1, <1>2, <1>4, <1>6, StillBlank
  <2> QED BY <1>4, <2>1, BlankNear
<1>12. Expects(y, result') /\ Replaces(y, x, t) /\ ~IsWord(y) /\ Harmless(y) /\ y \in Item /\ Rank(y, t) = 5
  BY <1>2, <1>3, <1>4, <1>9, <1>11, CommaNext
<1>13. Rank(z, t) = 3 /\ Top(z, t) = 3 /\ ~IsWord(z) /\ Suits(z, t) /\ Harmless(z) /\ z \in Item
  <2>1. Rank(z, t) = 3
    BY Ranks
  <2>2. Top(z, t) = 3
    BY <2>1, Tops DEF Do
  <2>3. Harmless(z) /\ z \in Item
    BY Items DEF Harmless, Do, Deeds
  <2> QED BY <1>4, <2>1, <2>2, <2>3, Kinds, SuitDeeds
<1>14. Expects(z, result') /\ Replaces(z, x, t) /\ Before(z, y, t)
  <2>1. Expects(z, result')
    BY <1>9, <1>10, <1>11, <1>13 DEF Expects
  <2> QED BY <1>2, <1>4, <1>5, <1>12, <1>13, <2>1 DEF Replaces, Before
<1>15. Ranked(<<z, y>>, x, result') /\ NoSet(<<z, y>>) /\ <<z, y>> \in Seq(Item)
  BY <1>9, <1>12, <1>13, <1>14, RankedTwo, NoneSet
<1>16. Ahead' /\ Brings(<<IdentPiece(ident)>>) /\ (~hasErrors' => ~hasErrors)
  BY <1>1, <1>2, <1>9, IdentBrings
<1> QED BY <1>1, <1>2, <1>6, <1>8, <1>15, <1>16, FieldNext DEF Ordinarily

LEMMA IndexColsKeeps ==
  ASSUME IInv, Gathered, IndexCols
  PROVE  Gathered'
<1> DEFINE x == Loop("indexcols")
           y == <<"comma", "indexcols">>
           z == Do("order")
           t == result.type
           v == Append(result.cols, ident)
<1>1. /\ Ordinarily(x) /\ At(x) /\ accept("Ident") /\ Go(<<z, y>>) /\ outcome' = outcome
      /\ result' = [result EXCEPT !["cols"] = v]
  BY OrdinarilyIs DEF IndexCols
<1>2. /\ LexOK /\ Ahead /\ Shaped(result) /\ Suits(x, t) /\ ~IsWord(x)
      /\ ~IsWord(x) => Blank(result, Rank(x, t))
  BY <1>1, Gathering, Kinds DEF Ordinarily
<1>3. "indexcols" \in Loops /\ x \in Both("indexcols")
  BY DEF Loops, Both
<1>4. t = "createindex" /\ Rank(x, t) = 5
  BY <1>2, <1>3, SuitLoops, Ranks
<1>5. Top(x, t) = Rank(x, t)
  BY <1>3, LoopComma
<1>6. Placed("cols", t, Top(x, t)) /\ Placed("cols", t, 4)
  BY <1>4, <1>5 DEF Placed
<1>7. Shaped(result') /\ Taken(result') = Taken(result) \o <<IdentPiece(ident)>>
  BY <1>1, <1>2, <1>4, TakeCol, OfIdent
<1>8. result'.type = t
  BY <1>1, <1>2, <1>6, BehindField
<1>9. Blank(result', Rank(x, t)) /\ Blank(result', 4)
  <2>1. Blank(result', 5)
    BY <1>1, <1>2, <1>4, <1>6, StillBlank
  <2> QED BY <1>4, <2>1, BlankNear
<1>10. Expects(y, result') /\ Replaces(y, x, t) /\ ~IsWord(y) /\ Harmless(y) /\ y \in Item /\ Rank(y, t) = 5
  BY <1>2, <1>3, <1>4, <1>8, <1>9, CommaNext
<1>11. Rank(z, t) = 4 /\ Top(z, t) = 4 /\ ~IsWord(z) /\ Suits(z, t) /\ Harmless(z) /\ z \in Item
  <2>1. Rank(z, t) = 4
    BY Ranks
  <2>2. Top(z, t) = 4
    BY <2>1, Tops DEF Do
  <2>3. Harmless(z) /\ z \in Item
    BY Items DEF Harmless, Do, Deeds
  <2> QED BY <1>4, <2>1, <2>2, <2>3, Kinds, SuitDeeds
<1>12. Expects(z, result') /\ Replaces(z, x, t) /\ Before(z, y, t)
  <2>1. Expects(z, result')
    BY <1>8, <1>9, <1>11, Distinct, ExpectsIs
  <2> QED BY <1>2, <1>4, <1>5, <1>10, <1>11, <2>1 DEF Replaces, Before
<1>13. Ranked(<<z, y>>, x, result') /\ NoSet(<<z, y>>) /\ <<z, y>> \in Seq(Item)
  BY <1>8, <1>10, <1>11, <1>12, RankedTwo, NoneSet
<1>14. Ahead' /\ Brings(<<IdentPiece(ident)>>) /\ (~hasErrors' => ~hasErrors)
  BY <1>1, <1>2, <1>8, IdentBrings
<1> QED BY <1>1, <1>2, <1>6, <1>7, <1>13, <1>14, FieldNext DEF Ordinarily

(* A field that says nothing of a name or a constant. *)
LEMMA SilentField ==
  ASSUME NEW q, Shaped(q), NEW f, NEW v,
         \/ q.type = "select" /\ f = "allCols" /\ v = TRUE
         \/ q.type = "createindex" /\ f = "unique" /\ v = TRUE
         \/ q.type = "createindex" /\ f = "indextype" /\ v = "TREEINDEX"
  PROVE  LET r == [q EXCEPT ![f] = v]
         IN  Shaped(r) /\ Taken(r) = Taken(q)
<1> DEFINE r == [q EXCEPT ![f] = v]
<1>1. CASE q.type = "select"
  <2>1. q \in SelectQueries /\ f = "allCols" /\ v = TRUE
    BY <1>1, ShapeOf
  <2>2. r \in SelectQueries
    BY <2>1 DEF SelectQueries
  <2>3. /\ r.type = "select" /\ r.cols = q.cols /\ r.tablename = q.tablename
        /\ r.condname = q.condname /\ r.condvalue = q.condvalue
    BY <2>1 DEF SelectQueries
  <2> HIDE DEF r
  <2>4. CondPieces(r) = CondPieces(q)
    BY <2>3, SameCond
  <2>5. Taken(r) = Taken(q)
    BY <1>1, <2>3, <2>4 DEF Taken
  <2>6. Shaped(r)
    BY <2>2 DEF Shaped
  <2> QED BY <2>5, <2>6 DEF r
<1>2. CASE q.type = "createindex"
  <2>1. q \in IndexQueries
    BY <1>2, ShapeOf
  <2>2. r \in IndexQueries
    BY <1>2, <2>1 DEF IndexQueries
  <2>3. /\ r.type = "createindex" /\ r.cols = q.cols /\ r.tablename = q.tablename /\ r.name = q.name
    BY <1>2, <2>1 DEF IndexQueries
  <2> HIDE DEF r
  <2>4. Taken(r) = Taken(q)
    BY <1>2, <2>3 DEF Taken
  <2>5. Shaped(r)
    BY <2>2 DEF Shaped
  <2> QED BY <2>4, <2>5 DEF r
<1> QED BY <1>1, <1>2

LEMMA SilentStep ==
  ASSUME IInv, Gathered, NEW x, Ordinarily(x), ~IsWord(x), Go(<<>>),
         NEW f, NEW v, result' = [result EXCEPT ![f] = v], outcome' = outcome,
         \/ result.type = "select" /\ f = "allCols" /\ v = TRUE
         \/ result.type = "createindex" /\ f = "unique" /\ v = TRUE
         \/ result.type = "createindex" /\ f = "indextype" /\ v = "TREEINDEX",
         NEW l, l \notin Constants \cup {"Ident", "Unknown"}, accept(l)
  PROVE  Gathered'
<1>1. LexOK /\ Ahead /\ Shaped(result) /\ Shaped(result')
  BY Gathering, SilentField DEF Ordinarily
<1>2. Taken(result) \in Seq(Pieces) /\ Taken(result') = Taken(result)
  BY <1>1, SilentField, TakenType
<1>3. Taken(result') = Taken(result) \o <<>>
  BY <1>2, NoNothing
<1>4. Placed(f, result.type, Top(x, result.type)) /\ f # "type"
  BY DEF Placed
<1>5. result'.type = result.type
  BY <1>1, <1>4, BehindField
<1>6. Ahead' /\ Brings(<<>>) /\ (~hasErrors' => ~hasErrors)
  BY <1>1, <1>5, AcceptBrings
<1>7. <<>> \in Seq(Item) /\ NoSet(<<>>) /\ Ranked(<<>>, x, result')
  BY RankedNone, NoneSet
<1>8. f \notin {"name", "tablename", "condname", "values"}
  OBVIOUS
<1> QED BY <1>1, <1>3, <1>4, <1>6, <1>7, <1>8, FieldNext DEF Ordinarily

LEMMA UniqueKeeps ==
  ASSUME IInv, Gathered, Unique
  PROVE  Gathered'
<1> DEFINE x == Do("unique")
<1>1. Ordinarily(x) /\ outcome' = outcome /\ Go(<<>>)
  BY OrdinarilyIs DEF Unique, Deeds
<1>2. result.type = "createindex" /\ ~IsWord(x)
  BY <1>1, Gathering, SuitDeeds, Kinds DEF Ordinarily
<1>3. CASE symbol = "unique"
  <2>1. /\ accept("unique") /\ "unique" \notin Constants \cup {"Ident", "Unknown"}
        /\ result' = [result EXCEPT !["unique"] = TRUE]
    BY <1>3 DEF Unique, Constants
  <2> QED BY <1>1, <1>2, <2>1, SilentStep
<1>4. CASE symbol # "unique"
  BY <1>1, <1>4, StandStep DEF Unique
<1> QED BY <1>3, <1>4

LEMMA MethodKeeps ==
  ASSUME IInv, Gathered, Method
  PROVE  Gathered'
<1> DEFINE x == Do("method")
<1>1. Ordinarily(x) /\ outcome' = outcome /\ Go(<<>>)
  BY OrdinarilyIs DEF Method, Deeds
<1>2. result.type = "createindex" /\ ~IsWord(x)
  BY <1>1, Gathering, SuitDeeds, Kinds DEF Ordinarily
<1>3. CASE symbol \in {"btree", "hash"}
  <2>1. /\ accept(symbol) /\ symbol \notin Constants \cup {"Ident", "Unknown"}
        /\ result' = [result EXCEPT !["indextype"] = "TREEINDEX"]
    BY <1>3 DEF Method, Constants
  <2> QED BY <1>1, <1>2, <2>1, SilentStep
<1>4. CASE symbol \notin {"btree", "hash"}
  BY <1>1, <1>4, StandStep DEF Method
<1> QED BY <1>3, <1>4

LEMMA SelectColumnsKeeps ==
  ASSUME IInv, Gathered, SelectColumns
  PROVE  Gathered'
<1> DEFINE x == Do("columns")
           y == Loop("cols")
           t == result.type
<1>1. Ordinarily(x) /\ outcome' = outcome
  BY OrdinarilyIs DEF SelectColumns, Deeds
<1>2. /\ LexOK /\ Ahead /\ t = "select" /\ ~IsWord(x) /\ ~IsWord(y)
      /\ Blank(result, Rank(x, t))
  BY <1>1, Gathering, SuitDeeds, Kinds DEF Ordinarily
<1>3. CASE symbol = "*"
  <2>1. /\ accept("*") /\ "*" \notin Constants \cup {"Ident", "Unknown"} /\ Go(<<>>)
        /\ result' = [result EXCEPT !["allCols"] = TRUE]
    BY <1>3 DEF SelectColumns, Constants
  <2> QED BY <1>1, <1>2, <2>1, SilentStep
<1>4. CASE symbol # "*"
  <2>1. Go(<<y>>) /\ UNCHANGED <<lexer, hasErrors, result>>
    BY <1>4 DEF SelectColumns
  <2>2. "cols" \in Loops /\ y \in Both("cols")
    BY DEF Loops, Both
  <2>3. Rank(x, t) = 1 /\ Rank(y, t) = 1 /\ Suits(y, t)
    BY <1>2, <2>2, Ranks, SuitLoops
  <2>4. Top(y, t) = 1 /\ Top(x, t) = 1
    BY <2>2, <2>3, LoopComma, Tops DEF Do
  <2>5. Expects(y, result)
    BY <1>2, <2>3, Distinct, ExpectsIs
  <2>6. Replaces(y, x, t)
    BY <1>2, <2>4 DEF Replaces
  <2>7. Ranked(<<y>>, x, result)
    BY <2>5, <2>6, RankedOne
  <2>8. NoSet(<<y>>) /\ <<y>> \in Seq(Item)
    <3>1. Harmless(y)
      BY DEF Harmless, Loop, Do
    <3>2. y \in Item
      BY <2>2, Items
    <3> QED BY <3>1, <3>2, NoneSet
  <2>9. Ahead' /\ Brings(<<>>)
    BY <1>2, <2>1, StandBrings
  <2> QED BY <1>1, <2>1, <2>7, <2>8, <2>9, SameQuery
<1> QED BY <1>3, <1>4

LEMMA SetValueKeeps ==
  ASSUME IInv, Gathered, SetValue
  PROVE  Gathered'
<1> DEFINE x == Do("setvalue")
           t == result.type
           s == result.values
           v == Front(s) \o <<[Last(s) EXCEPT !.value = p_value]>>
           a == ConstPiece(p_value)
<1>1. /\ Ordinarily(x) /\ At(x) /\ AcceptValue /\ Go(<<>>) /\ outcome' = outcome
      /\ result' = [result EXCEPT !["values"] = v]
  BY OrdinarilyIs DEF SetValue, Deeds
<1>2. /\ LexOK /\ Ahead /\ Shaped(result) /\ t = "update" /\ ~IsWord(x)
      /\ Blank(result, Rank(x, t))
  BY <1>1, Gathering, SuitDeeds, Kinds DEF Ordinarily
<1>3. Rank(x, t) = 4 /\ Top(x, t) = 4 /\ Top(x, "update") = 4 /\ Rank(x, "update") = 4
  BY Ranks, Tops DEF Do
<1>4. Placed("values", t, Top(x, t))
  BY <1>2, <1>3 DEF Placed
<1>5. result'.type = t
  BY <1>1, <1>2, <1>4, BehindField
<1>6. Unvalued(result)
  <2>1. todo \in Seq(Item) /\ todo # <<>>
    BY <1>1, Started DEF At, Begun, Plan, Do
  <2>2. 1 \in 1 .. Len(todo) /\ todo[1] = x
    BY <1>1, <2>1, LenProperties, EmptySeq DEF At
  <2>3. ~At(Do("setname"))
    BY <1>1 DEF At, Do
  <2> QED BY <2>2, <2>3 DEF Gathered, ValueDue
<1>7. p_value \in Literal \cup {Junk}
  BY <1>2, ConstantIsLiteral DEF p_value
<1>8. v \in Seq(SetOf) /\ SetPieces(v) = SetPieces(s) \o a
  <2>1. result \in UpdateQueries
    BY <1>2, ShapeOf
  <2>2. s \in Seq(SetOf) /\ s # <<>> /\ s[Len(s)].value = Junk
    BY <1>6, <2>1 DEF UpdateQueries, Unvalued
  <2> QED BY <1>7, <2>2, SetCompleted
<1>9. a \in Seq(Pieces)
  <2>1. <<>> \in Seq(Pieces)
    OBVIOUS
  <2> QED BY <1>7, <2>1, PieceTypes
<1> HIDE DEF v, a
<1>10. Shaped(result') /\ Taken(result') = Taken(result) \o a
  <2>1. Blank(result, 6)
    BY <1>2, <1>3, BlankLater
  <2> QED BY <1>1, <1>2, <1>8, <1>9, <2>1, TakeSets
<1>11. Ahead' /\ Brings(a) /\ (~hasErrors' => ~hasErrors)
  <2>1. CASE symbol \in Constants
    <3>1. accept(symbol) /\ p_value = Constant
      BY <1>1, <2>1 DEF AcceptValue, p_value
    <3>2. a = <<Piece(Constant.type, Constant.val)>>
      BY <1>2, <2>1, <3>1, ConstantIsLiteral, PieceTypes DEF a
    <3> QED BY <1>2, <1>5, <2>1, <3>1, <3>2, ConstBrings
  <2>2. CASE symbol \notin Constants
    <3>1. UNCHANGED <<lexer, hasErrors>> /\ p_value = Junk
      BY <1>1, <2>2 DEF AcceptValue, p_value
    <3>2. a = <<>>
      BY <3>1, PieceTypes DEF a
    <3> QED BY <1>2, <1>5, <3>1, <3>2, StandBrings
  <2> QED BY <2>1, <2>2
<1>12. <<>> \in Seq(Item) /\ NoSet(<<>>) /\ Ranked(<<>>, x, result')
  BY RankedNone, NoneSet
<1>13. ~Before(x, Do("setvalue"), "update")
  BY <1>2, <1>3 DEF Before
<1> QED BY <1>1, <1>2, <1>4, <1>10, <1>11, <1>12, <1>13, FieldNext DEF Ordinarily

(* Where a constant is compared, there is something to compare it with. *)
LEMMA ComparedWith ==
  ASSUME IInv, Gathered, At(Do("condvalue")), ~hasErrors
  PROVE  result.condname \in Names
<1> DEFINE x == Do("condvalue")
           t == result.type
<1>1. todo \in Seq(Item) /\ todo # <<>> /\ outcome = "parsing"
  BY Started, Gathering DEF At, Begun, Plan, Do
<1>2. 1 \in 1 .. Len(todo) /\ todo[1] = x /\ Len(todo) \in Nat
  BY <1>1, LenProperties, EmptySeq DEF At
<1>3. ToCome(x, todo)
  BY <1>2 DEF ToCome
<1>4. Top(x, t) = 7 /\ ~IsWord(x)
  <2>1. Rank(x, t) = 7 /\ ~IsWord(x)
    BY Ranks, Kinds
  <2> QED BY <2>1, Tops DEF Do
<1>5. ASSUME NEW y \in {Name("condname"), Do("condname")}, ToCome(y, todo)
      PROVE  FALSE
  <2>1. PICK k \in 1 .. Len(todo) : todo[k] = y
    BY <1>5 DEF ToCome
  <2>2. ~IsWord(y) /\ Rank(y, t) = 6
    BY Ranks, Kinds
  <2>3. y # x
    BY DEF Name, Do
  <2>4. 1 < k
    BY <1>2, <2>1, <2>3
  <2>5. Before(x, y, t)
    BY <1>2, <2>1, <2>4 DEF Gathered, Sorted
  <2> QED BY <1>4, <2>2, <2>5 DEF Before
<1>6. ~CondNameToCome(todo)
  BY <1>5 DEF CondNameToCome
<1> QED BY <1>1, <1>3, <1>6 DEF Gathered, Named

LEMMA CondValueKeeps ==
  ASSUME IInv, Gathered, CondValue
  PROVE  Gathered'
<1> DEFINE x == Do("condvalue")
           t == result.type
           a == ConstPiece(p_value)
<1>1. /\ Ordinarily(x) /\ At(x) /\ AcceptValue /\ Go(<<>>) /\ outcome' = outcome
      /\ result' = [result EXCEPT !["condvalue"] = p_value]
  BY OrdinarilyIs DEF CondValue, Deeds
<1>2. /\ LexOK /\ Ahead /\ Shaped(result) /\ t \in Conditional /\ ~IsWord(x)
      /\ Blank(result, Rank(x, t))
  BY <1>1, Gathering, SuitDeeds, Kinds DEF Ordinarily
<1>3. Rank(x, t) = 7 /\ Top(x, t) = 7
  BY Ranks, Tops DEF Do
<1>4. Placed("condvalue", t, Top(x, t))
  BY <1>3 DEF Placed
<1>5. result'.type = t
  BY <1>1, <1>2, <1>4, BehindField
<1>6. p_value \in Literal \cup {Junk}
  BY <1>2, ConstantIsLiteral DEF p_value
<1>7. Ahead' /\ Brings(a) /\ (~hasErrors' => ~hasErrors)
  <2>1. CASE symbol \in Constants
    <3>1. accept(symbol) /\ p_value = Constant
      BY <1>1, <2>1 DEF AcceptValue, p_value
    <3>2. a = <<Piece(Constant.type, Constant.val)>>
      BY <1>2, <2>1, <3>1, ConstantIsLiteral, PieceTypes
    <3> QED BY <1>2, <1>5, <2>1, <3>1, <3>2, ConstBrings
  <2>2. CASE symbol \notin Constants
    <3>1. UNCHANGED <<lexer, hasErrors>> /\ p_value = Junk
      BY <1>1, <2>2 DEF AcceptValue, p_value
    <3>2. a = <<>>
      BY <3>1, PieceTypes
    <3> QED BY <1>2, <1>5, <3>1, <3>2, StandBrings
  <2> QED BY <2>1, <2>2
<1>8. Shaped(result')
  BY <1>1, <1>2, <1>6, CondShape
<1>9. ~hasErrors' => Taken(result') = Taken(result) \o a
  <2> SUFFICES ASSUME ~hasErrors' PROVE Taken(result') = Taken(result) \o a
    OBVIOUS
  <2>1. result.condname # NoName
    BY <1>1, <1>7, ComparedWith, ParserAssumption
  <2>2. CASE p_value \in Literal
    <3>1. a = <<Piece(p_value.type, p_value.val)>>
      BY <2>2, PieceTypes
    <3> QED BY <1>1, <1>2, <1>3, <2>1, <2>2, <3>1, TakeCondValue
  <2>3. CASE p_value = Junk
    <3>1. a = <<>>
      BY <2>3, PieceTypes
    <3>2. result.condvalue = Junk /\ "condvalue" \in DOMAIN result
      BY <1>2, <1>3, FieldsOf DEF Blank
    <3>3. result'.condname = result.condname /\ result'.condvalue = result.condvalue
      BY <1>1, <1>2, <2>3, <3>2, FieldsOf
    <3>4. Unconditioned(result') = Unconditioned(result)
      BY <1>1, <1>2, <1>6, CondShape
    <3>5. Taken(result') = Taken(result)
      BY <1>2, <1>5, <1>8, <3>3, <3>4, SameCond, TakenCond
    <3> QED BY <1>2, <3>1, <3>5, TakenType, NoNothing
  <2> QED BY <1>6, <2>2, <2>3
<1>10. <<>> \in Seq(Item) /\ NoSet(<<>>) /\ Ranked(<<>>, x, result')
  BY RankedNone, NoneSet
<1> HIDE DEF a
<1> QED BY <1>1, <1>2, <1>4, <1>7, <1>8, <1>9, <1>10, FieldNext DEF Ordinarily

(* The type of a column. *)
LEMMA TypedStep ==
  ASSUME IInv, Gathered, NEW x \in {Do("type"), Do("length")}, Ordinarily(x), Go(<<>>),
         NEW type \in KnownTypes, NEW len \in Int, result' = Typed(type, len), outcome' = outcome,
         Ahead', ~hasErrors' => ~hasErrors,
         Brings(IF type = "varchar" THEN <<Piece("intconst", len)>> ELSE <<>>)
  PROVE  Gathered'
<1> DEFINE t == result.type
           s == result.columns
           v == Front(s) \o <<[Last(s) EXCEPT !.type = type, !.len = len]>>
           a == IF type = "varchar" THEN <<Piece("intconst", len)>> ELSE <<>>
<1>1. /\ LexOK /\ Ahead /\ Shaped(result) /\ Suits(x, t) /\ Expects(x, result)
  BY Gathering DEF Ordinarily
<1>2. t = "createtable" /\ ~IsWord(x) /\ Untyped(result)
  <2>1. t = "createtable"
    BY <1>1, SuitDeeds
  <2>2. ~IsWord(x)
    BY Kinds
  <2> QED BY <1>1, <2>1, <2>2 DEF Expects
<1>3. Rank(x, t) = 3
  BY Ranks
<1>4. Top(x, t) = 3
  BY <1>3, Tops DEF Do
<1>5. Placed("columns", t, Top(x, t))
  BY <1>4 DEF Placed
<1>6. result' = [result EXCEPT !["columns"] = v]
  BY DEF Typed
<1>7. v \in Seq(ColumnOf) /\ ColumnPieces(v) = ColumnPieces(s) \o a
  <2>1. result \in TableQueries
    BY <1>1, <1>2, ShapeOf
  <2>2. s \in Seq(ColumnOf) /\ s # <<>> /\ s[Len(s)].type = Junk
    BY <1>2, <2>1 DEF TableQueries, Untyped
  <2> QED BY <2>2, ColumnCompleted
<1>8. a \in Seq(Pieces)
  <2>1. Piece("intconst", len) \in Pieces
    BY DEF Piece, Pieces, Symbols, Constants, Spoken
  <2> QED BY <2>1, PartTypes
<1>9. Brings(a)
  OBVIOUS
<1> HIDE DEF v, a
<1>10. Shaped(result') /\ Taken(result') = Taken(result) \o a
  <2>1. ColumnPieces(v) = ColumnPieces(result.columns) \o a /\ result.type = "createtable"
    BY <1>2, <1>7
  <2>2. LET r == [result EXCEPT !["columns"] = v]
        IN  Shaped(r) /\ Taken(r) = Taken(result) \o a
    <3> HIDE DEF s, t
    <3> QED BY <1>1, <1>7, <1>8, <2>1, TakeColumns
  <2> QED BY <1>6, <2>2
<1>11. <<>> \in Seq(Item) /\ NoSet(<<>>) /\ Ranked(<<>>, x, result')
  BY RankedNone, NoneSet
<1> QED BY <1>2, <1>5, <1>6, <1>9, <1>10, <1>11, FieldNext DEF Ordinarily

LEMMA ColumnTypeKeeps ==
  ASSUME IInv, Gathered, ColumnType
  PROVE  Gathered'
<1> DEFINE x == Do("type")
           y == Do("length")
           items == <<Word("("), y, Word(")")>>
           t == result.type
<1>1. Ordinarily(x) /\ hasErrors' = hasErrors /\ outcome' = outcome
  BY OrdinarilyIs DEF ColumnType, Deeds
<1>2. /\ LexOK /\ Ahead /\ Shaped(result) /\ t = "createtable" /\ ~IsWord(x)
      /\ Blank(result, Rank(x, t)) /\ Untyped(result)
  BY <1>1, Gathering, SuitDeeds, Kinds DEF Ordinarily, Expects
<1>3. CASE symbol \in {"int", "double"}
  <2>1. nextsym /\ Go(<<>>) /\ result' = Typed(symbol, 0)
    BY <1>3 DEF ColumnType
  <2>2. symbol \notin Constants \cup {"Ident", "Unknown"} /\ symbol \in KnownTypes /\ symbol # "varchar"
    BY <1>3 DEF Constants, KnownTypes
  <2>3. result'.type = t
    <3>1. Placed("columns", t, 3)
      BY DEF Placed
    <3>2. Rank(x, t) = 3
      BY Ranks
    <3>3. Top(x, t) = 3
      BY <3>2, Tops DEF Do
    <3> QED BY <1>2, <2>1, <3>1, <3>3, BehindField DEF Typed
  <2>4. Ahead' /\ Brings(<<>>)
    BY <1>1, <1>2, <2>1, <2>2, <2>3, SilentBrings
  <2>5. PICK type \in KnownTypes : type = symbol
    BY <2>2
  <2>6. PICK len \in Int : len = 0
    OBVIOUS
  <2>7. Brings(IF type = "varchar" THEN <<Piece("intconst", len)>> ELSE <<>>)
    BY <2>2, <2>4, <2>5
  <2>8. result' = Typed(type, len) /\ (~hasErrors' => ~hasErrors)
    BY <1>1, <2>1, <2>5, <2>6
  <2> HIDE DEF x
  <2>9. x \in {Do("type"), Do("length")}
    BY DEF x
  <2> QED BY <1>1, <2>1, <2>4, <2>7, <2>8, <2>9, TypedStep
<1>4. CASE symbol = "varchar"
  <2>1. nextsym /\ Go(items) /\ result' = result
    BY <1>4 DEF ColumnType
  <2>2. symbol \notin Constants \cup {"Ident", "Unknown"}
    BY <1>4 DEF Constants
  <2>3. Ahead' /\ Brings(<<>>)
    BY <1>1, <1>2, <2>1, <2>2, SilentBrings
  <2>4. Rank(x, t) = 3 /\ Rank(y, t) = 3 /\ ~IsWord(y)
    BY Ranks, Kinds
  <2>5. Top(x, t) = 3 /\ Top(y, t) = 3
    BY <2>4, Tops DEF Do
  <2>6. Suits(y, t)
    BY <1>2, SuitDeeds
  <2>7. Expects(y, result)
    BY <1>2, <2>4, <2>6 DEF Expects
  <2>8. Expects(Word("("), result) /\ Expects(Word(")"), result)
    BY SuitWords DEF Constants
  <2>9. IsWord(Word("(")) /\ IsWord(Word(")"))
    BY Kinds
  <2>10. /\ Replaces(Word("("), x, t) /\ Replaces(y, x, t) /\ Replaces(Word(")"), x, t)
         /\ Before(Word("("), y, t) /\ Before(Word("("), Word(")"), t) /\ Before(y, Word(")"), t)
    BY <1>2, <2>4, <2>5, <2>9 DEF Replaces, Before
  <2>11. Ranked(items, x, result)
    BY <2>7, <2>8, <2>10, RankedThree
  <2>12. NoSet(items) /\ items \in Seq(Item)
    <3>1. Harmless(Word("(")) /\ Harmless(y) /\ Harmless(Word(")"))
      BY DEF Harmless, Do, Word
    <3>2. Word("(") \in Item /\ y \in Item /\ Word(")") \in Item
      BY WordsAreItems, Items DEF Punctuation, Deeds
    <3> QED BY <3>1, <3>2, NoneSet
  <2> QED BY <1>1, <2>1, <2>3, <2>11, <2>12, SameQuery
<1>5. CASE symbol \notin {"int", "double", "varchar"}
  <2>1. Go(<<>>) /\ UNCHANGED <<lexer, result>>
    BY <1>5 DEF ColumnType
  <2> QED BY <1>1, <2>1, StandStep
<1> QED BY <1>3, <1>4, <1>5

(* A length of 0 makes no VARCHAR, and is not among what is kept. *)
LEMMA ZeroBrings ==
  ASSUME LexOK, Ahead, intconst = 0, accept("intconst"), result.type = "createtable",
         result'.type = result.type
  PROVE  Ahead' /\ Brings(<<>>) /\ (~hasErrors' => ~hasErrors)
<1>1. CASE hasErrors \/ symbol # "intconst"
  <2>1. hasErrors' /\ UNCHANGED lexer
    BY <1>1 DEF accept
  <2> QED BY <2>1, StandBrings DEF Brings
<1>2. CASE ~hasErrors /\ symbol = "intconst"
  <2>1. nextsym /\ hasErrors' = hasErrors
    BY <1>2 DEF accept
  <2>2. Ahead' /\ Appended
    <3>1. text # <<>> /\ symbol = text[Len(text)].lex /\ negative = FALSE
      BY <1>2 DEF LexOK, Ahead
    <3>2. End.lex = "Unknown"
      BY DEF End, Piece
    <3>3. ~AtEnd
      BY <1>2, <3>1, <3>2 DEF AtEnd, Last
    <3> QED BY <2>1, <3>1, <3>3, NextsymAhead
  <2>3. Lost'
    <3> SUFFICES ASSUME ~Lost' PROVE FALSE
      OBVIOUS
    <3>1. /\ ~Overflows(text[Len(text)]) /\ text[Len(text)] \in Pieces
          /\ text[Len(text)] # Piece("intconst", 0)
      BY <2>2, Consuming DEF Ahead
    <3>2. text[Len(text)].lex = "intconst" /\ text[Len(text)].val = 0
      BY <1>2, <3>1 DEF LexOK, Ahead
    <3> QED BY <3>1, <3>2 DEF Pieces, Piece
  <2> QED BY <1>2, <2>2, <2>3 DEF Brings
<1> QED BY <1>1, <1>2

LEMMA LengthKeeps ==
  ASSUME IInv, Gathered, Length
  PROVE  Gathered'
<1> DEFINE x == Do("length")
           t == result.type
           a == <<Piece("intconst", intconst)>>
<1>1. Ordinarily(x) /\ outcome' = outcome /\ Go(<<>>) /\ accept("intconst") /\ intconst \in Int
  BY OrdinarilyIs, ParserAssumption DEF Length, Deeds
<1>2. LexOK /\ Ahead /\ Shaped(result) /\ t = "createtable"
  BY <1>1, Gathering, SuitDeeds DEF Ordinarily
<1>3. CASE intconst # 0
  <2>1. result' = Typed("varchar", intconst) /\ "varchar" \in KnownTypes
    BY <1>3 DEF Length, KnownTypes
  <2>2. result'.type = t
    <3>1. Placed("columns", t, 3)
      BY DEF Placed
    <3>2. Rank(x, t) = 3 /\ ~IsWord(x)
      BY Ranks, Kinds
    <3>3. Top(x, t) = 3
      BY <3>2, Tops DEF Do
    <3> QED BY <1>2, <2>1, <3>1, <3>2, <3>3, BehindField DEF Typed
  <2>3. Ahead' /\ Brings(a) /\ (~hasErrors' => ~hasErrors)
    <3>1. CASE symbol = "intconst"
      <4>1. Constant.type = "intconst" /\ Constant.val = intconst /\ symbol \in Constants
        BY <3>1 DEF Constant, Constants
      <4>2. accept(symbol)
        BY <1>1, <3>1
      <4> QED BY <1>2, <2>2, <4>1, <4>2, ConstBrings
    <3>2. CASE symbol # "intconst"
      <4>1. hasErrors' /\ UNCHANGED lexer
        BY <1>1, <3>2 DEF accept
      <4> QED BY <1>2, <2>2, <4>1, StandBrings DEF Brings
    <3> QED BY <3>1, <3>2
  <2>4. Brings(IF "varchar" = "varchar" THEN <<Piece("intconst", intconst)>> ELSE <<>>)
    BY <2>3
  <2> QED BY <1>1, <2>1, <2>3, <2>4, TypedStep
<1>4. CASE intconst = 0
  <2>1. result' = result
    BY <1>4 DEF Length
  <2>2. Ahead' /\ Brings(<<>>) /\ (~hasErrors' => ~hasErrors)
    BY <1>1, <1>2, <1>4, <2>1, ZeroBrings
  <2> QED BY <1>1, <2>1, <2>2, QuietStep
<1> QED BY <1>3, <1>4

(* The names of a statement: its table, an index, what is compared. *)
LEMMA NamesNamed ==
  ASSUME IInv, Gathered, NEW f \in Fields, Onto(Name(f), <<>>), ~hasErrors' => ~hasErrors,
         result' = [result EXCEPT ![f] = ident], f \in DOMAIN result,
         ~hasErrors' => ident \in Names
  PROVE  Named'
<1> DEFINE x == Name(f)
           t == result.type
<1> SUFFICES ASSUME ~hasErrors' PROVE Named'
  BY DEF Named
<1>1. Shaped(result) /\ t = result'.type /\ outcome = "parsing" /\ outcome' = "parsing" /\ x # Do("start")
  <2>1. Shaped(result) /\ x # Do("start") /\ At(x)
    BY DEF Gathered, Onto, Name, Do
  <2> QED BY <2>1, Parsing DEF Onto
<1>2. \A g \in DOMAIN result : g # f => result'[g] = result[g]
  OBVIOUS
<1>3. result'[f] \in Names
  OBVIOUS
<1>4. \A g \in Fields : g # f => (ToCome(Name(g), todo) => ToCome(Name(g), todo'))
  <2> SUFFICES ASSUME NEW g \in Fields, g # f, ToCome(Name(g), todo) PROVE ToCome(Name(g), todo')
    OBVIOUS
  <2>1. Name(g) # x
    BY DEF Name
  <2> QED BY <2>1, ToComeKept
<1>5. t # "none" => result'.tablename \in Names \/ ToCome(Name("tablename"), todo')
  <2>1. t # "none" => result.tablename \in Names \/ ToCome(Name("tablename"), todo)
    BY <1>1 DEF Gathered, Named
  <2>2. CASE f = "tablename"
    BY <1>3, <2>2
  <2>3. CASE f # "tablename"
    <3>1. t # "none" => result'.tablename = result.tablename
      BY <1>1, <1>2, <2>3, FieldsOf
    <3> QED BY <1>4, <2>1, <2>3, <3>1 DEF Fields
  <2> QED BY <2>2, <2>3
<1>6. t = "createindex" => result'.name \in Names \/ ToCome(Name("name"), todo')
  <2>1. t = "createindex" => result.name \in Names \/ ToCome(Name("name"), todo)
    BY <1>1 DEF Gathered, Named
  <2>2. CASE f = "name"
    BY <1>3, <2>2
  <2>3. CASE f # "name"
    <3>1. t = "createindex" => result'.name = result.name
      BY <1>1, <1>2, <2>3, FieldsOf
    <3> QED BY <1>4, <2>1, <2>3, <3>1 DEF Fields
  <2> QED BY <2>2, <2>3
<1>7. ToCome(Do("condvalue"), todo') => result'.condname \in Names \/ CondNameToCome(todo')
  <2>1. CondOK(<<>>)
    BY NoneSet DEF NoSet
  <2>2. CASE f = "condname"
    BY <1>3, <2>2
  <2>3. CASE f # "condname"
    <3>1. t \in Conditional => result'.condname = result.condname
      BY <1>1, <1>2, <2>3, FieldsOf
    <3>2. x \notin {Name("condname"), Do("condname")}
      BY <2>3 DEF Name, Do
    <3> QED BY <2>1, <3>1, <3>2, CondKept
  <2> QED BY <2>2, <2>3
<1> QED BY <1>1, <1>5, <1>6, <1>7 DEF Named, ToCome, CondNameToCome

LEMMA TakeNameKeeps ==
  ASSUME IInv, Gathered, TakeName
  PROVE  Gathered'
<1> DEFINE x == Head(todo)
           f == x[2]
           t == result.type
<1>1. At(x) /\ x[1] = "name" /\ x # Do("start")
  BY DEF TakeName, At, Do
<1>2. /\ LexOK /\ Ahead /\ Shaped(result) /\ x \in Item /\ Suits(x, t)
      /\ ~IsWord(x) => Blank(result, Rank(x, t))
  BY <1>1, Gathering
<1>3. f \in Fields /\ x = Name(f)
  BY <1>1, <1>2 DEF Item, Name
<1>4. /\ accept("Ident") /\ Go(<<>>) /\ outcome' = outcome
      /\ result' = [result EXCEPT ![f] = ident]
  BY DEF TakeName
<1> HIDE DEF x, f
<1>5. /\ ~IsWord(x) /\ x \notin Enders \cup {Do("start"), Do("setname"), Do("condname")} /\ f # "type"
      /\ x \notin {Do("where"), Do("updatewhere"), Do("condition")}
  BY <1>3, Kinds DEF Name, Do, Enders, Fields
<1>6. Top(x, t) = Rank(x, t)
  BY <1>5, Tops
<1>7. /\ f = "name" => Rank(x, t) = 1 /\ t = "createindex"
      /\ f = "tablename" => Rank(x, t) = 2 /\ t # "none"
      /\ f = "condname" => Rank(x, t) = 6 /\ t \in Conditional
  <2>1. /\ f = "name" => Rank(x, t) = 1
        /\ f = "tablename" => Rank(x, t) = 2
        /\ f = "condname" => Rank(x, t) = 6
    BY <1>3, Ranks
  <2>2. /\ f = "name" => t = "createindex"
        /\ f = "tablename" => t # "none"
        /\ f = "condname" => t \in Conditional
    BY <1>2, <1>3, SuitNames
  <2> QED BY <2>1, <2>2
<1>8. Placed(f, t, Top(x, t))
  BY <1>3, <1>6, <1>7 DEF Placed, Fields
<1>9. f \in DOMAIN result
  BY <1>2, <1>3, <1>7, FieldsOf DEF Fields
<1>10. result'.type = t /\ Behind(x, result, result')
  BY <1>2, <1>4, <1>5, <1>8, BehindField
<1>11. /\ Ahead' /\ Brings(<<IdentPiece(ident)>>)
       /\ ~hasErrors' => ~hasErrors /\ ident \in Names
  BY <1>2, <1>4, <1>10, IdentBrings
<1>12. /\ Shaped(result')
       /\ ident # NoName => Taken(result') = Taken(result) \o <<IdentPiece(ident)>>
  <2>1. ident \in Idents
    BY <1>2, OfIdent
  <2>2. CASE f = "name"
    <3>1. Blank(result, 1) /\ t = "createindex"
      BY <1>2, <1>5, <1>7, <2>2
    <3> QED BY <1>2, <1>4, <2>1, <2>2, <3>1, TakeIndexName
  <2>3. CASE f = "tablename"
    <3>1. Blank(result, 2) /\ t # "none"
      BY <1>2, <1>5, <1>7, <2>3
    <3> QED BY <1>2, <1>4, <2>1, <2>3, <3>1, TakeTable
  <2>4. CASE f = "condname"
    <3>1. Blank(result, 6) /\ t \in Conditional
      BY <1>2, <1>5, <1>7, <2>4
    <3> QED BY <1>2, <1>4, <2>1, <2>4, <3>1, TakeCondName
  <2> QED BY <1>3, <2>2, <2>3, <2>4 DEF Fields
<1>13. ~hasErrors' => Taken(result') = Taken(result) \o <<IdentPiece(ident)>>
  BY <1>11, <1>12, ParserAssumption
<1>14. <<>> \in Seq(Item) /\ NoSet(<<>>) /\ Ranked(<<>>, x, result')
  BY RankedNone, NoneSet
<1>15. Onto(x, <<>>)
  BY <1>1, <1>4, <1>5, <1>10, <1>12, <1>14 DEF Onto
<1>16. Named'
  BY <1>3, <1>4, <1>9, <1>11, <1>15, NamesNamed
<1>17. f # "values"
  BY <1>3 DEF Fields
<1> QED BY <1>1, <1>4, <1>5, <1>8, <1>11, <1>12, <1>13, <1>14, <1>16, <1>17, FieldNext

(* A name that is put into the query when its = has been read. *)
LEMMA HeldStep ==
  ASSUME IInv, Gathered, NEW x \in {Do("setname"), Do("condname")}, Onto(x, <<>>), accept("="),
         ~hasErrors /\ symbol = "=" => Taken(result') = Taken(result) \o <<IdentPiece(ident)>>,
         ValueDue', Named'
  PROVE  Gathered'
<1>1. At(x) /\ x # Do("start") /\ result'.type = result.type /\ Shaped(result')
  BY DEF Onto, Do
<1>2. LexOK /\ Ahead /\ Shaped(result)
  BY <1>1, Gathering
<1>3. Ahead' /\ Brings(<<>>) /\ (~hasErrors' => ~hasErrors /\ symbol = "=")
  BY <1>1, <1>2, AcceptBrings DEF Constants
<1>4. Held /\ ~Held'
  BY <1>1, HeldNext, NoneSet DEF Held
<1>5. Expected(todo', result') /\ Sorted(todo', result'.type)
  BY OntoOrder
<1>6. Carried'
  <2> SUFFICES ASSUME ~hasErrors', ~Lost' PROVE Atoms(Consumed') = Taken(result')
    BY <1>4 DEF Carried, Atoms
  <2>1. ~hasErrors /\ ~Lost /\ Atoms(Consumed') = Atoms(Consumed) \o <<>> /\ symbol = "="
    BY <1>3 DEF Brings
  <2>2. Atoms(Consumed) = Taken(result')
    BY <1>4, <2>1 DEF Gathered, Carried
  <2>3. Taken(result') \in Seq(Pieces)
    BY <1>1, TakenType
  <2> QED BY <2>1, <2>2, <2>3, NoNothing
<1> QED BY <1>1, <1>3, <1>5, <1>6 DEF Gathered, Expected, Sorted

LEMMA SetNameKeeps ==
  ASSUME IInv, Gathered, SetName
  PROVE  Gathered'
<1> DEFINE x == Do("setname")
           t == result.type
           v == Append(result.values, [name |-> ident, value |-> Junk])
<1>1. /\ At(x) /\ x # Do("start") /\ accept("=") /\ Go(<<>>) /\ outcome' = outcome
      /\ result' = [result EXCEPT !["values"] = v]
  BY DEF SetName, Do
<1>2. /\ LexOK /\ Ahead /\ Shaped(result) /\ t = "update" /\ ~IsWord(x)
      /\ Blank(result, Rank(x, t))
  BY <1>1, Gathering, SuitDeeds, Kinds
<1>3. Rank(x, t) = 3
  BY Ranks
<1>4. Top(x, t) = 3
  BY <1>3, Tops DEF Do
<1>5. Placed("values", t, Top(x, t))
  BY <1>2, <1>4 DEF Placed
<1>6. result'.type = t /\ Behind(x, result, result')
  BY <1>1, <1>2, <1>5, BehindField
<1>7. /\ v \in Seq(SetOf) /\ v # <<>> /\ v[Len(v)] = [name |-> ident, value |-> Junk]
      /\ SetPieces(v) = SetPieces(result.values) \o <<IdentPiece(ident)>>
  <2>1. result \in UpdateQueries
    BY <1>2, ShapeOf
  <2>2. result.values \in Seq(SetOf)
    BY <2>1 DEF UpdateQueries
  <2> QED BY <1>2, <2>2, OfIdent, SetsGrow
<1>8. v[Len(v)].value = Junk
  BY <1>7
<1> HIDE DEF v
<1>9. Shaped(result') /\ Taken(result') = Taken(result) \o <<IdentPiece(ident)>>
  <2>1. <<IdentPiece(ident)>> \in Seq(Pieces)
    BY <1>2, OfIdent, PieceTypes
  <2>2. Blank(result, 6)
    BY <1>2, <1>3, BlankLater
  <2> QED BY <1>1, <1>2, <1>7, <2>1, <2>2, TakeSets
<1>10. \A g \in DOMAIN result : g # "values" => result'[g] = result[g]
  BY <1>1
<1>11. "values" \in DOMAIN result /\ result'.values = v /\ result'.tablename = result.tablename
         /\ result'.condname = result.condname
  <2>1. {"values", "tablename", "condname"} \subseteq DOMAIN result
    BY <1>2, FieldsOf DEF Conditional
  <2> QED BY <1>1, <1>10, <2>1
<1>12. Onto(x, <<>>)
  <2>1. x \notin Enders
    BY DEF Enders, Do
  <2>2. <<>> \in Seq(Item) /\ Ranked(<<>>, x, result')
    BY RankedNone
  <2> QED BY <1>1, <1>6, <1>9, <2>1, <2>2 DEF Onto
<1>13. ValueDue'
  <2>1. Unvalued(result')
    BY <1>7, <1>8, <1>11 DEF Unvalued
  <2>2. 1 .. Len(<<>>) = {}
    BY NothingToCome
  <2> QED BY <1>12, <2>1, <2>2, DueKept
<1>14. Named'
  <2>1. CondOK(<<>>)
    BY NoneSet DEF NoSet
  <2>2. x \notin {Name("tablename"), Name("name"), Name("condname"), Do("condname")}
    BY DEF Name, Do
  <2>3. ~hasErrors' => ~hasErrors
    BY <1>1 DEF accept
  <2> QED BY <1>2, <1>11, <1>12, <2>1, <2>2, <2>3, NamedKept
<1> QED BY <1>1, <1>9, <1>12, <1>13, <1>14, HeldStep

LEMMA UpdateCondNameKeeps ==
  ASSUME IInv, Gathered, UpdateCondName
  PROVE  Gathered'
<1> DEFINE x == Do("condname")
           t == result.type
<1>1. /\ At(x) /\ x # Do("start") /\ accept("=") /\ Go(<<>>) /\ outcome' = outcome
      /\ result' = [result EXCEPT !["condname"] = ident]
  BY DEF UpdateCondName, Do
<1>2. /\ LexOK /\ Ahead /\ Shaped(result) /\ t = "update" /\ ~IsWord(x)
      /\ Blank(result, Rank(x, t))
  BY <1>1, Gathering, SuitDeeds, Kinds
<1>3. Rank(x, t) = 6
  BY Ranks
<1>4. Top(x, t) = 6
  BY <1>3, Tops DEF Do
<1>5. Placed("condname", t, Top(x, t))
  BY <1>4 DEF Placed
<1>6. result'.type = t /\ Behind(x, result, result')
  BY <1>1, <1>2, <1>5, BehindField
<1>7. ~hasErrors /\ symbol = "=" => ident \in Names
  BY <1>1, Started DEF Begun, WhereOK
<1>8. /\ Shaped(result')
      /\ ident # NoName => Taken(result') = Taken(result) \o <<IdentPiece(ident)>>
  <2>1. t \in Conditional
    BY <1>2 DEF Conditional
  <2> QED BY <1>1, <1>2, <1>3, <2>1, OfIdent, TakeCondName
<1>9. \A g \in DOMAIN result : g # "condname" => result'[g] = result[g]
  BY <1>1
<1>10. /\ result'.values = result.values /\ result'.tablename = result.tablename
       /\ result'.condname = ident
  <2>1. {"values", "tablename", "condname"} \subseteq DOMAIN result
    BY <1>2, FieldsOf DEF Conditional
  <2> QED BY <1>1, <1>9, <2>1
<1>11. Onto(x, <<>>)
  <2>1. x \notin Enders
    BY DEF Enders, Do
  <2>2. <<>> \in Seq(Item) /\ Ranked(<<>>, x, result')
    BY RankedNone
  <2> QED BY <1>1, <1>6, <1>8, <2>1, <2>2 DEF Onto
<1>12. ValueDue'
  <2>1. Unvalued(result') <=> Unvalued(result)
    BY <1>10 DEF Unvalued
  <2>2. 1 .. Len(<<>>) = {}
    BY NothingToCome
  <2>3. x # Do("setname")
    BY DEF Do
  <2> QED BY <1>11, <2>1, <2>2, <2>3, DueKept
<1>13. Named'
  <2>1. CondOK(<<>>)
    BY NoneSet DEF NoSet
  <2>2. x \notin {Name("tablename"), Name("name")}
    BY DEF Name, Do
  <2>3. ~hasErrors' => ~hasErrors /\ symbol = "="
    BY <1>1 DEF accept
  <2> QED BY <1>2, <1>7, <1>10, <1>11, <2>1, <2>2, <2>3, NamedKept
<1> QED BY <1>1, <1>7, <1>8, <1>11, <1>12, <1>13, HeldStep, ParserAssumption

(* The name of an assignment is still to be put into the query. *)
LEMMA SetsKeeps ==
  ASSUME IInv, Gathered, Sets
  PROVE  Gathered'
<1> DEFINE x == Loop("sets")
           n == Do("setname")
           v == Do("setvalue")
           c == <<"comma", "sets">>
           items == <<n, v, c>>
           t == result.type
<1>1. Ordinarily(x) /\ At(x) /\ result' = result /\ outcome' = outcome /\ accept("Ident") /\ Go(items)
  BY OrdinarilyIs DEF Sets
<1>2. "sets" \in Loops /\ x \in Both("sets") /\ c \in Both("sets")
  BY DEF Loops, Both
<1>3. /\ LexOK /\ Ahead /\ Shaped(result) /\ t = "update"
      /\ ~IsWord(x) => Blank(result, Rank(x, t))
  BY <1>1, <1>2, Gathering, SuitLoops DEF Ordinarily
<1>4. /\ Rank(x, t) = 5 /\ Rank(n, t) = 3 /\ Rank(v, t) = 4 /\ Rank(c, t) = 5
      /\ ~IsWord(x) /\ ~IsWord(n) /\ ~IsWord(v) /\ ~IsWord(c)
  BY <1>2, Ranks, Kinds
<1>5. Top(x, t) = 5 /\ Top(n, t) = 3 /\ Top(v, t) = 4 /\ Top(c, t) = 5
  BY <1>2, <1>4, LoopComma, Tops DEF Do
<1>6. Blank(result, 5) /\ Blank(result, 3) /\ Blank(result, 4)
  BY <1>3, <1>4, BlankNear
<1>7. Suits(n, t) /\ Suits(v, t) /\ Suits(c, t)
  BY <1>2, <1>3, SuitDeeds, SuitLoops
<1>8. Expects(n, result) /\ Expects(v, result) /\ Expects(c, result)
  <2>1. Expects(n, result)
    BY <1>4, <1>6, <1>7, Distinct, ExpectsIs
  <2>2. Expects(v, result)
    BY <1>4, <1>6, <1>7, Distinct, ExpectsIs
  <2>3. Expects(c, result)
    BY <1>4, <1>6, <1>7, Distinct, ExpectsIs
  <2> QED BY <2>1, <2>2, <2>3
<1>9. /\ Replaces(n, x, t) /\ Replaces(v, x, t) /\ Replaces(c, x, t)
      /\ Before(n, v, t) /\ Before(n, c, t) /\ Before(v, c, t)
  BY <1>4, <1>5 DEF Replaces, Before
<1>10. Ranked(items, x, result)
  BY <1>8, <1>9, RankedThree
<1>11. /\ items \in Seq(Item) /\ Len(items) = 3 /\ items[1] = n /\ items[2] = v /\ items[3] = c
       /\ items # <<>>
  <2>1. n \in Item /\ v \in Item /\ c \in Item
    BY <1>2, Items DEF Deeds
  <2> QED BY <2>1
<1> HIDE DEF items
<1>12. Onto(x, items)
  BY <1>1, <1>3, <1>10, <1>11 DEF Onto, Behind, Ordinarily
<1>13. Expected(todo', result') /\ Sorted(todo', result'.type)
  BY <1>12, OntoOrder
<1>14. At(n)' /\ Held'
  BY <1>11, <1>12, TodoNext DEF Held, At
<1>15. ValueDue'
  <2> SUFFICES ASSUME NEW k \in 1 .. Len(todo'), todo'[k] = n PROVE k = 1
    BY <1>14 DEF ValueDue
  <2>1. CASE k \in 1 .. Len(items) /\ todo'[k] = items[k]
    <3>1. n # v /\ n # c
      BY DEF Do
    <3>2. k = 1 \/ k = 2 \/ k = 3
      BY <1>11, <2>1
    <3> QED BY <1>11, <2>1, <3>1, <3>2
  <2>2. ASSUME NEW j \in 2 .. Len(todo), todo'[k] = todo[j]
        PROVE  FALSE
    <3>1. j \in 1 .. Len(todo) /\ j # 1
      BY <1>12, TodoNext
    <3> QED BY <2>2, <3>1 DEF Gathered, ValueDue
  <2> QED BY <1>12, <2>1, <2>2, WhichCall
<1>16. /\ Ahead' /\ Brings(<<IdentPiece(ident)>>)
       /\ ~hasErrors' => ~hasErrors /\ symbol = "Ident" /\ ident \in Names
  BY <1>1, <1>3, IdentBrings
<1>17. Named'
  <2>1. x \notin {Name("tablename"), Name("name"), Name("condname"), Do("condname")}
    BY DEF Name, Loop, Do
  <2>2. Do("condvalue") \notin {n, v, c}
    BY DEF Do
  <2>3. ASSUME NEW k \in 1 .. Len(items) PROVE items[k] # Do("condvalue")
    <3>1. k = 1 \/ k = 2 \/ k = 3
      BY <1>11
    <3> QED BY <1>11, <2>2, <3>1
  <2>4. CondOK(items)
    BY <2>3 DEF CondOK, ToCome
  <2> QED BY <1>1, <1>12, <1>16, <2>1, <2>4, NamedKept
<1>18. Carried'
  <2>1. ~hasErrors' => (symbol' = "=" => ident' = ident)
    BY <1>1, <1>3, AcceptLexes DEF Passing, Reading
  <2>2. ~Held
    BY <1>1 DEF Ordinarily, Held, At
  <2> SUFFICES ASSUME ~hasErrors', ~Lost', symbol' = "="
               PROVE  Atoms(Consumed') = Taken(result') \o <<IdentPiece(ident')>>
    BY <1>14 DEF Carried, Atoms
  <2>3. ~hasErrors /\ ~Lost /\ Atoms(Consumed') = Atoms(Consumed) \o <<IdentPiece(ident)>>
    BY <1>16 DEF Brings
  <2>4. Atoms(Consumed) = Taken(result)
    BY <2>2, <2>3 DEF Gathered, Carried
  <2> QED BY <1>1, <2>1, <2>3, <2>4
<1> QED BY <1>1, <1>3, <1>13, <1>15, <1>16, <1>17, <1>18 DEF Gathered, Expected, Sorted

-----------------------------------------------------------------------------
(* Every step keeps what a statement has said. *)

LEMMA OnlyStart ==
  ASSUME Untouched, Step
  PROVE  Start
<1>1. Head(todo) = <<"do", "start">>
  BY DEF Untouched, Do
<1>2. /\ \A y : y # "start" => ~At(Do(y))
      /\ \A y : ~At(Loop(y)) /\ ~At(<<"comma", y>>)
  BY <1>1 DEF At, Do, Loop
<1>3. ~Statement /\ ~NoStatement
  BY <1>2 DEF Statement, Begin, NoStatement
<1>4. ~Accept /\ ~TakeName
  BY <1>1 DEF Accept, TakeName
<1>5. ~CondValue /\ ~SetValue /\ ~AssertFails
  BY <1>2 DEF CondValue, SetValue, AssertFails
<1>6. ~(\E x \in Loops : LeaveLoop(x) \/ Comma(x))
  BY <1>2 DEF LeaveLoop, Comma
<1>7. ~Cols /\ ~Values /\ ~Columns /\ ~IndexCols /\ ~Sets /\ ~SetName
  BY <1>2 DEF Cols, Values, Columns, IndexCols, Sets, SetName
<1>8. ~Pairs /\ ~SelectColumns /\ ~Where /\ ~UpdateTable /\ ~UpdateWhere
  BY <1>2 DEF Pairs, SelectColumns, Where, UpdateTable, UpdateWhere
<1>9. /\ ~Condition /\ ~UpdateCondName
      /\ ~Create(NewTable, CreateTable, {"table"})
      /\ ~Create(NewIndex, CreateIndex, {"index", "unique"})
  BY <1>2 DEF Condition, UpdateCondName, Create
<1>10. ~ColumnType /\ ~Length /\ ~Unique /\ ~Order /\ ~Method /\ ~Return
  BY <1>2 DEF ColumnType, Length, Unique, Order, Method, Return
<1> QED BY <1>3, <1>4, <1>5, <1>6, <1>7, <1>8, <1>9, <1>10 DEF Step

LEMMA StartsUntouched ==
  ASSUME IInv, Start
  PROVE  Untouched
<1>1. Do("start") \notin Item
  BY DEF Item, Do, Deeds
<1>2. Begun => Head(todo) \in Item
  <2> SUFFICES ASSUME Begun PROVE Head(todo) \in Item
    OBVIOUS
  <2>1. todo \in Seq(Item) /\ todo # <<>>
    BY DEF Begun, Plan, Start, At
  <2> QED BY <2>1, HeadTailProperties
<1> QED BY <1>1, <1>2 DEF IInv, Start, At, Unstarted, Untouched

LEMMA GatheredStutter ==
  ASSUME GInv, UNCHANGED vars
  PROVE  GInv'
<1>1. UNCHANGED lexer /\ UNCHANGED <<hasErrors, todo, result, outcome>>
  BY DEF vars
<1>2. CASE Untouched
  BY <1>1, <1>2 DEF Untouched, GInv, lexer
<1>3. CASE Gathered
  <2>1. Shaped(result') /\ Expected(todo', result') /\ Sorted(todo', result'.type)
    BY <1>1, <1>3 DEF Gathered
  <2>2. ValueDue' /\ Named'
    BY <1>1, <1>3 DEF Gathered, ValueDue, Named, At, Unvalued, ToCome, CondNameToCome
  <2>3. Ahead'
    BY <1>1, <1>3 DEF Gathered, Ahead, lexer
  <2>4. Carried'
    BY <1>1, <1>3 DEF Gathered, Carried, Lost, ZeroLength, Consumed, Held, At, lexer
  <2> QED BY <2>1, <2>2, <2>3, <2>4 DEF GInv, Gathered, Expected, Sorted
<1> QED BY <1>2, <1>3 DEF GInv

LEMMA GatheredNextOK ==
  ASSUME IInv, GInv, [Step]_vars
  PROVE  GInv'
<1>1. CASE Start
  BY <1>1, StartsUntouched, StartKeeps DEF GInv
<1>2. CASE UNCHANGED vars
  BY <1>2, GatheredStutter
<1>3. CASE ~Start /\ Step
  <2>1. Gathered
    BY <1>3, OnlyStart DEF GInv
  <2> SUFFICES Gathered'
    BY DEF GInv
  <2>2. CASE Statement \/ NoStatement
    BY <2>1, <2>2, StatementKeeps, NoStatementKeeps
  <2>3. CASE Accept \/ TakeName
    BY <2>1, <2>3, AcceptKeeps, TakeNameKeeps
  <2>4. CASE CondValue \/ SetValue \/ AssertFails
    BY <2>1, <2>4, CondValueKeeps, SetValueKeeps, AssertFailsKeeps
  <2>5. CASE \E x \in Loops : LeaveLoop(x) \/ Comma(x)
    BY <2>1, <2>5, LeaveLoopKeeps, CommaKeeps
  <2>6. CASE Cols \/ Values \/ Columns \/ IndexCols
    BY <2>1, <2>6, ColsKeeps, ValuesKeeps, ColumnsKeeps, IndexColsKeeps
  <2>7. CASE Sets \/ SetName
    BY <2>1, <2>7, SetsKeeps, SetNameKeeps
  <2>8. CASE Pairs \/ SelectColumns \/ UpdateTable
    BY <2>1, <2>8, PairsKeeps, SelectColumnsKeeps, UpdateTableKeeps
  <2>9. CASE Where \/ UpdateWhere \/ Condition \/ UpdateCondName
    BY <2>1, <2>9, WhereKeeps, UpdateWhereKeeps, ConditionKeeps, UpdateCondNameKeeps
  <2>10. CASE \/ Create(NewTable, CreateTable, {"table"})
              \/ Create(NewIndex, CreateIndex, {"index", "unique"})
    BY <2>1, <2>10, CreateTableKeeps, CreateIndexKeeps
  <2>11. CASE ColumnType \/ Length
    BY <2>1, <2>11, ColumnTypeKeeps, LengthKeeps
  <2>12. CASE Unique \/ Order \/ Method
    BY <2>1, <2>12, UniqueKeeps, OrderKeeps, MethodKeeps
  <2>13. CASE Return
    BY <2>1, <2>13, ReturnKeeps
  <2> QED BY <1>3, <2>2, <2>3, <2>4, <2>5, <2>6, <2>7, <2>8, <2>9, <2>10, <2>11, <2>12, <2>13
          DEF Step
<1> QED BY <1>1, <1>2, <1>3

LEMMA GatheredInvariant == Spec => []GInv
<1>1. Init => GInv
  BY DEF Init, GInv, Untouched
<1>2. IInv /\ GInv /\ [Step]_vars => GInv'
  BY GatheredNextOK
<1> QED BY <1>1, <1>2, Invariant, PTL DEF Spec

(* A query with its names has them among what it says. *)
LEMMA TakenIsSaid ==
  ASSUME NEW q, Shaped(q), q.type # "none", q.tablename # NoName,
         q.type = "createindex" => q.name # NoName
  PROVE  Taken(q) = QueryAtoms(q)
<1>1. q.type \in {"insert", "select", "update", "delete", "createtable", "createindex"}
  BY FieldsOf
<1>2. NamePart(q.tablename) = <<IdentPiece(q.tablename)>>
  BY DEF NamePart
<1>3. CASE q.type = "createindex"
  <2>1. NamePart(q.name) = <<IdentPiece(q.name)>>
    BY <1>3 DEF NamePart
  <2>2. PICK a, b \in Pieces : a = IdentPiece(q.name) /\ b = IdentPiece(q.tablename)
    <3>1. q \in IndexQueries
      BY <1>3, ShapeOf
    <3> QED BY <3>1, PieceTypes DEF IndexQueries
  <2>3. <<a>> \in Seq(Pieces)
    OBVIOUS
  <2>4. <<a>> \o <<b>> = Append(<<a>>, b)
    BY <2>3, AppendIsConcat
  <2>5. <<a>> \o <<b>> = <<a, b>>
    <3> DEFINE s == Append(<<a>>, b)
    <3>1. s \in Seq(Pieces) /\ <<a, b>> \in Seq(Pieces) /\ Len(<<a, b>>) = 2
      BY <2>3, AppendProperties
    <3>2. Len(s) = 2 /\ s[1] = a /\ s[2] = b
      BY <2>3, AppendProperties
    <3> HIDE DEF s
    <3>3. s = <<a, b>>
      BY <3>1, <3>2, SeqEqual
    <3> QED BY <2>4, <3>3 DEF s
  <2> QED BY <1>2, <1>3, <2>1, <2>2, <2>5 DEF Taken, QueryAtoms
<1>4. CASE q.type # "createindex"
  BY <1>1, <1>2, <1>4 DEF Taken, QueryAtoms
<1> QED BY <1>3, <1>4

(* An accepted statement carries every name and every constant that was read *)
(* for it, each with its sign, in its place and once, and no other; where an *)
(* int holds every number of the statement, and no length is 0.              *)
THEOREM AtomsAreKept == Spec => []AtomsKept
<1>1. IInv /\ GInv => AtomsKept
  <2> SUFFICES ASSUME IInv, GInv, outcome = "query", ~Lost
               PROVE  QueryAtoms(result) = Atoms(Consumed)
    BY DEF AtomsKept, Lost
  <2>1. Begun
    BY DEF IInv, Unstarted
  <2>2. todo = <<>> /\ ~hasErrors
    BY <2>1 DEF Begun, EndOK
  <2>3. Gathered /\ ~Held
    BY <2>2 DEF GInv, Untouched, Held, At
  <2>4. Atoms(Consumed) = Taken(result)
    BY <2>2, <2>3 DEF Gathered, Carried
  <2>5. 1 .. Len(todo) = {}
    BY <2>2, NothingToCome
  <2>6. /\ result.type # "none" /\ result.tablename \in Names
        /\ result.type = "createindex" => result.name \in Names
    BY <2>2, <2>3, <2>5 DEF Gathered, Named, ToCome
  <2>7. Taken(result) = QueryAtoms(result)
    BY <2>3, <2>6, TakenIsSaid, ParserAssumption DEF Gathered
  <2> QED BY <2>4, <2>7
<1> QED BY <1>1, Invariant, GatheredInvariant, PTL
=============================================================================

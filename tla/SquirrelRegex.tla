---------------------------- MODULE SquirrelRegex ----------------------------
(***************************************************************************)
(* The regular expressions of the string library: the compiler, a parser   *)
(* by recursive descent that builds nodes, and the matcher, which never    *)
(* takes back what it has matched but looks one node ahead while it        *)
(* repeats.  A pattern is a sequence of tokens, each a character, or a     *)
(* number; "" is its end.  Node n here is n - 1 in the code, 0 is -1, and  *)
(* NULL, a position in no text, is -1.  Left out: \b and \B, and patterns  *)
(* that are empty or end in a backslash.                                   *)
(***************************************************************************)
EXTENDS SquirrelPattern

CONSTANTS Pattern,      \* records: tokens, and the list they stand for, or <<>>
          Texts,        \* sequences of characters
          MaxCalls      \* of match and search, of one expression

VARIABLES pattern, exp, call, calls

vars == <<pattern, exp, call, calls>>

NULL == -1
NoMatch == [begin |-> NULL, len |-> 0]

-----------------------------------------------------------------------------
(* The compiler.  node is the one that the last function has returned.     *)
Ahead(e, k) == IF e.p + k > Len(e.tokens) THEN "" ELSE e.tokens[e.p + k]
Ch(e) == Ahead(e, 0)
Skip(e, k) == [e EXCEPT !.p = @ + k]

Error(e) == [e EXCEPT !.failed = TRUE]

Expect(e, c) == IF Ch(e) = c THEN Skip(e, 1) ELSE Error(e)

NewNode(e, type, left, right) ==
    [e EXCEPT !.nodes = Append(@, [type |-> type, left |-> left, next |-> 0,
                                   right |-> IF type = "OP_EXPR" THEN e.nsubexpr ELSE right]),
              !.nsubexpr = IF type = "OP_EXPR" THEN @ + 1 ELSE @,
              !.node = Len(e.nodes) + 1]

Link(e, n, next) == [e EXCEPT !.nodes[n].next = next]

CharNode(e) ==
    LET escaped == Ahead(e, 1)
        open    == Ahead(e, 2)
        close   == Ahead(e, 3)
    IN  IF Ch(e) = "" THEN Error(e)
        ELSE IF Ch(e) # "\\" THEN NewNode(Skip(e, 1), Ch(e), 0, 0)
        ELSE IF escaped \in Classes THEN NewNode(Skip(e, 2), "OP_CCLASS", escaped, 0)
        ELSE IF escaped # "m" THEN NewNode(Skip(e, 2), escaped, 0, 0)
        ELSE IF "" \in {open, close} \/ open = close THEN Error(e)
        ELSE NewNode(Skip(e, 4), "OP_MB", open, close)

EscapeChar(e) ==
    IF Ch(e) = "\\" THEN [char |-> Ahead(e, 1), width |-> 2] ELSE [char |-> Ch(e), width |-> 1]

(* The items of a class up to its bracket, linked to chain.  first is the  *)
(* item read last, which may yet turn out to begin a range.                *)
RECURSIVE ClassItems(_, _, _)
ClassItems(e, chain, first) ==
    LET linked == IF first = 0 THEN e ELSE Link(e, chain, first)
        item   == CharNode(linked)
        begin  == e.nodes[first].type
        to     == EscapeChar(Skip(e, 1))
        range  == NewNode(Skip(e, 1 + to.width), "OP_RANGE", begin, to.char)
    IN  IF e.failed THEN e
        ELSE IF Ch(e) = "]" THEN linked
        ELSE IF Ch(e) = "-" /\ first # 0
        THEN IF begin = "OP_CCLASS" \/ Chr(begin) > Chr(Ahead(e, 1)) \/ to.char = "" THEN Error(e)
             ELSE ClassItems(Link(range, chain, range.node), range.node, 0)
        ELSE ClassItems(item, IF first = 0 THEN chain ELSE first, item.node)

Class(e) ==
    LET c == IF Ch(e) = "^" THEN NewNode(Skip(e, 1), "OP_NCLASS", 0, 0) ELSE NewNode(e, "OP_CLASS", 0, 0)
        d == ClassItems(c, c.node, 0)
    IN  IF Ch(c) = "]" THEN Error(c)
        ELSE [d EXCEPT !.nodes[c.node].left = d.nodes[c.node].next, !.nodes[c.node].next = 0, !.node = c.node]

(* How often an element is repeated, and in how many tokens that is said.  *)
Number == Digit
NumberOf(t) == CHOOSE n \in 0 .. 3 : ToString(n) = t

Bounds(e) ==
    CASE Ch(e) = "*" -> << 0, Unbounded, 1 >>
      [] Ch(e) = "+" -> << 1, Unbounded, 1 >>
      [] Ch(e) = "?" -> << 0, 1, 1 >>
      [] Ch(e) = "{" /\ Ahead(e, 1) \in Number ->
            LET lo == NumberOf(Ahead(e, 1))
            IN  CASE Ahead(e, 2) = "}" -> << lo, lo, 3 >>
                  [] Ahead(e, 2) = "," /\ Ahead(e, 3) = "}" -> << lo, Unbounded, 4 >>
                  [] Ahead(e, 2) = "," /\ Ahead(e, 3) \in Number /\ Ahead(e, 4) = "}" -> << lo, NumberOf(Ahead(e, 3)), 5 >>
                  [] OTHER -> <<>>
      [] OTHER -> <<>>

Repeat(e) ==
    LET b == Bounds(e)
    IN  IF e.failed THEN e
        ELSE IF b # <<>> THEN NewNode(Skip(e, b[3]), "OP_GREEDY", e.node, << b[1], b[2] >>)
        ELSE IF Ch(e) = "{" THEN Error(e) ELSE e

RECURSIVE Element(_), RexList(_)
Close(l, g) == [Expect(l, ")") EXCEPT !.nodes[g].left = l.node, !.node = g]

Group(e) ==
    LET d == IF Ch(e) = "?" THEN Expect(Skip(e, 1), ":") ELSE e
    IN  Close(RexList(NewNode(d, IF Ch(e) = "?" THEN "OP_NOCAPEXPR" ELSE "OP_EXPR", 0, 0)), Len(e.nodes) + 1)

(* What a list does with its element, and an element with the next one.    *)
Before(n, rest) == [Link(rest, n, rest.node) EXCEPT !.node = n]

Rest(e) ==
    IF e.failed \/ Ch(e) \in {"|", ")", "*", "+", ""} THEN e ELSE Before(e.node, Element(e))

Element(e) ==
    IF e.failed THEN e
    ELSE Rest(Repeat(CASE Ch(e) = "(" -> Group(Skip(e, 1))
                       [] Ch(e) = "[" -> Expect(Class(Skip(e, 1)), "]")
                       [] Ch(e) = "$" -> NewNode(Skip(e, 1), "OP_EOL", 0, 0)
                       [] Ch(e) = "." -> NewNode(Skip(e, 1), "OP_DOT", 0, 0)
                       [] OTHER -> CharNode(e)))

Right(n, e) == [e EXCEPT !.nodes[n].right = e.node, !.node = n]

Branch(e) ==
    IF e.failed \/ Ch(e) # "|" THEN e
    ELSE Right(Len(e.nodes) + 1, RexList(NewNode(Skip(e, 1), "OP_OR", e.node, 0)))

RexList(e) ==
    Branch(IF Ch(e) = "^" THEN Before(Len(e.nodes) + 1, Element(NewNode(Skip(e, 1), "OP_BOL", 0, 0))) ELSE Element(e))

Compiled(e) ==
    IF e.failed \/ Ch(e) # "" THEN [failed |-> TRUE]
    ELSE [failed |-> FALSE, nodes |-> [e.nodes EXCEPT ![1].left = e.node], text |-> <<>>, currsubexp |-> 0,
          matches |-> [k \in 1 .. e.nsubexpr |-> NoMatch], at |-> NULL]

Compile(tokens) ==
    Compiled(RexList(NewNode([tokens |-> tokens, p |-> 1, nodes |-> <<>>, nsubexpr |-> 0, failed |-> FALSE, node |-> 0],
                             "OP_EXPR", 0, 0)))

-----------------------------------------------------------------------------
(* The matcher.  at is the position after what was matched, or NULL.       *)
At(x, s) == [x EXCEPT !.at = s]

RECURSIVE MatchClass(_, _, _)
MatchClass(x, n, c) ==
    LET node == x.nodes[n]
    IN  \/ CASE node.type = "OP_RANGE" -> Chr(c) \in Chr(node.left) .. Chr(node.right)
             [] node.type = "OP_CCLASS" -> InClass(node.left, c)
             [] OTHER -> c = node.type
        \/ node.next # 0 /\ MatchClass(x, node.next, c)

MatchChar(x, n, c) ==
    LET node == x.nodes[n]
    IN  CASE node.type = "OP_DOT" -> TRUE
          [] node.type = "OP_CLASS" -> MatchClass(x, node.left, c)
          [] node.type = "OP_NCLASS" -> ~MatchClass(x, node.left, c)
          [] node.type = "OP_CCLASS" -> InClass(node.left, c)
          [] OTHER -> c = node.type

RECURSIVE MatchBalanced(_, _, _, _)
MatchBalanced(x, node, s, cont) ==
    IF s >= Len(x.text) THEN NULL
    ELSE IF x.text[s + 1] = node.right THEN IF cont = 1 THEN s + 1 ELSE MatchBalanced(x, node, s + 1, cont - 1)
    ELSE MatchBalanced(x, node, s + 1, IF x.text[s + 1] = node.left THEN cont + 1 ELSE cont)

Enough(node, n) == n >= node.right[1] /\ (node.right[2] = Unbounded \/ n <= node.right[2])

(* Whether a repetition looks if what comes behind it matches already.     *)
FaultyLooksAhead(x, stop) == stop # 0
LooksAhead(x, stop) == stop # 0 /\ ~(x.nodes[stop].type = "OP_GREEDY" /\ x.nodes[stop].right[1] = 0)

RECURSIVE MatchNode(_, _, _, _), Greedy(_, _, _, _, _), Chain(_, _, _), Inside(_, _, _, _)
Stop(x, n, next) == IF x.nodes[n].next # 0 THEN x.nodes[n].next ELSE next
GreedyEnd(x, n, s, nmatches) == At(x, IF Enough(x.nodes[n], nmatches) THEN s ELSE NULL)

Again(x, n, s, nmatches, next) ==
    IF (x.at # NULL /\ Enough(x.nodes[n], nmatches)) \/ s >= Len(x.text) THEN GreedyEnd(x, n, s, nmatches)
    ELSE Greedy(x, n, s, nmatches, next)

LookAhead(x, stop, next) ==
    IF ~LooksAhead(x, stop) THEN At(x, NULL)
    ELSE MatchNode(x, stop, x.at, IF x.nodes[stop].next = 0 /\ next # 0 THEN x.nodes[next].next ELSE x.nodes[stop].next)

Matched(x, n, s, nmatches, next) ==
    IF x.at = NULL THEN GreedyEnd(x, n, s, nmatches)
    ELSE Again(LookAhead(x, Stop(x, n, next), next), n, x.at, nmatches + 1, next)

Greedy(x, n, s, nmatches, next) ==
    LET most == x.nodes[n].right[2]
    IN  IF nmatches # Unbounded /\ nmatches >= most THEN GreedyEnd(x, n, s, nmatches)
        ELSE Matched(MatchNode(x, x.nodes[n].left, s, Stop(x, n, next)), n, s, nmatches, next)

(* The nodes of a branch, which do not see what comes behind the branches. *)
NextOf(x, n) == IF x.at = NULL \/ x.nodes[n].next = 0 THEN x ELSE Chain(x, x.nodes[n].next, x.at)
Chain(x, n, s) == NextOf(MatchNode(x, n, s, 0), n)

OrElse(x, n, s) == IF x.at # NULL THEN x ELSE Chain(x, n, s)

(* The nodes of a group, and what it captures.                             *)
Onward(x, n, next) == IF x.at = NULL \/ x.nodes[n].next = 0 THEN x ELSE Inside(x, x.nodes[n].next, x.at, next)
Inside(x, n, s, next) == Onward(MatchNode(x, n, s, Stop(x, n, next)), n, next)

Uncaptured(x, currsubexp) == IF x.at = NULL THEN x ELSE [x EXCEPT !.currsubexp = currsubexp]

Captured(x, k) ==
    IF x.at = NULL THEN [x EXCEPT !.matches[k + 1] = NoMatch]
    ELSE [x EXCEPT !.currsubexp = k + 1, !.matches[k + 1].len = x.at - x.matches[k + 1].begin]

MatchExpr(x, node, s, next) ==
    IF node.type = "OP_EXPR" /\ node.right = x.currsubexp
    THEN Captured(Inside([x EXCEPT !.matches[x.currsubexp + 1].begin = s, !.currsubexp = @ + 1], node.left, s, next), x.currsubexp)
    ELSE Uncaptured(Inside(x, node.left, s, next), x.currsubexp)

MatchNode(x, n, s, next) ==
    LET node == x.nodes[n]
        eol  == Len(x.text)
    IN  CASE node.type = "OP_GREEDY" -> Greedy(x, n, s, 0, next)
          [] node.type = "OP_OR" -> OrElse(Chain(x, node.left, s), node.right, s)
          [] node.type \in {"OP_EXPR", "OP_NOCAPEXPR"} -> MatchExpr(x, node, s, next)
          [] node.type = "OP_BOL" -> At(x, IF s = 0 THEN s ELSE NULL)
          [] node.type = "OP_EOL" -> At(x, IF s = eol THEN s ELSE NULL)
          [] node.type = "OP_MB" ->
                At(x, IF s < eol /\ x.text[s + 1] = node.left THEN MatchBalanced(x, node, s + 1, 1) ELSE NULL)
          [] OTHER -> At(x, IF s = eol THEN NULL ELSE IF MatchChar(x, n, x.text[s + 1]) THEN s + 1 ELSE NULL)

RECURSIVE SearchFrom(_, _)
Tried(x, b) == IF x.at # NULL \/ b + 1 = Len(x.text) THEN [x |-> x, begin |-> b] ELSE SearchFrom(x, b + 1)
SearchFrom(x, b) == Tried(MatchNode([x EXCEPT !.currsubexp = 0], 1, b, 0), b)
SearchRange(x) == IF x.text = <<>> THEN [x |-> At(x, NULL), begin |-> 0] ELSE SearchFrom(x, 0)

-----------------------------------------------------------------------------
(* An expression is compiled once, and then used.                          *)
NoCall == [kind |-> "none"]

Init ==
    /\ pattern \in Pattern
    /\ exp = Compile(pattern.tokens)
    /\ call = NoCall
    /\ calls = 0

Used == ~exp.failed /\ calls < MaxCalls /\ calls' = calls + 1 /\ UNCHANGED pattern

Match(text) ==
    /\ Used
    /\ exp' = MatchNode([exp EXCEPT !.text = text, !.currsubexp = 0], 1, 0, 0)
    /\ call' = [kind |-> "match", text |-> text, found |-> exp'.at = Len(text)]

Search(text) ==
    /\ Used
    /\ \E r \in { SearchRange([exp EXCEPT !.text = text]) } :
           /\ exp' = r.x
           /\ call' = [kind |-> "search", text |-> text, found |-> r.x.at # NULL, begin |-> r.begin, end |-> r.x.at]

Next == \E text \in Texts : Match(text) \/ Search(text)

-----------------------------------------------------------------------------
(* What is found is there: an expression is refused exactly when no list is*)
(* written like that; a text that matches is one that the list stands for, *)
(* and what a search finds is part of one; the first capture is the whole. *)
(* Nothing is missed, and a search finds the leftmost, if each choice is   *)
(* decided by the next character, or, in a search, if all that comes behind*)
(* repeated characters, at least one, is another.                          *)
Char == UNION { Range(text) : text \in Texts }

Lazy(list) ==
    LET es == list[1]
        One(e) == e[1] \in {"char", "any", "is", "class"}
    IN  /\ Len(list) = 1 /\ Len(es) = 2 /\ One(es[2])
        /\ es[1][1] = "rep" /\ es[1][3] > 0 /\ One(es[1][2])

Meets(text, i) == ListEnds(pattern.list, text, i)

MatchExact ==
    LET whole == Len(call.text) \in Meets(call.text, 0)
    IN  (call.found => whole) /\ (Plain(pattern.list, {}, Char) => (whole => call.found))

SearchExact ==
    /\ call.found =>
          /\ call.end \in Meets(call.text, call.begin)
          /\ exp.matches[1] = [begin |-> call.begin, len |-> call.end - call.begin]
    /\ Plain(pattern.list, {}, Char) \/ Lazy(pattern.list) =>
          \A i \in 0 .. Len(call.text) - 1 : Meets(call.text, i) # {} => call.found /\ call.begin <= i

RegexSound ==
    /\ exp.failed <=> pattern.list = <<>>
    /\ call.kind = "match" => MatchExact
    /\ call.kind = "search" => SearchExact
=============================================================================

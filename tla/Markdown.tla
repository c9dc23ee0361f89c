------------------------------ MODULE Markdown ------------------------------
(***************************************************************************)
(* Markdown to ProseMirror and back (huly-client markdown.rs).  The        *)
(* CommonMark parser is pulldown-cmark's: here it is any sequence of       *)
(* well-nested events.  DocBuilder turns it into a tree with a stack of    *)
(* open nodes and a list of active marks; render_node turns the tree into  *)
(* text again.  A piece of text is the number of the event that brought    *)
(* it; what is rendered is a sequence of such pieces and of markers.       *)
(***************************************************************************)
EXTENDS Naturals, Sequences, SequencesExt

CONSTANTS MaxEvents,    \* bound: events per document
          MaxDepth      \* bound: tags open at a time

ASSUME DepthAssumption == MaxDepth \in Nat

VARIABLES builder,      \* DocBuilder: the stack of open nodes, the active marks
          open,         \* the parser's open tags
          count,        \* events so far
          given,        \* per text event with an arm: its number and the marks around it
          dropped,      \* the numbers of the text events without an arm
          selfNested,   \* a mark inside one of its own kind has been closed
          tree          \* the finished document, or <<>>

mdVars == <<builder, open, count, given, dropped, selfNested, tree>>

-----------------------------------------------------------------------------
Blocks == {"paragraph", "heading", "blockquote", "code_block", "bullet_list", "ordered_list",
           "list_item"}
MarkTags == {"strong", "em", "link"}

\* Constructs DocBuilder knows nothing of: tables, images, footnotes.
OtherTags == {"table"}

\* Where CommonMark allows what.
Context == IF open = <<>> THEN "doc" ELSE Last(open)
Flow    == {"doc", "blockquote", "list_item"}
Inline  == {"paragraph", "heading", "list_item", "table"} \cup MarkTags

MayOpen(tag) ==
    CASE tag = "list_item"                      -> Context \in {"bullet_list", "ordered_list"}
      [] tag \in Blocks \ {"list_item"}         -> Context \in Flow
      [] tag \in OtherTags                      -> Context \in Flow
      [] tag \in MarkTags                       -> Context \in Inline

\* The elements of s that are in S, in their order.
Kept(s, S) ==
    LET kept[i \in 0 .. Len(s)] ==
            IF i = 0 THEN <<>>
            ELSE IF s[i] \in S THEN Append(kept[i - 1], s[i]) ELSE kept[i - 1]
    IN  kept[Len(s)]

-----------------------------------------------------------------------------
(* DocBuilder.                                                             *)
Frame(type) == [type |-> type, content |-> <<>>]
NewBuilder == [stack |-> <<Frame("doc")>>, marks |-> <<>>]

PushToParent(b, node) ==
    IF b.stack = <<>> THEN b
    ELSE [b EXCEPT !.stack[Len(b.stack)].content = Append(@, node)]

MakeTextNode(b, text, extra) == [type |-> "text", text |-> text, marks |-> b.marks \o extra]
StartTag(b, tag) ==
    CASE tag \in Blocks    -> [b EXCEPT !.stack = Append(@, Frame(tag))]
      [] tag \in MarkTags  -> [b EXCEPT !.marks = Append(@, tag)]
      [] tag \in OtherTags -> b

\* A block goes to its parent; a mark leaves the list, with any of its kind.
EndTag(b, tag) ==
    CASE tag \in Blocks    -> PushToParent([b EXCEPT !.stack = Front(@)], Last(b.stack))
      [] tag \in MarkTags  -> [b EXCEPT !.marks = Kept(@, MarkTags \ {tag})]
      [] tag \in OtherTags -> b

\* Text, soft breaks (as a space) and raw HTML are text nodes, inline code one
\* with a mark of its own, hard breaks and rules nodes without text.
LeafNode(b, leaf, n) ==
    CASE leaf \in {"text", "html"}                -> MakeTextNode(b, n, <<>>)
      [] leaf = "code"                           -> MakeTextNode(b, n, <<"code">>)
      [] leaf \in {"hard_break", "horizontal_rule"} -> Frame(leaf)

-----------------------------------------------------------------------------
(* Rendering.                                                              *)
Piece(n) == <<[text |-> n]>>
Marker(m) == <<[marker |-> m]>>

WithMark(mark, s) ==
    CASE mark = "strong" -> Marker("**") \o s \o Marker("**")
      [] mark = "em"     -> Marker("_") \o s \o Marker("_")
      [] mark = "code"   -> Marker("tick") \o s \o Marker("tick")
      [] mark = "link"   -> Marker("[") \o s \o Marker("](href)")

\* The last mark is the innermost.
ApplyMarksReverse(s, marks) ==
    LET wrapped[i \in 0..Len(marks)] ==
            IF i = 0 THEN s ELSE WithMark(marks[Len(marks) - i + 1], wrapped[i - 1])
    IN  wrapped[Len(marks)]

Joined(parts, separator) ==
    LET joined[i \in 0..Len(parts)] ==
            IF i = 0 THEN <<>>
            ELSE IF i = 1 THEN parts[1] ELSE joined[i - 1] \o separator \o parts[i]
    IN  joined[Len(parts)]

(* render_node and what it calls; `sub` is render_node for the nodes below. *)
RenderChildren(node, separator, sub) ==
    LET parts == [i \in DOMAIN node.content |-> sub[node.content[i]]]
    IN  Joined(Kept(parts, Range(parts) \ {<<>>}), separator)

RenderInlineChildren(node, sub) == Joined([i \in DOMAIN node.content |-> sub[node.content[i]]], <<>>)

\* Mutant: a list item is taken to hold one paragraph.
RenderListItemFirst(item, sub) ==
    IF item.content = <<>> THEN <<>> ELSE sub[item.content[1]]

RenderListItem(item, sub) ==
    Joined([i \in DOMAIN item.content |-> sub[item.content[i]]], Marker("newline"))

RenderItems(list, bullet, sub) ==
    Joined([i \in DOMAIN list.content |-> Marker(bullet) \o RenderListItem(list.content[i], sub)],
           Marker("newline"))

RenderOne(node, sub) ==
    CASE node.type = "doc"             -> RenderChildren(node, Marker("blank line"), sub)
      [] node.type = "paragraph"       -> RenderInlineChildren(node, sub)
      [] node.type = "heading"         -> Marker("#") \o RenderInlineChildren(node, sub)
      [] node.type = "code_block"      -> Marker("fence")
                                          \o RenderChildren(node, Marker("newline"), sub)
                                          \o Marker("fence")
      [] node.type = "bullet_list"     -> RenderItems(node, "-", sub)
      [] node.type = "ordered_list"    -> RenderItems(node, "1.", sub)
      [] node.type = "blockquote"      -> Marker(">") \o RenderChildren(node, Marker("newline"), sub)
      [] node.type = "horizontal_rule" -> Marker("---")
      [] node.type = "hard_break"      -> Marker("break")
      [] node.type = "text"            -> ApplyMarksReverse(Piece(node.text), node.marks)
      [] OTHER                         -> RenderChildren(node, <<>>, sub)

\* The nodes of a document, by how deep they nest; a list holds list items.
TextNodes == [type : {"text"}, text : Nat, marks : Seq(MarkTags \cup {"code"})]
LeafNodes == TextNodes \cup {Frame("hard_break"), Frame("horizontal_rule")}
Lists == {"bullet_list", "ordered_list"}

BlockNodes(below) ==
    {n \in [type : Blocks \cup {"doc"}, content : Seq(below)] :
        n.type \in Lists => \A i \in 1 .. Len(n.content) : n.content[i].type = "list_item"}

\* A document nests one deeper than the tags in it.
Height == MaxDepth + 1

Nodes[h \in 0 .. Height] ==
    IF h = 0 THEN LeafNodes ELSE LeafNodes \cup BlockNodes(Nodes[h - 1])

Rendered[h \in 0 .. Height] ==
    [node \in Nodes[h] |-> RenderOne(node, IF h = 0 THEN <<>> ELSE Rendered[h - 1])]

RenderNode(node) == Rendered[Height][node]

-----------------------------------------------------------------------------
MdInit ==
    /\ builder = NewBuilder
    /\ open = <<>> /\ count = 0 /\ given = <<>> /\ dropped = {} /\ selfNested = FALSE /\ tree = <<>>

InText == tree = <<>> /\ count < MaxEvents

\* handle_event, for the start of a tag, its end, and a leaf.
HandleStart ==
    /\ InText /\ Len(open) < MaxDepth
    /\ \E tag \in Blocks \cup MarkTags \cup OtherTags :
          /\ MayOpen(tag)
          /\ builder' = StartTag(builder, tag)
          /\ open' = Append(open, tag)
    /\ count' = count + 1
    /\ UNCHANGED <<given, dropped, selfNested, tree>>

HandleEnd ==
    /\ tree = <<>> /\ open # <<>>
    /\ builder' = EndTag(builder, Last(open))
    /\ open' = Front(open)
    /\ selfNested' = (selfNested \/ (Last(open) \in MarkTags /\ Contains(Front(open), Last(open))))
    /\ UNCHANGED <<count, given, dropped, tree>>

Around == Kept(open, MarkTags)

HandleLeaf ==
    /\ InText
    /\ \E leaf \in {"text", "html", "code", "hard_break", "horizontal_rule"} :
          /\ CASE leaf = "horizontal_rule" -> Context \in Flow
               [] leaf = "html"            -> Context \in Flow
               [] leaf = "text"            -> Context \in Inline \cup {"code_block"}
               [] OTHER                    -> Context \in Inline
          /\ builder' = PushToParent(builder, LeafNode(builder, leaf, count + 1))
          /\ given' = IF leaf \in {"hard_break", "horizontal_rule"} THEN given
                      ELSE Append(given, [text |-> count + 1,
                                          marks |-> IF selfNested THEN <<"any">>
                                                    ELSE IF leaf = "code" THEN Append(Around, "code")
                                                    ELSE Around])
    /\ count' = count + 1
    /\ UNCHANGED <<open, dropped, selfNested, tree>>

\* An event that brings text and for which handle_event has no arm: math, a
\* footnote reference, the marker of a task.  Its text goes nowhere.
HandleUnknown ==
    /\ InText /\ Context \in Inline
    /\ dropped' = dropped \cup {count + 1}
    /\ count' = count + 1
    /\ UNCHANGED <<builder, open, given, selfNested, tree>>

\* The parser is done: every tag is closed.  An unbalanced stack would panic.
FinishDoc ==
    /\ tree = <<>> /\ open = <<>> /\ count > 0
    /\ tree' = IF Len(builder.stack) = 1 THEN <<Last(builder.stack)>> ELSE <<[type |-> "panic"]>>
    /\ UNCHANGED <<builder, open, count, given, dropped, selfNested>>

MdNext == HandleStart \/ HandleEnd \/ HandleLeaf \/ HandleUnknown \/ FinishDoc

MdSpec == MdInit /\ [][MdNext]_mdVars

-----------------------------------------------------------------------------
\* The text nodes below a node, in their order.
TextsIn(node, sub) ==
    IF node.type = "text" THEN <<node>>
    ELSE Joined([i \in DOMAIN node.content |-> sub[node.content[i]]], <<>>)

Texts[h \in 0 .. Height] ==
    [node \in Nodes[h] |-> TextsIn(node, IF h = 0 THEN <<>> ELSE Texts[h - 1])]

TextsOf(node) == Texts[Height][node]

\* Which text survives the way to ProseMirror and back: that of the events
\* handle_event has an arm for, and no other.  For every nesting of blocks and
\* marks: the stack is balanced at the end, the text nodes of the document are
\* those events in their order, none lost, repeated or moved, each with the marks
\* that enclosed it from the outermost inwards (as long as no mark is nested in
\* its own kind), and the rendering has exactly these pieces in this order.  The
\* text of an event without an arm (math, a footnote reference, a task marker)
\* is not in the document, although markdown.rs:20-26 and 369-370 have it kept.
TextKept ==
    tree # <<>> =>
        LET doc   == tree[1]
            texts == TextsOf(doc)
            shown == Kept(RenderNode(doc), [text : Nat])
        IN  /\ doc.type = "doc"
            /\ Len(texts) = Len(given) /\ Len(shown) = Len(given)
            /\ \A i \in DOMAIN given :
                 /\ texts[i].text = given[i].text /\ shown[i].text = given[i].text
                 /\ given[i].marks \in {<<"any">>, texts[i].marks}
            /\ \A i \in DOMAIN texts : texts[i].text \notin dropped
=============================================================================

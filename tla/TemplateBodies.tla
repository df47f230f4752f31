--------------------------- MODULE TemplateBodies ---------------------------
(***************************************************************************)
(* What is stored when a version of a template is saved by hand            *)
(* (html_plain_sync.py), and when a version renders (render_service.py,    *)
(* validation_service.py).                                                 *)
(*                                                                         *)
(* A text is a sequence of lines.  An HTML body is its layout (the tags)   *)
(* with the text nodes in it, each of them lines of its own; words and     *)
(* variables are both lines, "" is a blank one.                            *)
(***************************************************************************)
EXTENDS Sequences, SequencesExt

CONSTANT Vars    \* the lines that are a Jinja variable

\* No tags yet, those of MinimalHtml, or any others.
Layouts == {"none", "minimal"} \cup STRING

PlainTexts == Seq(STRING)
HtmlBodies == [layout : Layouts, nodes : Seq(PlainTexts)]
StoredBodies == [html : HtmlBodies, text : PlainTexts]

Empty == [html |-> [layout |-> "none", nodes |-> <<>>], text |-> <<>>]

\* _collapse_text: the text whatever its white space.
Collapsed(text) == SelectSeq(text, LAMBDA line : line # "")

PlainText(html) == FlattenSeq(html.nodes)

\* One paragraph for each line: the layout is gone.
MinimalHtml(text) == [layout |-> "minimal", nodes |-> [i \in DOMAIN text |-> <<text[i]>>]]

\* The new text in the old tags, where nodes and lines can be paired.
MergePlain(body, text) ==
    LET nodes == body.html.nodes IN
    IF nodes = <<>> \/ Collapsed(PlainText(body.html)) # Collapsed(body.text)
    THEN body.html
    ELSE IF Len(nodes) = 1 THEN [body.html EXCEPT !.nodes = <<text>>]
    ELSE IF Len(nodes) = Len(text)
    THEN [body.html EXCEPT !.nodes = [i \in DOMAIN nodes |-> <<text[i]>>]]
    ELSE body.html

Stored(html) == [html |-> html, text |-> PlainText(html)]

\* Variant: the HTML is kept where the new text has no place in it.
ReconcileOrKeep(latest, posted) ==
    IF posted.html # latest.html \/ posted.text = latest.text THEN Stored(posted.html)
    ELSE Stored(MergePlain(latest, posted.text))

\* HTML that was edited wins; a text that was edited alone goes into the HTML.
ReconcileTemplateBodies(latest, posted) ==
    LET merged == MergePlain(latest, posted.text) IN
    IF posted.html # latest.html \/ posted.text = latest.text THEN Stored(posted.html)
    ELSE Stored(IF merged = posted.html THEN MinimalHtml(posted.text) ELSE merged)

Lines(text) == {text[i] : i \in DOMAIN text}

Uses(body) == Vars \cap (Lines(PlainText(body.html)) \cup Lines(body.text))

\* StrictUndefined: every variable of every part has a value.
RenderEmailVersion(body, context) == Uses(body) \subseteq context
=============================================================================

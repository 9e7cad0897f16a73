------------------------------ MODULE HtmlText ------------------------------
(***************************************************************************)
(* The transformation of HTML to plain text (html_text.py) as the sequence *)
(* of callbacks of the parser: tags, text, comments, and the end.          *)
(*                                                                         *)
(* Abstractions.  Text arrives one character at a time: a letter, a space  *)
(* or a line break; outside of pre the last two are the same.  Attributes  *)
(* are whether the element is hidden by one of them.  What the profile     *)
(* does not accept (unknown elements, style sheets, declarations, control  *)
(* characters), and the limits on attributes, tokens and time, can end the *)
(* transformation at any point.  The statistics of what was omitted are    *)
(* left out.                                                               *)
(***************************************************************************)
EXTENDS Naturals, Sequences, FiniteSets, SequencesExt

CONSTANTS Tags,
          Void, Block,  \* sets of tags
          NoText,       \* tags of metadata, of active and of other content
          MaxDepth,     \* 128 in the code
          MaxNodes,     \* 20 000 in the code
          MaxSize,      \* of the output, 256 KiB in the code
          MaxVisible    \* bound: visible characters and breaks

ASSUME HtmlAssumption ==
  /\ Void \cup Block \cup NoText \subseteq Tags
  /\ "pre" \in Block
  /\ {MaxDepth, MaxNodes, MaxSize, MaxVisible} \subseteq Nat

VARIABLES
  stack,        \* open elements, with whether they are omitted
  nodes,
  parts,        \* the text so far
  pendingSpace,
  lineStart,
  transform,    \* running, done, or failed
  around,       \* history: elements around the place, each with whether it is itself omitted
  visible       \* history: the visible text, with its breaks

htmlVars == <<stack, nodes, parts, pendingSpace, lineStart, transform, around, visible>>

HtmlInit ==
  /\ stack = <<>>
  /\ nodes = 0
  /\ parts = <<>>
  /\ pendingSpace = FALSE
  /\ lineStart = TRUE
  /\ transform = "running"
  /\ around = <<>>
  /\ visible = <<>>

Feeding == transform = "running"
-----------------------------------------------------------------------------
(* Output, as functions of what there is *)

HtmlFails ==
  /\ Feeding
  /\ transform' = "failed"
  /\ UNCHANGED <<stack, nodes, parts, pendingSpace, lineStart, around, visible>>

\* A line break, unless the line is empty.
Bounded(p, atStart) == IF p = <<>> \/ atStart THEN p ELSE Append(p, "newline")

\* The text becomes p; it is too long for some.
Output(p) ==
  /\ Len(p) <= MaxSize
  /\ parts' = p
  /\ lineStart' = (p = <<>> \/ Last(p) = "newline")

Boundary ==
  /\ Output(Bounded(parts, lineStart))
  /\ pendingSpace' = FALSE

NoOutput == UNCHANGED <<parts, pendingSpace, lineStart>>

Node ==
  /\ nodes < MaxNodes
  /\ nodes' = nodes + 1
-----------------------------------------------------------------------------
(* Elements *)

Inherited == stack # <<>> /\ Last(stack).omission

\* An element is judged without the one around it.
OmissionAlone(tag, hidden) == tag \in NoText \/ hidden

Omission(tag, hidden) == Inherited \/ tag \in NoText \/ hidden

\* For the history: no element around the current place is omitted.
Shown(elements) == \A i \in DOMAIN elements : ~elements[i].omitted
Breaks(yes) == visible' = IF yes THEN Append(visible, "break") ELSE visible

StartTag(tag, hidden) ==
  /\ Feeding /\ Node
  /\ LET omission == Omission(tag, hidden)
         isRoot == ~Inherited /\ omission
         ownLine == ~omission /\ (tag \in Block \/ tag = "br")
     IN  /\ IF isRoot \/ ownLine THEN Boundary ELSE NoOutput
         /\ IF tag \in Void
            THEN UNCHANGED <<stack, around>>
            ELSE /\ Len(stack) < MaxDepth
                 /\ stack' = Append(stack, [tag |-> tag, omission |-> omission])
                 /\ around' = Append(around, [tag |-> tag, omitted |-> tag \in NoText \/ hidden])
  /\ Breaks(Shown(around) /\ (tag \in NoText \/ hidden \/ tag \in Block \/ tag = "br"))
  /\ UNCHANGED transform

\* Only the innermost element can be closed; anything else is an error.  <p/> is
\* a start and an end.
EndTag(tag) ==
  /\ Feeding /\ Node
  /\ stack # <<>> /\ Last(stack).tag = tag
  /\ stack' = Front(stack)
  /\ around' = Front(around)
  /\ LET omission == Last(stack).omission
         outer == Len(stack) > 1 /\ stack[Len(stack) - 1].omission
     IN  IF (~omission /\ tag \in Block) \/ (omission /\ ~outer)
         THEN Boundary
         ELSE NoOutput
  /\ Breaks(Shown(Front(around)) /\ (Last(around).omitted \/ tag \in Block))
  /\ UNCHANGED transform

\* A comment, or the doctype.
Comment ==
  /\ Feeding /\ Node
  /\ UNCHANGED <<stack, parts, pendingSpace, lineStart, transform, around, visible>>
-----------------------------------------------------------------------------
(* Text *)

Preformatted == \E i \in DOMAIN stack : stack[i].tag = "pre"

Data(char) ==
  /\ Feeding /\ Len(visible) < MaxVisible
  /\ IF Inherited
     THEN NoOutput
     ELSE IF Preformatted
     THEN Output(Append(parts, char)) /\ pendingSpace' = FALSE
     ELSE IF char \in {"space", "newline"}
     THEN pendingSpace' = ~lineStart /\ UNCHANGED <<parts, lineStart>>
     ELSE /\ Output(IF pendingSpace /\ ~lineStart THEN parts \o <<"space", char>>
                                                  ELSE Append(parts, char))
          /\ pendingSpace' = FALSE
  /\ visible' =
       IF ~Shown(around) THEN visible
       ELSE Append(visible,
              IF char = "letter" THEN char
              ELSE IF \E i \in DOMAIN around : around[i].tag = "pre"
              THEN (IF char = "space" THEN "keptSpace" ELSE "keptNewline")
              ELSE "white")
  /\ UNCHANGED <<stack, nodes, transform, around>>

\* Elements that are left open, and text that is blank, are errors.
Finish ==
  /\ Feeding
  /\ stack = <<>>
  /\ \E i \in DOMAIN parts : parts[i] \notin {"space", "newline"}
  /\ Boundary
  /\ Breaks(TRUE)
  /\ transform' = "done"
  /\ UNCHANGED <<stack, nodes, around>>

Transform ==
  \/ HtmlFails
  \/ \E tag \in Tags, hidden \in BOOLEAN : StartTag(tag, hidden)
  \/ \E tag \in Tags : EndTag(tag)
  \/ Comment
  \/ \E char \in {"letter", "space", "newline"} : Data(char)
  \/ Finish

HtmlSpec == HtmlInit /\ [][Transform]_htmlVars
-----------------------------------------------------------------------------
(* What the text should be, by what is visible around each place: letters,   *)
(* white space, space and line breaks that pre keeps, and breaks.            *)

\* Every character that came before is followed by a line break.
AtLineStart(s, i) ==
  \A j \in 1..(i - 1) :
    s[j] \in {"letter", "keptSpace"} => \E k \in (j + 1)..(i - 1) : s[k] \in {"break", "keptNewline"}

Rendered(s, i) ==
  CASE s[i] = "letter" -> "letter"
    [] s[i] = "keptSpace" -> "space"
    [] s[i] = "keptNewline" -> "newline"
    [] s[i] = "break" -> IF AtLineStart(s, i) THEN "none" ELSE "newline"
    [] s[i] = "white" ->
         IF i < Len(s) /\ s[i + 1] \notin {"white", "break"} /\ ~AtLineStart(s, i)
         THEN "space" ELSE "none"

Rendering(s) == [i \in DOMAIN s |-> Rendered(s, i)]

\* The places of what is there of a rendering, and how many of them there are up
\* to a place.
Filled(r) == {i \in DOMAIN r : r[i] # "none"}
UpTo(r, i) == Cardinality({j \in Filled(r) : j <= i})

\* p is what is there of a rendering, in order.
Selected(p, r) ==
  /\ Len(p) = Cardinality(Filled(r))
  /\ \A i \in Filled(r) : p[UpTo(r, i)] = r[i]

\* At every point the text is exactly what is visible, in order and with its
\* whitespace reduced to single spaces and line breaks, and nothing that is
\* omitted, however elements are nested; finished text ends with a line break
\* (the docstrings at html_text.py:4 and html_text.py:280).
TextIsWhatIsVisible ==
  /\ Selected(parts, Rendering(visible))
  /\ transform = "done" => Last(parts) = "newline"
=============================================================================

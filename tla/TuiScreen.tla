------------------------------ MODULE TuiScreen -----------------------------
(***************************************************************************)
(* What the TUI puts where on the terminal (crates/bt-cli/src/tui/         *)
(* render.rs, text.rs): the four panels and the status lines, the columns  *)
(* of the two tables, and which part of a list is shown.  A text is its    *)
(* width on the terminal, a line of a panel the widths it can have; what   *)
(* the texts say, and in which colours, is left out.                       *)
(***************************************************************************)
EXTENDS Integers

Least(a, b)       == IF a < b THEN a ELSE b
Greatest(a, b)    == IF a > b THEN a ELSE b
Saturating(a)     == Greatest(a, 0)
Clamped(n, lo, hi) == IF n < lo THEN lo ELSE IF n > hi THEN hi ELSE n

-----------------------------------------------------------------------------
(* Texts.                                                                  *)

(* The widths truncate_with_ellipsis can leave of a text: characters are   *)
(* at most two columns wide, so that at most one column before the dots    *)
(* stays unused.                                                           *)
Truncated(text, width) ==
  IF width = 0 THEN {0}
  ELSE IF text <= width THEN {text}
  ELSE IF width <= 3 THEN {width}
  ELSE {used + 3 : used \in Saturating(width - 4) .. width - 3}

(* fit: blanks fill up what is missing.                                    *)
Fit(text, width) == {Greatest(n, width) : n \in Truncated(text, width)}

-----------------------------------------------------------------------------
(* The screen.                                                             *)

StatusHeight == 2
FewestColumns == 72
FewestRows    == 20

(* The layout for a terminal of some columns and rows; a smaller one is    *)
(* treated like one of 72 by 20.                                           *)
Layout(columns, rows) ==
  LET width   == Greatest(columns, FewestColumns)
      height  == Greatest(rows, FewestRows)
      content == height - StatusHeight
      top     == Clamped((content * 52) \div 100, 8, content - 6)
      left    == Clamped((width * 56) \div 100, 38, width - 28)
  IN  [width |-> width, height |-> height, content |-> content,
       top |-> top, bottom |-> Greatest(content - top, 6),
       left |-> left, right |-> width - left]

(* A panel has a border around the lines its body gives for the space      *)
(* inside; blank lines are added and lines beyond it cut.                  *)
InnerWidth(width)   == Greatest(width, 8) - 2
InnerHeight(height) == Greatest(height, 3) - 2

BodyShown(lines, height) == Least(lines, InnerHeight(height))

PanelHeight(lines, height) ==
  LET shown == BodyShown(lines, height)
      blank == Saturating(Greatest(height, 3) - 1 - (1 + shown))
  IN  1 + shown + blank + 1

(* The border on top, with the title in the middle if it fits.             *)
TopBorder(title, focused, width) ==
  LET inner == width - 2
      text  == title + IF focused THEN 4 ELSE 2
      left  == (inner - text) \div 2
  IN  IF text >= inner THEN {1 + n + 1 : n \in Fit(text, inner)}
      ELSE {1 + left + text + (inner - text - left) + 1}

-----------------------------------------------------------------------------
(* The list of transactions.                                               *)

(* The first row shown of a list whose selected row is at offset, in a     *)
(* panel with a header: the selected row is the last one if need be.       *)
TransactionStart(offset, visible) ==
  IF offset >= visible THEN offset + 1 - visible ELSE 0

(* What each column gets of what the ones before it left.                  *)
FixedColumns(space, sequence) ==
  LET seq  == Least(Greatest(sequence, 3), space)
      dir  == Least(5, space - seq)
      code == Least(10, space - seq - dir)
      len  == Least(8, space - seq - dir - code)
  IN  [sequence |-> seq, direction |-> dir, code |-> code, len |-> len,
       rest |-> space - seq - dir - code - len]

TransactionColumns(width, sequence) ==
  LET five == FixedColumns(Saturating(width - 5), sequence)
      four == FixedColumns(Saturating(width - 4), sequence)
      interface == Least(five.rest - 6, 56)
  IN  IF five.rest >= 18 + 6
      THEN [fixed |-> five, interface |-> interface,
            method |-> Least(five.rest - interface, 28)]
      ELSE [fixed |-> four, interface |-> Least(four.rest, 56), method |-> 0]

(* The widths of a row: its columns with a blank between them, fitted.     *)
TransactionLine(c) ==
  c.fixed.sequence + 1 + c.fixed.direction + 1 + c.interface + 1 + c.fixed.code + 1 + c.fixed.len
    + IF c.method = 0 THEN 0 ELSE 1 + c.method

TransactionRow(width, sequence) == Fit(TransactionLine(TransactionColumns(width, sequence)), width)

-----------------------------------------------------------------------------
(* The frequency table.                                                    *)

VisibleStart(selected, visible, len) ==
  IF visible = 0 \/ len <= visible \/ selected < visible THEN 0
  ELSE Least(selected + 1 - visible, len - visible)

FrequencyColumns(width) ==
  LET space  == Saturating(width - 2)
      filter == Least(6, space)
      count  == Least(9, space - filter)
  IN  [label |-> space - filter - count, count |-> count, filter |-> filter]

(* The interface is cut to make room for the code behind it.               *)
StyledLabel(label, interface, code) ==
  IF label = 0 THEN {0}
  ELSE IF code >= label THEN Fit(code, label)
  ELSE {n + code + Saturating(label - (n + code)) : n \in Truncated(interface, label - code)}

(* Rows are put together from columns and not fitted again.                *)
FrequencyRow(width, interface, code) ==
  LET c == FrequencyColumns(width)
  IN  {n + 1 + c.count + 1 + c.filter : n \in StyledLabel(c.label, interface, code)}

-----------------------------------------------------------------------------
(* The detail panels: lines from the scroll position on.                   *)

HexLines(bytes) == (bytes + 15) \div 16
ParsedLines     == 22

LinesShown(lines, scroll, height) == Least(Saturating(lines - scroll), height)

HexdumpShown(bytes, scroll, height) ==
  IF bytes = 0 THEN 1 ELSE LinesShown(HexLines(bytes), scroll, height)

ParsedShown(scroll, height) == LinesShown(ParsedLines, scroll, height)
=============================================================================

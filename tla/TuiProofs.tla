------------------------------ MODULE TuiProofs ------------------------------
(***************************************************************************)
(* The TUI, for every terminal, every history and everything that is       *)
(* typed.  Its frame is whole: the panels tile the screen, every line has  *)
(* exactly the width of its panel, and what is selected is among the rows  *)
(* shown.  Its list is a part of the history without gaps, however events  *)
(* arrive between the keys, and its panes stay inside what there is.       *)
(***************************************************************************)
EXTENDS TuiPanes, FiniteSetTheorems, WellFoundedInduction, TLAPS

-----------------------------------------------------------------------------
(* The frame.                                                              *)

(* fit returns a text of exactly the width asked for.                      *)
LEMMA FitIsExact ==
  ASSUME NEW text \in Nat, NEW width \in Nat
  PROVE  Fit(text, width) = {width}
<1>1. CASE width = 0
  BY <1>1 DEF Fit, Truncated, Greatest
<1>2. CASE width # 0 /\ text <= width
  BY <1>2 DEF Fit, Truncated, Greatest
<1>3. CASE width # 0 /\ text > width /\ width <= 3
  BY <1>3 DEF Fit, Truncated, Greatest
<1>4. CASE text > width /\ width > 3
  <2>1. Truncated(text, width) = {used + 3 : used \in width - 4 .. width - 3}
    BY <1>4 DEF Truncated, Saturating, Greatest
  <2>2. \A n \in Truncated(text, width) : Greatest(n, width) = width
    BY <2>1 DEF Greatest
  <2>3. width \in Truncated(text, width)
    BY <1>4, <2>1
  <2> QED  BY <2>2, <2>3 DEF Fit
<1> QED  BY <1>1, <1>2, <1>3, <1>4

(* A truncated text is never wider than asked for.                         *)
LEMMA TruncatedFits ==
  ASSUME NEW text \in Nat, NEW width \in Nat, NEW n \in Truncated(text, width)
  PROVE  n \in 0 .. width
<1>1. CASE width = 0
  BY <1>1 DEF Truncated
<1>2. CASE width # 0 /\ text <= width
  BY <1>2 DEF Truncated
<1>3. CASE width # 0 /\ text > width /\ width <= 3
  BY <1>3 DEF Truncated
<1>4. CASE text > width /\ width > 3
  BY <1>4 DEF Truncated, Saturating, Greatest
<1> QED  BY <1>1, <1>2, <1>3, <1>4

(* The panels tile the screen above the status lines, each has room for a  *)
(* header and some rows, and no clamp of render gets bounds the wrong way  *)
(* round, which would end the program (render.rs:14).                      *)
THEOREM LayoutTiles ==
  ASSUME NEW columns \in Nat, NEW rows \in Nat,
         NEW l, l = Layout(columns, rows)
  PROVE  /\ l.top + l.bottom + StatusHeight = l.height
         /\ l.left + l.right = l.width
         /\ l.top >= 8 /\ l.bottom >= 6 /\ l.left >= 38 /\ l.right >= 28
         /\ 8 <= l.content - 6 /\ 38 <= l.width - 28
<1> DEFINE width   == Greatest(columns, FewestColumns)
           height  == Greatest(rows, FewestRows)
           content == height - StatusHeight
<1>1. width \in Nat /\ width >= 72 /\ height \in Nat /\ height >= 20 /\ content >= 18 /\ content \in Nat
  BY DEF Greatest, FewestColumns, FewestRows, StatusHeight
<1>2. (content * 52) \div 100 \in Int /\ (width * 56) \div 100 \in Int
  BY <1>1
<1>3. Clamped((content * 52) \div 100, 8, content - 6) \in 8 .. content - 6
  BY <1>1, <1>2 DEF Clamped
<1>4. Clamped((width * 56) \div 100, 38, width - 28) \in 38 .. width - 28
  BY <1>1, <1>2 DEF Clamped
<1> QED  BY <1>1, <1>3, <1>4 DEF Layout, Greatest, StatusHeight

(* A panel has as many lines as it was given rows, whatever its body has,  *)
(* so that render finds a line for each (render.rs:37).                    *)
THEOREM PanelFillsItsRows ==
  ASSUME NEW lines \in Nat, NEW height \in Nat, height >= 3
  PROVE  PanelHeight(lines, height) = height
BY DEF PanelHeight, BodyShown, InnerHeight, Least, Greatest, Saturating

(* The border is as wide as the panel, with a title of any length.         *)
THEOREM BorderFillsItsWidth ==
  ASSUME NEW title \in Nat, NEW focused \in BOOLEAN, NEW width \in Nat, width >= 8
  PROVE  TopBorder(title, focused, width) = {width}
<1> DEFINE inner == width - 2
           text  == title + IF focused THEN 4 ELSE 2
<1>1. text \in Nat /\ inner \in Nat
  OBVIOUS
<1>2. Fit(text, inner) = {inner}
  BY <1>1, FitIsExact
<1>3. CASE text >= inner
  <2>1. TopBorder(title, focused, width) = {1 + n + 1 : n \in Fit(text, inner)}
    BY <1>3 DEF TopBorder
  <2> QED  BY <1>1, <1>2, <2>1
<1>4. CASE text < inner
  <2>1. (inner - text) \div 2 \in Int
    BY <1>1
  <2>2. TopBorder(title, focused, width)
          = {1 + ((inner - text) \div 2) + text + (inner - text - ((inner - text) \div 2)) + 1}
    BY <1>1, <1>4 DEF TopBorder
  <2> QED  BY <1>1, <2>1, <2>2
<1> QED  BY <1>1, <1>3, <1>4

(* The selected transaction is among the rows shown, and the rows shown    *)
(* are rows of the list.                                                   *)
THEOREM SelectedTransactionIsShown ==
  ASSUME NEW len \in Nat, NEW offset \in 0 .. len - 1, NEW visible \in Nat \ {0},
         NEW start, start = TransactionStart(offset, visible)
  PROVE  start <= offset /\ offset < start + visible /\ start \in 0 .. len - 1
BY DEF TransactionStart

(* The same of the frequency table, which in addition leaves no row blank  *)
(* while entries lie above.                                                *)
THEOREM SelectedEntryIsShown ==
  ASSUME NEW len \in Nat, NEW entry \in 0 .. len - 1, NEW visible \in Nat \ {0},
         NEW start, start = VisibleStart(entry, visible, len)
  PROVE  /\ start <= entry /\ entry < start + visible
         /\ start > 0 => start + visible <= len
BY DEF VisibleStart, Least

(* Lines of the tables have the width of the panel's inside, also those    *)
(* of the frequency table that are not fitted as a whole; for those the    *)
(* panel must be two columns wide inside, as every panel is.               *)
LEMMA FixedColumnsFit ==
  ASSUME NEW space \in Nat, NEW sequence \in Nat, NEW c, c = FixedColumns(space, sequence)
  PROVE  /\ c.sequence \in Nat /\ c.direction \in Nat /\ c.code \in Nat /\ c.len \in Nat
         /\ c.rest \in Nat
         /\ c.sequence + c.direction + c.code + c.len + c.rest = space
BY DEF FixedColumns, Least, Greatest

THEOREM TransactionRowFills ==
  ASSUME NEW width \in Nat, NEW sequence \in Nat
  PROVE  TransactionRow(width, sequence) = {width}
<1> DEFINE five == FixedColumns(Saturating(width - 5), sequence)
           four == FixedColumns(Saturating(width - 4), sequence)
           c    == TransactionColumns(width, sequence)
<1>1. Saturating(width - 5) \in Nat /\ Saturating(width - 4) \in Nat
  BY DEF Saturating, Greatest
<1>2. /\ five.sequence \in Nat /\ five.direction \in Nat /\ five.code \in Nat /\ five.len \in Nat
      /\ five.rest \in Nat
  BY <1>1, FixedColumnsFit
<1>3. /\ four.sequence \in Nat /\ four.direction \in Nat /\ four.code \in Nat /\ four.len \in Nat
      /\ four.rest \in Nat
  BY <1>1, FixedColumnsFit
<1>4. c.fixed \in {five, four} /\ c.interface \in Nat /\ c.method \in Nat
  <2>1. CASE five.rest >= 18 + 6
    BY <1>2, <2>1 DEF TransactionColumns, Least
  <2>2. CASE ~(five.rest >= 18 + 6)
    BY <1>3, <2>2 DEF TransactionColumns, Least
  <2> QED  BY <2>1, <2>2
<1>5. TransactionLine(c) \in Nat
  <2> HIDE DEF five, four, c
  <2> QED  BY <1>2, <1>3, <1>4, SMTT(30) DEF TransactionLine
<1> QED  BY <1>5, FitIsExact DEF TransactionRow

(* The columns as such are no wider than the panel, so that nothing of     *)
(* them is cut, once the panel is wide enough for the fixed ones.          *)
THEOREM TransactionColumnsFit ==
  ASSUME NEW width \in Nat, width >= 5, NEW sequence \in Nat
  PROVE  TransactionLine(TransactionColumns(width, sequence)) <= width
<1> DEFINE five == FixedColumns(Saturating(width - 5), sequence)
           four == FixedColumns(Saturating(width - 4), sequence)
<1>1. Saturating(width - 5) = width - 5 /\ Saturating(width - 4) = width - 4
  BY DEF Saturating, Greatest
<1>2. /\ five.sequence \in Nat /\ five.direction \in Nat /\ five.code \in Nat /\ five.len \in Nat
      /\ five.rest \in Nat
      /\ five.sequence + five.direction + five.code + five.len + five.rest = width - 5
  BY <1>1, FixedColumnsFit
<1>3. /\ four.sequence \in Nat /\ four.direction \in Nat /\ four.code \in Nat /\ four.len \in Nat
      /\ four.rest \in Nat
      /\ four.sequence + four.direction + four.code + four.len + four.rest = width - 4
  BY <1>1, FixedColumnsFit
<1>4. CASE five.rest >= 18 + 6
  <2> DEFINE interface == Least(five.rest - 6, 56)
             method    == Least(five.rest - interface, 28)
  <2>1. interface \in Nat /\ method \in Nat /\ interface + method <= five.rest
    BY <1>2, <1>4 DEF Least
  <2>2. TransactionColumns(width, sequence)
          = [fixed |-> five, interface |-> interface, method |-> method]
    BY <1>4 DEF TransactionColumns
  <2> HIDE DEF five, interface, method
  <2> QED  BY <1>2, <2>1, <2>2 DEF TransactionLine
<1>5. CASE ~(five.rest >= 18 + 6)
  <2>1. TransactionColumns(width, sequence)
          = [fixed |-> four, interface |-> Least(four.rest, 56), method |-> 0]
    BY <1>5 DEF TransactionColumns
  <2>2. Least(four.rest, 56) \in Nat /\ Least(four.rest, 56) <= four.rest
    BY <1>3 DEF Least
  <2> HIDE DEF five, four
  <2> QED  BY <1>3, <2>1, <2>2 DEF TransactionLine
<1> QED  BY <1>4, <1>5

LEMMA LabelFills ==
  ASSUME NEW label \in Nat, NEW interface \in Nat, NEW code \in Nat
  PROVE  StyledLabel(label, interface, code) = {label}
<1>1. CASE label = 0
  BY <1>1 DEF StyledLabel
<1>2. CASE label # 0 /\ code >= label
  BY <1>2, FitIsExact DEF StyledLabel
<1>3. CASE label # 0 /\ code < label
  <2> DEFINE T == Truncated(interface, label - code)
  <2>1. \A n \in T : n \in 0 .. label - code
    BY <1>3, TruncatedFits
  <2>2. \A n \in T : n + code + Saturating(label - (n + code)) = label
    BY <1>3, <2>1 DEF Saturating, Greatest
  <2>3. T # {}
    <3>1. CASE interface <= label - code
      BY <1>3, <3>1 DEF Truncated
    <3>2. CASE interface > label - code /\ label - code <= 3
      BY <1>3, <3>2 DEF Truncated
    <3>3. CASE interface > label - code /\ label - code > 3
      <4>1. T = {used + 3 : used \in label - code - 4 .. label - code - 3}
        BY <1>3, <3>3 DEF Truncated, Saturating, Greatest
      <4>2. label - code - 3 \in label - code - 4 .. label - code - 3
        BY <1>3
      <4> QED  BY <4>1, <4>2
    <3> QED  BY <1>3, <3>1, <3>2, <3>3
  <2>4. StyledLabel(label, interface, code)
          = {n + code + Saturating(label - (n + code)) : n \in T}
    BY <1>3 DEF StyledLabel
  <2> HIDE DEF T
  <2> QED  BY <2>2, <2>3, <2>4
<1> QED  BY <1>1, <1>2, <1>3

THEOREM FrequencyRowFills ==
  ASSUME NEW width \in Nat, width >= 2, NEW interface \in Nat, NEW code \in Nat
  PROVE  FrequencyRow(width, interface, code) = {width}
<1> DEFINE c == FrequencyColumns(width)
<1>1. /\ c.label \in Nat /\ c.count \in Nat /\ c.filter \in Nat
      /\ c.label + c.count + c.filter = width - 2
  BY DEF FrequencyColumns, Least, Saturating, Greatest
<1>2. StyledLabel(c.label, interface, code) = {c.label}
  BY <1>1, LabelFills
<1>3. FrequencyRow(width, interface, code)
        = {n + 1 + c.count + 1 + c.filter : n \in StyledLabel(c.label, interface, code)}
  BY DEF FrequencyRow
<1> HIDE DEF c
<1> QED  BY <1>1, <1>2, <1>3

(* The detail panels show at least one line of what they have while the    *)
(* scroll position is inside it, and never more than fit; an event without *)
(* a payload still gets its line.                                          *)
THEOREM DetailsAreShown ==
  ASSUME NEW bytes \in Nat, NEW lines \in Nat, lines = 0 \/ lines < HexLines(bytes),
         NEW row \in 0 .. ParsedLines - 1, NEW height \in Nat \ {0}
  PROVE  /\ HexdumpShown(bytes, lines, height) \in 1 .. height
         /\ ParsedShown(row, height) \in 1 .. height
<1>1. ParsedShown(row, height) \in 1 .. height
  BY DEF ParsedShown, ParsedLines, LinesShown, Least, Saturating, Greatest
<1>2. CASE bytes = 0
  BY <1>1, <1>2 DEF HexdumpShown
<1>3. CASE bytes # 0
  <2>1. HexLines(bytes) \in Nat /\ HexLines(bytes) >= 1
    BY <1>3 DEF HexLines
  <2>2. HexLines(bytes) - lines >= 1
    BY <2>1
  <2>3. LinesShown(HexLines(bytes), lines, height) \in 1 .. height
    <3> DEFINE left == HexLines(bytes) - lines
    <3>1. left \in Nat \ {0}
      BY <2>1, <2>2
    <3> HIDE DEF left
    <3>2. Least(Saturating(left), height) \in 1 .. height
      BY <3>1 DEF Least, Saturating, Greatest
    <3> QED  BY <3>2 DEF left, LinesShown
  <2> QED  BY <1>1, <1>3, <2>3 DEF HexdumpShown
<1> QED  BY <1>1, <1>2, <1>3

-----------------------------------------------------------------------------
(* Sets of events of the history.                                          *)

(* A set of indices below a bound has a least and a greatest one.          *)
LEMMA LeastExists ==
  ASSUME NEW S \in SUBSET Nat, S # {}
  PROVE  Min(S) \in S /\ \A i \in S : Min(S) <= i
<1> DEFINE R == OpToRel(<, Nat)
<1>1. IsWellFoundedOn(R, Nat)
  BY NatLessThanWellFounded
<1>2. \A x, y \in Nat : x < y => <<x, y>> \in R
  BY DEF OpToRel
<1> HIDE DEF R
<1>3. PICK m \in S : \A y \in S : ~(<<y, m>> \in R)
  BY <1>1, WFMin
<1>4. \A y \in S : m <= y
  <2> SUFFICES ASSUME NEW y \in S PROVE m <= y
    OBVIOUS
  <2>1. m \in Nat /\ y \in Nat /\ ~(y < m)
    BY <1>2, <1>3
  <2> QED
    BY <2>1
<1> QED
  BY <1>4 DEF Min

LEMMA GreatestExists ==
  ASSUME NEW n \in Nat, NEW S \in SUBSET (0 .. n), S # {}
  PROVE  Max(S) \in S /\ \A i \in S : Max(S) >= i
<1> DEFINE T == {n - i : i \in S}
<1>1. T \in SUBSET Nat /\ T # {}
  <2>1. \A i \in S : i \in 0 .. n /\ n - i \in Nat
    OBVIOUS
  <2> QED
    BY <2>1
<1>2. Min(T) \in T /\ \A t \in T : Min(T) <= t
  BY <1>1, LeastExists
<1>3. PICK m \in S : Min(T) = n - m
  BY <1>2
<1>4. \A i \in S : n - i \in T
  OBVIOUS
<1>5. \A i \in S : m >= i
  <2> SUFFICES ASSUME NEW i \in S PROVE m >= i
    OBVIOUS
  <2>1. n - m <= n - i
    BY <1>2, <1>3, <1>4
  <2> QED
    BY <2>1
<1> QED
  BY <1>5 DEF Max

Above(S, i) == {j \in S : j > i}
Below(S, i) == {j \in S : j < i}

LEMMA Sides ==
  ASSUME NEW S \in SUBSET Nat, NEW i \in Nat, NEW j \in Nat, i <= j
  PROVE  Above(S, j) \in SUBSET Above(S, i) /\ Below(S, i) \in SUBSET Below(S, j)
<1>1. \A k \in S : k \in Nat
  OBVIOUS
<1>2. \A k \in Nat : (k > j => k > i) /\ (k < i => k < j)
  OBVIOUS
<1> QED
  BY <1>1, <1>2 DEF Above, Below

LEMMA SidesAreFinite ==
  ASSUME NEW S, IsFiniteSet(S), NEW i
  PROVE  /\ IsFiniteSet(Above(S, i)) /\ Cardinality(Above(S, i)) \in Nat
         /\ IsFiniteSet(Below(S, i)) /\ Cardinality(Below(S, i)) \in Nat
<1>1. Above(S, i) \in SUBSET S /\ Below(S, i) \in SUBSET S
  BY DEF Above, Below
<1> QED
  BY <1>1, FS_Subset, FS_CardinalityType

(* What Newest keeps of a set: as many as asked for, without gaps at the   *)
(* end, the last one among them.                                           *)
LEMMA NewestKeeps ==
  ASSUME NEW last \in Nat, NEW S \in SUBSET (0 .. last), NEW n \in Nat \ {0}
  PROVE  /\ Newest(n, S) \subseteq S /\ IsFiniteSet(Newest(n, S)) /\ Cardinality(Newest(n, S)) <= n
         /\ \A i \in Newest(n, S), j \in S : i <= j => j \in Newest(n, S)
         /\ \A i \in S : (\A j \in S : j <= i) => i \in Newest(n, S)
<1> DEFINE N == Newest(n, S)
<1>0. S \in SUBSET Nat /\ \A i \in S : i \in Nat
  OBVIOUS
<1>1. IsFiniteSet(S)
  <2>1. IsFiniteSet(0 .. last)
    BY FS_Interval
  <2> QED
    BY <2>1, FS_Subset
<1>2. \A i : IsFiniteSet(Above(S, i)) /\ Cardinality(Above(S, i)) \in Nat
  BY <1>1, SidesAreFinite
<1>3. N \subseteq S /\ \A i \in S : i \in N <=> Cardinality(Above(S, i)) < n
  BY DEF Newest, Above
<1> HIDE DEF N
<1>4. IsFiniteSet(N) /\ Cardinality(N) \in Nat
  BY <1>1, <1>3, FS_Subset, FS_CardinalityType
<1>5. ASSUME NEW i \in N, NEW j \in S, i <= j PROVE j \in N
  <2>1. Above(S, j) \in SUBSET Above(S, i)
    BY <1>0, <1>3, <1>5, Sides
  <2>2. Cardinality(Above(S, j)) <= Cardinality(Above(S, i))
    BY <1>2, <2>1, FS_Subset
  <2> QED
    BY <1>2, <1>3, <2>2
<1>6. ASSUME NEW i \in S, \A j \in S : j <= i PROVE i \in N
  <2>1. Above(S, i) = {}
    <3>1. \A j \in S : ~(j > i)
      BY <1>0, <1>6
    <3> QED
      BY <3>1 DEF Above
  <2> QED
    BY <1>3, <2>1, FS_EmptySet
<1>7. Cardinality(N) <= n
  <2>1. CASE N = {}
    BY <2>1, FS_EmptySet
  <2>2. CASE N # {}
    <3> DEFINE m == Min(N)
    <3>1. m \in N /\ \A i \in N : m <= i
      BY <1>3, <2>2, LeastExists
    <3> HIDE DEF m
    <3>2. N \ {m} \in SUBSET Above(S, m)
      <4>1. \A i \in N \ {m} : i > m
        BY <1>0, <1>3, <3>1
      <4> QED
        BY <1>3, <4>1 DEF Above
    <3>3. Cardinality(N \ {m}) <= Cardinality(Above(S, m))
      BY <1>2, <3>2, FS_Subset
    <3>4. Cardinality(N \ {m}) = Cardinality(N) - 1
      BY <1>4, <3>1, FS_RemoveElement
    <3> QED
      BY <1>2, <1>3, <1>4, <3>1, <3>3, <3>4
  <2> QED
    BY <2>1, <2>2
<1> QED
  BY <1>3, <1>4, <1>5, <1>6, <1>7 DEF N

(* And what Oldest does.                                                   *)
LEMMA OldestKeeps ==
  ASSUME NEW last \in Nat, NEW S \in SUBSET (0 .. last), NEW n \in Nat \ {0}
  PROVE  /\ Oldest(n, S) \subseteq S /\ IsFiniteSet(Oldest(n, S)) /\ Cardinality(Oldest(n, S)) <= n
         /\ \A i \in Oldest(n, S), j \in S : j <= i => j \in Oldest(n, S)
         /\ \A i \in S, low \in Int :
              (\A j \in S : j >= low) /\ i - low < n => i \in Oldest(n, S)
<1> DEFINE O == Oldest(n, S)
<1>0. S \in SUBSET Nat /\ \A i \in S : i \in Nat
  OBVIOUS
<1>1. IsFiniteSet(S)
  <2>1. IsFiniteSet(0 .. last)
    BY FS_Interval
  <2> QED
    BY <2>1, FS_Subset
<1>2. \A i : IsFiniteSet(Below(S, i)) /\ Cardinality(Below(S, i)) \in Nat
  BY <1>1, SidesAreFinite
<1>3. O \subseteq S /\ \A i \in S : i \in O <=> Cardinality(Below(S, i)) < n
  BY DEF Oldest, Below
<1> HIDE DEF O
<1>4. IsFiniteSet(O) /\ Cardinality(O) \in Nat
  BY <1>1, <1>3, FS_Subset, FS_CardinalityType
<1>5. ASSUME NEW i \in O, NEW j \in S, j <= i PROVE j \in O
  <2>1. Below(S, j) \in SUBSET Below(S, i)
    BY <1>0, <1>3, <1>5, Sides
  <2>2. Cardinality(Below(S, j)) <= Cardinality(Below(S, i))
    BY <1>2, <2>1, FS_Subset
  <2> QED
    BY <1>2, <1>3, <2>2
<1>6. ASSUME NEW i \in S, NEW low \in Int, \A j \in S : j >= low, i - low < n
      PROVE  i \in O
  <2>1. Below(S, i) \in SUBSET (low .. i - 1)
    <3>1. i \in Int /\ \A j \in S : j \in Int /\ j >= low /\ (j < i => j \in low .. i - 1)
      BY <1>0, <1>6
    <3> QED
      BY <3>1 DEF Below
  <2>2. IsFiniteSet(low .. i - 1) /\ Cardinality(low .. i - 1) <= n - 1
    <3>1. i - 1 \in Int /\ i - 1 - low + 1 <= n - 1 /\ 0 <= n - 1
      BY <1>0, <1>6
    <3>2. /\ IsFiniteSet(low .. i - 1)
          /\ Cardinality(low .. i - 1) = IF low > i - 1 THEN 0 ELSE i - 1 - low + 1
      BY <3>1, FS_Interval
    <3> QED
      BY <3>1, <3>2
  <2>3. Cardinality(Below(S, i)) <= Cardinality(low .. i - 1)
    BY <2>1, <2>2, FS_Subset
  <2>4. Cardinality(low .. i - 1) \in Nat
    BY <2>2, FS_CardinalityType
  <2> QED
    BY <1>2, <1>3, <2>2, <2>3, <2>4
<1>7. Cardinality(O) <= n
  <2>1. CASE O = {}
    BY <2>1, FS_EmptySet
  <2>2. CASE O # {}
    <3> DEFINE m == Max(O)
    <3>1. m \in O /\ \A i \in O : m >= i
      BY <1>3, <2>2, GreatestExists
    <3> HIDE DEF m
    <3>2. O \ {m} \in SUBSET Below(S, m)
      <4>1. \A i \in O \ {m} : i < m
        BY <1>0, <1>3, <3>1
      <4> QED
        BY <1>3, <4>1 DEF Below
    <3>3. Cardinality(O \ {m}) <= Cardinality(Below(S, m))
      BY <1>2, <3>2, FS_Subset
    <3>4. Cardinality(O \ {m}) = Cardinality(O) - 1
      BY <1>4, <3>1, FS_RemoveElement
    <3> QED
      BY <1>2, <1>3, <1>4, <3>1, <3>3, <3>4
  <2> QED
    BY <2>1, <2>2
<1> QED
  BY <1>3, <1>4, <1>5, <1>6, <1>7 DEF O

-----------------------------------------------------------------------------
(* The list.                                                               *)

(* The events of a set without gaps among the visible ones.                *)
Gapless(w, V) ==
  \A i \in V : (\E a \in w : a <= i) /\ (\E b \in w : i <= b) => i \in w

(* A window of a list, as far as its own selection goes.                   *)
WindowSound(w, sel, jump, V) ==
  /\ w \subseteq V /\ Cardinality(w) <= Rows
  /\ ~jump => Gapless(w, V)
  /\ w # {} /\ sel \in V => sel \in w

LoopSound ==
  /\ pending \in Seq(Keys)
  /\ phase \in {"select", "drain", "shown"}
  /\ phase # "drain" /\ pending # <<>> /\ ~ready => capped

SelectionSound == selected \in Nat /\ (selected = 0 \/ selected < Len(history))

ListInv ==
  /\ LoopSound
  /\ history \in Seq(Keys)
  /\ SelectionSound
  /\ WindowSound(window, selected, jumped, Visible(disabled))

LEMMA VisibleIsBelow ==
  ASSUME history \in Seq(Keys), NEW d
  PROVE  Visible(d) \in SUBSET (0 .. Len(history)) /\ \A i \in Visible(d) : i \in Nat /\ i < Len(history)
BY DEF Visible

LEMMA ReloadIsSound ==
  ASSUME TuiAssumption, history \in Seq(Keys), NEW sel \in Nat, NEW d
  PROVE  WindowSound(Reloaded(sel, d), sel, FALSE, Visible(d))
<1> DEFINE V == Visible(d)
           low == sel - Rows \div 2
           S == {i \in V : i >= low}
           W == Reloaded(sel, d)
<1>1. Rows \in Nat \ {0}
  BY DEF TuiAssumption
<1>2. V \in SUBSET (0 .. Len(history)) /\ Len(history) \in Nat /\ \A i \in V : i \in Nat
  BY VisibleIsBelow
<1>3. low \in Int /\ sel - low < Rows /\ sel >= low
  <2>1. Rows \div 2 \in Nat /\ Rows \div 2 < Rows
    BY <1>1
  <2> QED
    BY <2>1
<1>4. W = Oldest(Rows, S)
  BY DEF Reloaded
<1> HIDE DEF V, low, W
<1>5. S \in SUBSET (0 .. Len(history))
  BY <1>2
<1>6. \A i : i \in S <=> i \in V /\ i >= low
  OBVIOUS
<1> HIDE DEF S
<1>7. /\ W \subseteq S /\ Cardinality(W) <= Rows
      /\ \A i \in W, j \in S : j <= i => j \in W
      /\ \A i \in S, l \in Int : (\A j \in S : j >= l) /\ i - l < Rows => i \in W
  BY <1>1, <1>2, <1>4, <1>5, OldestKeeps
<1>8. sel \in V => sel \in W
  BY <1>3, <1>6, <1>7
<1>9. Gapless(W, V)
  <2> SUFFICES ASSUME NEW i \in V, NEW a \in W, NEW b \in W, a <= i, i <= b PROVE i \in W
    BY DEF Gapless
  <2>1. a \in S /\ a \in Nat /\ i \in Nat /\ a >= low
    BY <1>2, <1>6, <1>7
  <2>2. i \in S
    BY <1>3, <1>6, <2>1
  <2> QED
    BY <1>7, <2>2
<1> QED
  BY <1>6, <1>7, <1>8, <1>9 DEF WindowSound, W, V

LEMMA PushIsSound ==
  ASSUME TuiAssumption, history \in Seq(Keys), SelectionSound,
         WindowSound(window, selected, jumped, Visible(disabled)),
         NEW e \in Keys, Push(e)
  PROVE  /\ history' \in Seq(Keys) /\ SelectionSound'
         /\ WindowSound(window', selected', jumped', Visible(disabled)')
<1> DEFINE n == Len(history)
           V == Visible(disabled)
           shown == FollowsTail /\ e \notin disabled
           U == Visible(disabled)'
           S == window \cup {n}
<1>1. /\ n \in Nat /\ history' = Append(history, e) /\ disabled' = disabled
      /\ window' = IF shown THEN Newest(Rows, S) ELSE window
      /\ selected' = IF shown THEN n ELSE selected
      /\ ~jumped' => ~jumped /\ (shown /\ window # {} => \A i \in V : ~(i > Max(window)))
  <2>1. /\ n \in Nat /\ history' = Append(history, e) /\ disabled' = disabled
        /\ window' = IF shown THEN Newest(Rows, S) ELSE window
        /\ selected' = IF shown THEN n ELSE selected
    BY DEF Push
  <2>2. jumped' = (jumped \/ (shown /\ window # {} /\ \E i \in V : i > Max(window)))
    BY Zenon DEF Push
  <2>3. ~jumped' => ~jumped /\ (shown /\ window # {} => \A i \in V : ~(i > Max(window)))
    BY <2>2, Zenon
  <2> QED
    BY <2>1, <2>3
<1>2. history' \in Seq(Keys) /\ Len(history') = n + 1
  BY <1>1
<1>3. \A i \in 0 .. n - 1 : history'[i + 1] = history[i + 1]
  BY <1>1
<1>4. history'[n + 1] = e
  BY <1>1
<1>5. V \in SUBSET (0 .. n) /\ \A i \in V : i \in Nat /\ i < n
  BY VisibleIsBelow
<1>6. \A i : i \in U <=> i \in V \/ (i = n /\ e \notin disabled)
  <2>1. \A i : i \in U <=> i \in 0 .. n /\ history'[i + 1] \notin disabled
    BY <1>1, <1>2 DEF Visible
  <2>2. \A i : i \in V <=> i \in 0 .. n - 1 /\ history[i + 1] \notin disabled
    BY DEF Visible
  <2>3. \A i : i \in 0 .. n <=> i \in 0 .. n - 1 \/ i = n
    BY <1>1
  <2>4. n \notin 0 .. n - 1
    BY <1>1
  <2> QED
    BY <1>3, <1>4, <2>1, <2>2, <2>3, <2>4
<1>7. Rows \in Nat \ {0}
  BY DEF TuiAssumption
<1>8. window \subseteq V /\ Cardinality(window) <= Rows /\ (~jumped => Gapless(window, V))
      /\ (window # {} /\ selected \in V => selected \in window)
  BY DEF WindowSound
<1> HIDE DEF n, V, U, shown
<1>9. SelectionSound'
  BY <1>1, <1>2 DEF SelectionSound, n
<1>10. CASE ~shown
  <2>1. window' = window /\ selected' = selected /\ (~jumped' => ~jumped)
    BY <1>1, <1>10
  <2>2. Gapless(window, V) => Gapless(window, U)
    <3> SUFFICES ASSUME Gapless(window, V), NEW i \in U, NEW a \in window, NEW b \in window,
                        a <= i, i <= b
                 PROVE  i \in window
      BY DEF Gapless
    <3>1. b \in Nat /\ b < n
      BY <1>5, <1>8
    <3>2. i # n
      BY <1>1, <3>1
    <3> QED
      BY <1>6, <3>2 DEF Gapless
  <2>3. window # {} /\ selected \in U => selected \in window
    <3> SUFFICES ASSUME window # {}, selected \in U PROVE selected \in window
      OBVIOUS
    <3>1. n > 0
      <4>1. PICK i \in window : i \in Nat /\ i < n
        BY <1>5, <1>8
      <4> QED
        BY <1>1, <4>1
    <3>2. selected # n
      <4>1. selected = 0 \/ selected < n
        BY DEF SelectionSound, n
      <4> QED
        BY <1>1, <3>1, <4>1 DEF SelectionSound
    <3> QED
      BY <1>6, <1>8, <3>2
  <2> QED
    BY <1>2, <1>6, <1>8, <1>9, <2>1, <2>2, <2>3 DEF WindowSound, U
<1>11. CASE shown
  <2>1. window' = Newest(Rows, S) /\ selected' = n /\ n \in U
    BY <1>1, <1>6, <1>11 DEF shown
  <2>2. S \in SUBSET (0 .. n) /\ S \subseteq U /\ \A i \in S : i <= n /\ i \in Nat
    BY <1>1, <1>5, <1>6, <1>8, <2>1
  <2>3. /\ window' \subseteq S /\ Cardinality(window') <= Rows
        /\ \A i \in window', j \in S : i <= j => j \in window'
        /\ \A i \in S : (\A j \in S : j <= i) => i \in window'
    BY <1>1, <1>7, <2>1, <2>2, NewestKeeps
  <2>4. n \in window'
    BY <2>2, <2>3
  <2>5. ASSUME ~jumped' PROVE Gapless(window', U)
    <3> SUFFICES ASSUME NEW i \in U, NEW a \in window', NEW b \in window', a <= i, i <= b
                 PROVE  i \in window'
      BY DEF Gapless
    <3>1. CASE i = n
      BY <2>4, <3>1
    <3>2. CASE i # n
      <4>1. i \in V /\ i \in Nat /\ i < n
        BY <1>5, <1>6, <3>2
      <4>2. a \in window
        <5>1. a # n
          BY <1>1, <4>1
        <5> QED
          BY <2>3, <5>1
      <4>3. Max(window) \in window /\ Max(window) \in Nat
        <5>1. window \in SUBSET (0 .. n) /\ window # {}
          BY <1>5, <1>8, <4>2
        <5>2. Max(window) \in window
          BY <1>1, <5>1, GreatestExists
        <5> QED
          BY <1>5, <1>8, <5>2
      <4>4. i <= Max(window)
        BY <1>1, <1>11, <2>5, <4>1, <4>2, <4>3
      <4>5. i \in window
        BY <1>1, <1>8, <2>5, <4>1, <4>2, <4>3, <4>4 DEF Gapless
      <4> QED
        BY <2>3, <4>5
    <3> QED
      BY <3>1, <3>2
  <2> QED
    BY <1>2, <1>9, <2>1, <2>2, <2>3, <2>4, <2>5 DEF WindowSound, U
<1> QED
  BY <1>10, <1>11

LEMMA Reloads ==
  ASSUME TuiAssumption, ListInv, NEW sel \in Nat, sel = 0 \/ sel < Len(history), NEW d,
         UNCHANGED <<loopVars, history>>,
         disabled' = d, selected' = sel, window' = Reloaded(sel, d), jumped' = FALSE
  PROVE  ListInv'
<1>1. history' = history /\ LoopSound'
  BY DEF ListInv, LoopSound, loopVars
<1>2. Visible(disabled)' = Visible(d)
  BY <1>1 DEF Visible
<1>3. WindowSound(Reloaded(sel, d), sel, FALSE, Visible(d))
  BY ReloadIsSound DEF ListInv
<1>4. SelectionSound'
  BY <1>1 DEF SelectionSound
<1> QED
  BY <1>1, <1>2, <1>3, <1>4 DEF ListInv

(* A key moves the selection to an event that is visible.                  *)
LEMMA TargetsAreVisible ==
  ASSUME TuiAssumption, history \in Seq(Keys), NEW key \in ListKeys, NEW sel \in Targets(key)
  PROVE  sel \in Visible(disabled)
<1> DEFINE V == Visible(disabled)
           later == {i \in V : i > selected}
           earlier == {i \in V : i < selected}
<1>1. \A n, S : Oldest(n, S) \subseteq S /\ Newest(n, S) \subseteq S
  BY DEF Oldest, Newest
<1>2. later \subseteq V /\ earlier \subseteq V
  OBVIOUS
<1>3. \/ sel \in Newest(1, earlier) \/ sel \in Oldest(1, later)
      \/ sel \in Oldest(1, Newest(PageSize, earlier)) \/ sel \in Newest(1, Oldest(PageSize, later))
      \/ sel \in Oldest(1, V) \/ sel \in Newest(1, V)
  BY DEF Targets, ListKeys
<1> HIDE DEF V, later, earlier
<1> QED
  BY <1>1, <1>2, <1>3 DEF V

LEMMA MoveStep ==
  ASSUME TuiAssumption, ListInv, NEW key \in ListKeys, Move(key)
  PROVE  ListInv'
<1>1. PICK sel \in (IF Targets(key) = {} THEN {selected} ELSE Targets(key)) :
        /\ selected' = sel
        /\ IF history = <<>> \/ sel \in window
             THEN UNCHANGED <<window, jumped>>
             ELSE window' = Reloaded(sel, disabled) /\ jumped' = FALSE
  BY DEF Move
<1>2. UNCHANGED <<loopVars, history, disabled>> /\ LoopSound'
  BY DEF Move, ListInv, LoopSound, loopVars
<1>3. sel = selected \/ sel \in Visible(disabled)
  BY <1>1, TargetsAreVisible DEF ListInv
<1>4. sel \in Nat /\ (sel = 0 \/ sel < Len(history))
  BY <1>1, <1>3, VisibleIsBelow DEF ListInv, SelectionSound
<1>5. CASE history = <<>> \/ sel \in window
  <2>1. window' = window /\ jumped' = jumped /\ Visible(disabled)' = Visible(disabled)
    BY <1>1, <1>2, <1>5 DEF Visible
  <2>2. history = <<>> => window = {}
    BY VisibleIsBelow DEF ListInv, WindowSound
  <2>3. SelectionSound'
    BY <1>1, <1>2, <1>4 DEF SelectionSound
  <2>4. WindowSound(window, sel, jumped, Visible(disabled))
    BY <1>5, <2>2 DEF ListInv, WindowSound
  <2> QED
    BY <1>1, <1>2, <2>1, <2>3, <2>4 DEF ListInv
<1>6. CASE ~(history = <<>> \/ sel \in window)
  <2>1. window' = Reloaded(sel, disabled) /\ jumped' = FALSE
    BY <1>1, <1>6
  <2> QED
    BY <1>1, <1>2, <1>4, <2>1, Reloads
<1> QED
  BY <1>5, <1>6

LEMMA ToggleStep ==
  ASSUME TuiAssumption, ListInv, NEW k, ToggleFrequency(k)
  PROVE  ListInv'
<1> DEFINE d == IF k \in disabled THEN disabled \ {k} ELSE disabled \cup {k}
           V == Visible(d)
           later == {i \in V : i > selected}
           earlier == {i \in V : i < selected}
           sel == IF selected \in V THEN selected
                  ELSE IF later # {} THEN Min(later)
                  ELSE IF earlier # {} THEN Max(earlier) ELSE 0
<1>1. /\ disabled' = d /\ selected' = sel /\ window' = Reloaded(sel, d) /\ jumped' = FALSE
      /\ UNCHANGED <<loopVars, history>>
  BY DEF ToggleFrequency
<1>2. V \in SUBSET (0 .. Len(history)) /\ Len(history) \in Nat
      /\ \A i \in V : i \in Nat /\ i < Len(history)
  BY VisibleIsBelow DEF ListInv
<1> HIDE DEF V, d
<1>3. later # {} => Min(later) \in V
  <2>1. later \in SUBSET Nat
    BY <1>2
  <2> QED
    BY <2>1, LeastExists
<1>4. earlier # {} => Max(earlier) \in V
  <2>1. earlier \in SUBSET (0 .. Len(history))
    BY <1>2
  <2> QED
    BY <1>2, <2>1, GreatestExists
<1>5. sel \in V \/ sel = 0
  BY <1>3, <1>4
<1> HIDE DEF sel
<1>6. sel \in Nat /\ (sel = 0 \/ sel < Len(history))
  <2>1. CASE sel \in V
    BY <1>2, <2>1
  <2>2. CASE sel = 0
    BY <2>2
  <2> QED
    BY <1>5, <2>1, <2>2
<1> QED
  BY <1>1, <1>6, Reloads

LEMMA ReceiveStep ==
  ASSUME TuiAssumption, ListInv, Receive
  PROVE  ListInv'
<1> DEFINE e == Head(pending)
<1>1. /\ Push(e) /\ pending # <<>> /\ pending' = Tail(pending)
      /\ UNCHANGED <<ready, phase, capped>> /\ phase = "drain"
  BY DEF Receive
<1>2. e \in Keys /\ pending' \in Seq(Keys)
  BY <1>1 DEF ListInv, LoopSound
<1>3. LoopSound'
  BY <1>1, <1>2 DEF ListInv, LoopSound
<1> HIDE DEF e
<1> QED
  BY <1>1, <1>2, <1>3, PushIsSound DEF ListInv

LEMMA ListUnmoved ==
  ASSUME ListInv, UNCHANGED listVars, LoopSound'
  PROVE  ListInv'
BY DEF ListInv, listVars, SelectionSound, WindowSound, Gapless, Visible

LEMMA ListStep ==
  ASSUME TuiAssumption, ListInv, [Next]_vars
  PROVE  ListInv'
<1>1. CASE \E e \in Keys : Emit(e)
  <2>1. PICK e \in Keys : Emit(e)
    BY <1>1
  <2>2. UNCHANGED listVars /\ LoopSound'
    BY <2>1 DEF Emit, ListInv, LoopSound
  <2> QED
    BY <2>2, ListUnmoved
<1>2. CASE WaitReadable
  <2>1. UNCHANGED listVars /\ LoopSound'
    BY <1>2 DEF WaitReadable, ListInv, LoopSound
  <2> QED
    BY <2>1, ListUnmoved
<1>3. CASE Receive
  BY <1>3, ReceiveStep
<1>4. CASE Discard
  <2>1. UNCHANGED listVars /\ LoopSound'
    BY <1>4 DEF Discard, ListInv, LoopSound
  <2> QED
    BY <2>1, ListUnmoved
<1>5. CASE DrainEnds
  <2>1. UNCHANGED listVars /\ LoopSound'
    BY <1>5 DEF DrainEnds, ListInv, LoopSound
  <2> QED
    BY <2>1, ListUnmoved
<1>6. CASE BackToSelect
  <2>1. UNCHANGED listVars /\ LoopSound'
    BY <1>6 DEF BackToSelect, ListInv, LoopSound
  <2> QED
    BY <2>1, ListUnmoved
<1>7. CASE \E key \in ListKeys : Move(key)
  BY <1>7, MoveStep
<1>8. CASE ToggleRecording
  <2>1. UNCHANGED listVars /\ LoopSound'
    BY <1>8 DEF ToggleRecording, ListInv, LoopSound, loopVars
  <2> QED
    BY <2>1, ListUnmoved
<1>9. CASE Clear
  <2>1. LoopSound' /\ window' = {} /\ history' = history
        /\ selected' = IF history = <<>> THEN 0 ELSE Len(history) - 1
    BY <1>9 DEF Clear, ListInv, LoopSound, loopVars
  <2>2. SelectionSound'
    <3>1. history # <<>> => Len(history) - 1 \in Nat
      BY DEF ListInv
    <3> QED
      BY <2>1, <3>1 DEF SelectionSound
  <2>3. Cardinality({}) <= Rows
    BY FS_EmptySet DEF TuiAssumption
  <2> QED
    BY <2>1, <2>2, <2>3 DEF ListInv, WindowSound, Gapless
<1>10. CASE \E k \in Keys : ToggleFrequency(k)
  BY <1>10, ToggleStep
<1>11. CASE UNCHANGED vars
  <2>1. UNCHANGED listVars /\ LoopSound'
    BY <1>11 DEF vars, loopVars, ListInv, LoopSound
  <2> QED
    BY <2>1, ListUnmoved
<1> QED
  BY <1>1, <1>2, <1>3, <1>4, <1>5, <1>6, <1>7, <1>8, <1>9, <1>10, <1>11 DEF Next

LEMMA ListInit == ASSUME TuiAssumption, Init PROVE ListInv
<1>1. Len(history) = 0 /\ history \in Seq(Keys) /\ pending \in Seq(Keys)
  BY DEF Init
<1>2. Cardinality(window) <= Rows
  BY FS_EmptySet DEF Init, TuiAssumption
<1> QED
  BY <1>1, <1>2 DEF Init, ListInv, LoopSound, SelectionSound, WindowSound, Gapless

(* The invariant says of the list what a user relies on.                   *)
LEMMA ListIsSound ==
  ASSUME ListInv
  PROVE  NothingIsStranded /\ WindowHasNoGaps /\ SelectionIsLoaded
<1> DEFINE V == Visible(disabled)
<1>1. NothingIsStranded
  BY DEF NothingIsStranded, ListInv, LoopSound
<1>2. SelectionIsLoaded
  BY DEF SelectionIsLoaded, ListInv, WindowSound
<1>3. V \in SUBSET (0 .. Len(history)) /\ Len(history) \in Nat /\ V \in SUBSET Nat
  BY VisibleIsBelow DEF ListInv
<1>4. window \subseteq V /\ Cardinality(window) <= Rows /\ (~jumped => Gapless(window, V))
  BY DEF ListInv, WindowSound
<1> HIDE DEF V
<1>5. ASSUME ~jumped, window # {}
      PROVE  window = {i \in V : Min(window) <= i /\ i <= Max(window)}
  <2>1. window \in SUBSET Nat /\ window \in SUBSET (0 .. Len(history))
    BY <1>3, <1>4
  <2>2. /\ Min(window) \in window /\ Max(window) \in window
        /\ \A i \in window : Min(window) <= i /\ i <= Max(window)
    <3>1. Min(window) \in window /\ \A i \in window : Min(window) <= i
      BY <1>5, <2>1, LeastExists
    <3>2. Max(window) \in window /\ \A i \in window : Max(window) >= i
      BY <1>3, <1>5, <2>1, GreatestExists
    <3>3. \A i \in window : i \in Nat
      BY <2>1
    <3> QED
      BY <3>1, <3>2, <3>3
  <2>3. \A i \in V : Min(window) <= i /\ i <= Max(window) => i \in window
    BY <1>4, <1>5, <2>2 DEF Gapless
  <2> QED
    BY <1>4, <2>2, <2>3
<1>6. WindowHasNoGaps
  BY <1>4, <1>5 DEF WindowHasNoGaps, V
<1> QED
  BY <1>1, <1>2, <1>6

-----------------------------------------------------------------------------
(* The panes on top of the list.                                           *)

HexdumpSound ==
  /\ hexdump \in Nat
  /\ hexdump # 0 => selected < Len(history) /\ hexdump < HexLines(Payload[history[selected + 1]])

CountsSound ==
  /\ counted \in Nat /\ counted <= Len(history)
  /\ phase # "drain" => counted = Len(history)
  /\ frequency \in Nat
  /\ frequency = 0 \/ frequency < Cardinality(CountedKeys)

PanesInv ==
  /\ ListInv
  /\ HexdumpSound
  /\ parsed \in 0 .. ParsedLines - 1
  /\ hexdump # 0 \/ parsed # 0 => scrolled = selected
  /\ CountsSound

LEMMA MovesInside ==
  ASSUME TuiAssumption, NEW current \in Nat, NEW key \in ListKeys, NEW len \in Nat,
         len # 0 => current < len
  PROVE  /\ MoveIndex(current, key, len) \in Nat
         /\ len = 0 => MoveIndex(current, key, len) = 0
         /\ len # 0 => MoveIndex(current, key, len) < len
<1>1. PageSize \in Nat
  BY DEF TuiAssumption
<1>2. CASE len = 0
  BY <1>2 DEF MoveIndex
<1>3. CASE len # 0
  BY <1>1, <1>3 DEF MoveIndex, ListKeys, Saturating, Greatest, Least
<1> QED
  BY <1>2, <1>3

(* What was counted stays counted while the history grows.                 *)
Grows(h, g) == Len(h) <= Len(g) /\ \A i \in 1 .. Len(h) : g[i] = h[i]

LEMMA CountsGrow ==
  ASSUME PanesAssumption, history \in Seq(Keys), history' \in Seq(Keys), Grows(history, history'),
         counted \in Nat, counted' \in Nat, counted <= Len(history), counted <= counted'
  PROVE  /\ IsFiniteSet(CountedKeys') /\ Cardinality(CountedKeys') \in Nat
         /\ Cardinality(CountedKeys) \in Nat
         /\ Cardinality(CountedKeys) <= Cardinality(CountedKeys')
<1> DEFINE Now(k)  == {i \in 1 .. counted : history[i] = k}
           Then(k) == {i \in 1 .. counted' : history'[i] = k}
<1>1. IsFiniteSet(Keys)
  BY DEF PanesAssumption
<1>2. ASSUME NEW k
      PROVE  /\ Cardinality(Now(k)) <= Cardinality(Then(k))
             /\ Cardinality(Now(k)) \in Nat /\ Cardinality(Then(k)) \in Nat
  <2>1. PICK now : now = Now(k)
    OBVIOUS
  <2>2. PICK later : later = Then(k)
    OBVIOUS
  <2>3. IsFiniteSet(1 .. counted) /\ IsFiniteSet(1 .. counted')
    BY FS_Interval
  <2>4. now \in SUBSET (1 .. counted) /\ later \in SUBSET (1 .. counted')
    BY <2>1, <2>2
  <2>5. now \in SUBSET later
    BY <2>1, <2>2 DEF Grows
  <2>6. IsFiniteSet(now) /\ IsFiniteSet(later)
    BY <2>3, <2>4, FS_Subset
  <2>7. Cardinality(now) <= Cardinality(later) /\ Cardinality(now) \in Nat /\ Cardinality(later) \in Nat
    BY <2>5, <2>6, FS_Subset, FS_CardinalityType
  <2> QED
    BY <2>1, <2>2, <2>7
<1>3. \A k : Count(k) = Cardinality(Now(k)) /\ Count(k)' = Cardinality(Then(k))
  BY DEF Count
<1> HIDE DEF Now, Then
<1>4. CountedKeys \subseteq CountedKeys' /\ CountedKeys' \subseteq Keys /\ CountedKeys \subseteq Keys
  BY <1>2, <1>3 DEF CountedKeys
<1>5. IsFiniteSet(CountedKeys) /\ IsFiniteSet(CountedKeys')
  BY <1>1, <1>4, FS_Subset
<1> QED
  BY <1>4, <1>5, FS_Subset, FS_CardinalityType

(* Steps that leave the panes alone, and the history or let it grow.       *)
LEMMA CountsKept ==
  ASSUME PanesAssumption, ListInv, ListInv', CountsSound, Grows(history, history'),
         counted' \in Nat, counted <= counted', counted' <= Len(history'),
         phase' # "drain" => counted' = Len(history'),
         frequency' = frequency
  PROVE  CountsSound'
<1>1. history \in Seq(Keys) /\ history' \in Seq(Keys)
  BY DEF ListInv
<1>2. /\ Cardinality(CountedKeys') \in Nat /\ Cardinality(CountedKeys) \in Nat
      /\ Cardinality(CountedKeys) <= Cardinality(CountedKeys')
  BY <1>1, CountsGrow DEF CountsSound
<1> QED
  BY <1>2 DEF CountsSound

LEMMA SameHistoryGrows ==
  ASSUME ListInv, history' = history
  PROVE  Grows(history, history')
BY DEF Grows, ListInv

(* The list moves or not, and the panes are shown as before or anew.       *)
LEMMA PanesFollow ==
  ASSUME PanesAssumption, PanesInv, ListInv', CountsSound',
         Grows(history, history'), scrolled' = scrolled,
         \/ hexdump' = 0 /\ parsed' = 0
         \/ hexdump' = hexdump /\ parsed' = parsed /\ selected' = selected
  PROVE  PanesInv'
<1>1. CASE hexdump' = 0 /\ parsed' = 0
  <2>1. 0 \in 0 .. ParsedLines - 1
    BY DEF ParsedLines
  <2> QED
    BY <1>1, <2>1 DEF PanesInv, HexdumpSound
<1>2. CASE hexdump' = hexdump /\ parsed' = parsed /\ selected' = selected
  <2>1. HexdumpSound'
    <3>1. CASE hexdump = 0
      BY <1>2, <3>1 DEF HexdumpSound
    <3>2. CASE hexdump # 0
      <4>1. hexdump \in Nat /\ selected < Len(history) /\ hexdump < HexLines(Payload[history[selected + 1]])
        BY <3>2 DEF PanesInv, HexdumpSound
      <4>2. selected \in Nat /\ Len(history) \in Nat /\ Len(history') \in Nat
        BY DEF PanesInv, ListInv, SelectionSound
      <4>3. history'[selected + 1] = history[selected + 1] /\ selected < Len(history')
        BY <4>1, <4>2 DEF Grows
      <4> QED
        BY <1>2, <4>1, <4>3 DEF HexdumpSound
    <3> QED
      BY <3>1, <3>2
  <2> QED
    BY <1>2, <2>1 DEF PanesInv
<1> QED
  BY <1>1, <1>2

LEMMA ReceiveGrows == ASSUME ListInv, Receive PROVE Grows(history, history')
<1>1. history' = Append(history, Head(pending)) /\ history \in Seq(Keys)
  BY DEF Receive, Push, ListInv
<1>2. Head(pending) \in Keys
  BY DEF Receive, ListInv, LoopSound
<1> QED
  BY <1>1, <1>2 DEF Grows

(* A list that keeps its history, in a phase that keeps the counts.        *)
LEMMA PanesKept ==
  ASSUME PanesAssumption, PanesInv, ListInv', history' = history,
         phase' = phase \/ phase' = "drain" \/ phase = "shown",
         UNCHANGED <<frequency, counted, scrolled>>,
         \/ hexdump' = 0 /\ parsed' = 0
         \/ hexdump' = hexdump /\ parsed' = parsed /\ selected' = selected
  PROVE  PanesInv'
<1>1. Grows(history, history')
  BY SameHistoryGrows DEF PanesInv
<1>2. CountsSound'
  <2>1. counted' \in Nat /\ counted <= counted' /\ counted' <= Len(history')
    BY DEF PanesInv, CountsSound
  <2>2. phase' # "drain" => counted' = Len(history')
    BY DEF PanesInv, CountsSound
  <2> QED
    BY <1>1, <2>1, <2>2, CountsKept DEF PanesInv
<1> QED
  BY <1>1, <1>2, PanesFollow

LEMMA PReceiveStep ==
  ASSUME PanesAssumption, PanesInv, PReceive PROVE PanesInv'
<1>1. ListInv'
  BY ReceiveStep DEF PReceive, PanesInv, PanesAssumption
<1>2. Grows(history, history') /\ Len(history) \in Nat /\ Len(history') \in Nat
  BY <1>1, ReceiveGrows DEF PReceive, PanesInv, ListInv
<1>3. phase' = "drain" /\ UNCHANGED <<frequency, counted, scrolled>>
  BY DEF PReceive, Receive
<1>4. counted' \in Nat /\ counted <= counted' /\ counted' <= Len(history')
  BY <1>2, <1>3 DEF PanesInv, CountsSound, Grows
<1>5. CountsSound'
  BY <1>1, <1>2, <1>3, <1>4, CountsKept DEF PanesInv
<1>6. \/ hexdump' = 0 /\ parsed' = 0
      \/ hexdump' = hexdump /\ parsed' = parsed /\ selected' = selected
  BY DEF PReceive, ScrollsReset
<1> QED
  BY <1>1, <1>2, <1>3, <1>5, <1>6, PanesFollow

LEMMA PDrainEndsStep ==
  ASSUME PanesAssumption, PanesInv, PDrainEnds PROVE PanesInv'
<1>1. ListInv'
  BY ListStep DEF PDrainEnds, PanesInv, PanesAssumption, Next
<1>2. history' = history /\ selected' = selected /\ counted' = Len(history)
      /\ UNCHANGED <<frequency, hexdump, parsed, scrolled>>
  BY DEF PDrainEnds, DrainEnds, listVars
<1>3. Grows(history, history') /\ Len(history) \in Nat
  BY <1>2, SameHistoryGrows DEF PanesInv, ListInv
<1>4. counted' \in Nat /\ counted <= counted' /\ counted' <= Len(history')
  BY <1>2, <1>3 DEF PanesInv, CountsSound
<1>5. CountsSound'
  BY <1>1, <1>2, <1>3, <1>4, CountsKept DEF PanesInv
<1> QED
  BY <1>1, <1>2, <1>3, <1>5, PanesFollow

LEMMA PMoveStep ==
  ASSUME PanesAssumption, PanesInv, NEW key \in ListKeys, PMove(key) PROVE PanesInv'
<1>1. ListInv'
  BY MoveStep DEF PMove, PanesInv, PanesAssumption
<1>2. history' = history /\ phase' = phase /\ UNCHANGED <<frequency, counted, scrolled>>
  BY DEF PMove, Move, loopVars
<1>3. \/ hexdump' = 0 /\ parsed' = 0
      \/ hexdump' = hexdump /\ parsed' = parsed /\ selected' = selected
  BY DEF PMove, ScrollsReset
<1> QED
  BY <1>1, <1>2, <1>3, PanesKept

LEMMA SpaceFrequencyStep ==
  ASSUME PanesAssumption, PanesInv, SpaceFrequency PROVE PanesInv'
<1>1. PICK k : ToggleFrequency(k)
  BY DEF SpaceFrequency
<1>2. ListInv'
  BY <1>1, ToggleStep DEF PanesInv, PanesAssumption
<1>3. history' = history /\ phase' = phase /\ UNCHANGED <<frequency, counted, scrolled>>
  BY <1>1 DEF SpaceFrequency, ToggleFrequency, loopVars
<1>4. CASE selected < Len(history) /\ history[selected + 1] \notin disabled'
  <2>1. hexdump' = hexdump /\ parsed' = parsed
    BY <1>4 DEF SpaceFrequency
  <2>2. selected \in Visible(disabled')
    <3>1. selected \in Nat /\ Len(history) \in Nat
      BY DEF PanesInv, ListInv, SelectionSound
    <3> QED
      BY <1>4, <3>1 DEF Visible
  <2>3. selected' = selected
    BY <1>1, <2>2 DEF ToggleFrequency
  <2> QED
    BY <1>2, <1>3, <2>1, <2>3, PanesKept
<1>5. CASE ~(selected < Len(history) /\ history[selected + 1] \notin disabled')
  <2>1. hexdump' = 0 /\ parsed' = 0
    BY <1>5 DEF SpaceFrequency, ScrollsReset
  <2> QED
    BY <1>2, <1>3, <2>1, PanesKept
<1> QED
  BY <1>4, <1>5

LEMMA PClearStep ==
  ASSUME PanesAssumption, PanesInv, PClear PROVE PanesInv'
<1>1. ListInv'
  BY ListStep DEF PClear, PanesInv, PanesAssumption, Next
<1>2. /\ history' = history /\ phase' = phase /\ UNCHANGED <<counted, scrolled>>
      /\ hexdump' = 0 /\ parsed' = 0 /\ frequency' = 0
  BY DEF PClear, Clear, loopVars, ScrollsReset
<1>3. CountsSound'
  BY <1>2 DEF PanesInv, CountsSound
<1>4. Grows(history, history')
  BY <1>2, SameHistoryGrows DEF PanesInv
<1> QED
  BY <1>1, <1>2, <1>3, <1>4, PanesFollow

(* Keys of the panes themselves.                                           *)
LEMMA HexLinesIsNat ==
  ASSUME NEW n \in Nat PROVE HexLines(n) \in Nat
BY DEF HexLines

LEMMA PaneKeepsList ==
  ASSUME PanesInv, UNCHANGED vars PROVE ListInv'
<1>1. UNCHANGED listVars /\ LoopSound'
  BY DEF vars, loopVars, PanesInv, ListInv, LoopSound
<1> QED
  BY <1>1, ListUnmoved DEF PanesInv

LEMMA MoveHexdumpStep ==
  ASSUME PanesAssumption, PanesInv, NEW key \in ListKeys, MoveHexdump(key) PROVE PanesInv'
<1>1. /\ UNCHANGED vars /\ UNCHANGED <<parsed, frequency, counted>>
      /\ hexdump' = MoveIndex(hexdump, key, HexdumpLines) /\ scrolled' = selected
  BY DEF MoveHexdump
<1>2. ListInv'
  BY <1>1, PaneKeepsList
<1>3. history' = history /\ selected' = selected /\ phase' = phase
  BY <1>1 DEF vars, loopVars, listVars
<1>4. CountsSound'
  BY <1>1, <1>3 DEF PanesInv, CountsSound, CountedKeys, Count
<1>5. HexdumpSound'
  <2>1. ASSUME selected \in window
        PROVE  /\ selected < Len(history) /\ HexdumpLines = HexLines(Payload[history[selected + 1]])
               /\ HexdumpLines \in Nat
    <3>1. selected \in Nat /\ selected < Len(history) /\ history \in Seq(Keys)
      BY <2>1, VisibleIsBelow DEF PanesInv, ListInv, WindowSound
    <3>2. Payload[history[selected + 1]] \in Nat
      BY <3>1 DEF PanesAssumption
    <3> QED
      BY <2>1, <3>1, <3>2, HexLinesIsNat DEF HexdumpLines
  <2>2. selected \notin window => HexdumpLines = 0
    BY DEF HexdumpLines
  <2>3. HexdumpLines \in Nat
    BY <2>1, <2>2
  <2>4. hexdump \in Nat /\ (HexdumpLines # 0 => hexdump < HexdumpLines)
    BY <2>1, <2>2, <2>3 DEF PanesInv, HexdumpSound
  <2>5. /\ hexdump' \in Nat /\ (HexdumpLines = 0 => hexdump' = 0)
        /\ HexdumpLines # 0 => hexdump' < HexdumpLines
    BY <1>1, <2>3, <2>4, MovesInside DEF PanesAssumption
  <2> QED
    BY <1>3, <2>1, <2>2, <2>5 DEF HexdumpSound
<1> QED
  BY <1>1, <1>2, <1>3, <1>4, <1>5 DEF PanesInv

LEMMA MoveParsedStep ==
  ASSUME PanesAssumption, PanesInv, NEW key \in ListKeys, MoveParsed(key) PROVE PanesInv'
<1>1. /\ UNCHANGED vars /\ UNCHANGED <<hexdump, frequency, counted>>
      /\ parsed' = MoveIndex(parsed, key, ParsedOf) /\ scrolled' = selected
  BY DEF MoveParsed
<1>2. ListInv'
  BY <1>1, PaneKeepsList
<1>3. history' = history /\ selected' = selected /\ phase' = phase
  BY <1>1 DEF vars, loopVars, listVars
<1>4. CountsSound' /\ HexdumpSound'
  BY <1>1, <1>3 DEF PanesInv, CountsSound, CountedKeys, Count, HexdumpSound
<1>5. parsed \in Nat /\ parsed < ParsedLines /\ ParsedOf \in {0, ParsedLines} /\ ParsedLines = 22
  BY DEF PanesInv, ParsedOf, ParsedLines
<1>6. /\ parsed' \in Nat /\ (ParsedOf = 0 => parsed' = 0) /\ (ParsedOf # 0 => parsed' < ParsedOf)
  BY <1>1, <1>5, MovesInside DEF PanesAssumption
<1>7. parsed' \in 0 .. ParsedLines - 1
  BY <1>5, <1>6
<1> QED
  BY <1>1, <1>2, <1>3, <1>4, <1>7 DEF PanesInv

LEMMA MoveFrequencyStep ==
  ASSUME PanesAssumption, PanesInv, NEW key \in ListKeys, MoveFrequency(key) PROVE PanesInv'
<1> DEFINE n == Cardinality(CountedKeys)
<1>1. /\ UNCHANGED vars /\ UNCHANGED <<hexdump, parsed, counted, scrolled>>
      /\ frequency' = MoveIndex(frequency, key, n)
  BY DEF MoveFrequency
<1>2. ListInv'
  BY <1>1, PaneKeepsList
<1>3. history' = history /\ selected' = selected /\ phase' = phase
  BY <1>1 DEF vars, loopVars, listVars
<1>4. n \in Nat
  <2>1. IsFiniteSet(Keys) /\ CountedKeys \in SUBSET Keys
    BY DEF PanesAssumption, CountedKeys
  <2> QED
    BY <2>1, FS_Subset, FS_CardinalityType
<1>5. n' = n
  BY <1>1, <1>3 DEF CountedKeys, Count
<1> HIDE DEF n
<1>6. frequency \in Nat /\ (n # 0 => frequency < n)
  BY <1>4 DEF PanesInv, CountsSound, n
<1>7. frequency' \in Nat /\ (n = 0 => frequency' = 0) /\ (n # 0 => frequency' < n)
  BY <1>1, <1>4, <1>6, MovesInside DEF PanesAssumption
<1>8. CountsSound'
  BY <1>1, <1>3, <1>5, <1>7 DEF PanesInv, CountsSound, n
<1>9. HexdumpSound'
  BY <1>1, <1>3 DEF PanesInv, HexdumpSound
<1> QED
  BY <1>1, <1>2, <1>3, <1>8, <1>9 DEF PanesInv

LEMMA PanesStep ==
  ASSUME PanesAssumption, PanesInv, [PNext]_<<vars, paneVars>>
  PROVE  PanesInv'
<1>1. TuiAssumption /\ ListInv
  BY DEF PanesAssumption, PanesInv
<1>2. ASSUME Unseen, UNCHANGED <<history, selected>>, ListInv',
             phase' = phase \/ phase' = "drain" \/ phase = "shown"
      PROVE  PanesInv'
  BY <1>2, PanesKept DEF Unseen, paneVars
<1>3. CASE \E e \in Keys : PEmit(e)
  <2>1. PICK e \in Keys : Emit(e) /\ Unseen
    BY <1>3 DEF PEmit
  <2>2. ListInv'
    BY <1>1, <2>1, ListStep DEF Next
  <2> QED
    BY <1>2, <2>1, <2>2 DEF Emit, listVars
<1>4. CASE PWaitReadable
  <2>1. ListInv'
    BY <1>1, <1>4, ListStep DEF Next, PWaitReadable
  <2> QED
    BY <1>2, <1>4, <2>1 DEF PWaitReadable, WaitReadable, listVars
<1>5. CASE PReceive
  BY <1>5, PReceiveStep
<1>6. CASE PDiscard
  <2>1. ListInv'
    BY <1>1, <1>6, ListStep DEF Next, PDiscard
  <2> QED
    BY <1>2, <1>6, <2>1 DEF PDiscard, Discard, listVars
<1>7. CASE PDrainEnds
  BY <1>7, PDrainEndsStep
<1>8. CASE PBackToSelect
  <2>1. ListInv'
    BY <1>1, <1>8, ListStep DEF Next, PBackToSelect
  <2> QED
    BY <1>2, <1>8, <2>1 DEF PBackToSelect, BackToSelect, listVars
<1>9. CASE \E key \in ListKeys : PMove(key) \/ MoveFrequency(key) \/ MoveHexdump(key) \/ MoveParsed(key)
  BY <1>9, PMoveStep, MoveFrequencyStep, MoveHexdumpStep, MoveParsedStep
<1>10. CASE SpaceFrequency
  BY <1>10, SpaceFrequencyStep
<1>11. CASE SpaceTransactions
  <2>1. ListInv'
    BY <1>1, <1>11, ListStep DEF Next, SpaceTransactions
  <2> QED
    BY <1>2, <1>11, <2>1 DEF SpaceTransactions, ToggleRecording, listVars, loopVars
<1>12. CASE NextPane
  <2>1. ListInv' /\ UNCHANGED <<history, selected, phase>>
    BY <1>12, PaneKeepsList DEF NextPane, vars, loopVars, listVars
  <2> QED
    BY <1>12, <2>1, PanesKept DEF NextPane
<1>13. CASE PClear
  BY <1>13, PClearStep
<1>14. CASE UNCHANGED <<vars, paneVars>>
  <2>1. ListInv' /\ UNCHANGED <<history, selected, phase>>
    BY <1>14, PaneKeepsList DEF vars, loopVars, listVars
  <2> QED
    BY <1>14, <2>1, PanesKept DEF paneVars
<1> QED
  BY <1>3, <1>4, <1>5, <1>6, <1>7, <1>8, <1>9, <1>10, <1>11, <1>12, <1>13, <1>14 DEF PNext

LEMMA PanesInit == ASSUME PanesAssumption, PInit PROVE PanesInv
<1>1. ListInv
  BY ListInit DEF PanesAssumption, PInit
<1>2. Len(history) = 0
  BY DEF PInit, Init
<1> QED
  BY <1>1, <1>2 DEF PInit, PanesInv, HexdumpSound, CountsSound, ParsedLines

LEMMA PanesAreSound == ASSUME PanesAssumption, PanesInv PROVE PanesStayInside
<1>1. ASSUME selected \in window
      PROVE  (hexdump = 0 \/ hexdump < HexdumpLines) /\ parsed < ParsedOf
  BY <1>1 DEF PanesInv, HexdumpSound, HexdumpLines, ParsedOf, ParsedLines
<1> QED
  BY <1>1 DEF PanesInv, CountsSound, PanesStayInside
=============================================================================

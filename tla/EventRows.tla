----------------------------- MODULE EventRows ------------------------------
(***************************************************************************)
(* What the MCP server (crates/bt-mcp/src/server.rs) and the WebUI         *)
(* (crates/bt-webui/rust/events.rs) do alike with the Binder events of     *)
(* their histories: the key an event is known by, the step that builds a   *)
(* page while the history is read, and the facts a page is answered with.  *)
(*                                                                         *)
(* An event is a record: seq, at (its timestamp), dir, id and to (the      *)
(* Binder debug ids, 0 for unknown), iface (a number for the interface     *)
(* token in the payload) and lost.  A name shown for it is a pair, of an   *)
(* interface or of the id a reply of unknown interface answers, so that    *)
(* names have an order.                                                    *)
(***************************************************************************)
EXTENDS Integers, Sequences, SequencesExt, FiniteSetsExt

None   == -1
AnyName == <<None, None>>

NameOf(i)    == <<0, i>>
ReplyTo(id)  == <<1, id>>

(* The key under which the calls and latencies are kept.                   *)
Key(e) == IF e.id = 0 THEN e.seq ELSE e.id

EmptyMap    == [k \in {} |-> None]
Put(f, k, v) == [x \in DOMAIN f \cup {k} |-> IF x = k THEN v ELSE f[x]]
Get(f, k, v) == IF k \in DOMAIN f THEN f[k] ELSE v

(* The call a reply answers, as it was noted when it came by.              *)
Known(s, e) == e.to \in DOMAIN s.summaries

ReplyName(s, e) == IF Known(s, e) THEN s.summaries[e.to].name ELSE ReplyTo(e.to)

ReplyLatency(s, e) ==
  IF Known(s, e) THEN Max({0, e.at - s.summaries[e.to].at}) ELSE None

Status(e, latency, slow) ==
  IF e.lost > 0 THEN "error" ELSE IF latency >= slow THEN "slow" ELSE "ok"

-----------------------------------------------------------------------------
(* Pages.                                                                  *)

Latest    == [kind |-> "latest", seq |-> None]
Before(n) == [kind |-> "before", seq |-> n]
After(n)  == [kind |-> "after",  seq |-> n]

(* before_seq wins over after_seq.                                         *)
PageRequest(before, after) ==
  IF before # None THEN Before(before) ELSE IF after # None THEN After(after) ELSE Latest

RequestMatches(req, seq) ==
  CASE req.kind = "latest" -> TRUE
    [] req.kind = "before" -> seq < req.seq
    [] req.kind = "after"  -> seq > req.seq

Clamp(n, low, high) == Max({low, Min({n, high})})

Prefix(s, n) == SubSeq(s, 1, Min({n, Len(s)}))

(* A page under construction: the rows kept so far, each with its ordinal  *)
(* among those the filter lets through, and how many those are.            *)
NoPage == [rows |-> <<>>, matched |-> 0]

(* Faulty variant: an ordinal among the rows the request matches.          *)
ExtendPageOrdinal(page, row, req, limit) ==
  LET rows == Append(page.rows, [ordinal |-> page.matched + 1, row |-> row])
  IN  IF RequestMatches(req, row.seq)
        THEN [matched |-> page.matched + 1,
              rows |-> IF req.kind # "after" /\ Len(rows) > limit THEN Tail(rows)
                       ELSE Prefix(rows, limit)]
        ELSE page

(* A row the filter lets through: the newest pages keep the last limit     *)
(* rows that match the request, a page after some event keeps the first.   *)
ExtendPage(page, row, req, limit) ==
  LET n    == page.matched + 1
      rows == Append(page.rows, [ordinal |-> n, row |-> row])
  IN  [matched |-> n,
       rows |-> IF ~RequestMatches(req, row.seq) THEN page.rows
                ELSE IF req.kind = "after" THEN IF Len(page.rows) < limit THEN rows ELSE page.rows
                ELSE IF Len(rows) > limit THEN Tail(rows) ELSE rows]

(* The page of the rows whose numbers are let through.                     *)
PageOf(rows, passing, req, limit) ==
  LET page[n \in 0 .. Len(rows)] ==
        IF n = 0 THEN NoPage
        ELSE IF n \in passing THEN ExtendPage(page[n - 1], rows[n], req, limit)
        ELSE page[n - 1]
  IN  page[Len(rows)]

(* What is said of the page: the ordinals of its ends, and whether rows    *)
(* lie outside; of an empty page nothing is.                               *)
Answer(page) ==
  LET empty == page.rows = <<>>
      start == IF empty THEN None ELSE Head(page.rows).ordinal
      end   == IF empty THEN None ELSE Last(page.rows).ordinal
  IN  [events     |-> [k \in DOMAIN page.rows |-> page.rows[k].row],
       matched    |-> page.matched,
       start      |-> start,
       end        |-> end,
       moreBefore |-> start > 1,
       moreAfter  |-> ~empty /\ end < page.matched]

(* Rows counted by the name they show, the most frequent first and those   *)
(* of one count by name.                                                   *)
NameLess(a, b) == a[1] < b[1] \/ (a[1] = b[1] /\ a[2] < b[2])

NameCounts(rows) ==
  LET Count(n) == Cardinality({k \in DOMAIN rows : rows[k].name = n})
      counts   == {[name |-> n, count |-> Count(n)] : n \in {rows[k].name : k \in DOMAIN rows}}
      Ahead(c) == {d \in counts :
                     d.count > c.count \/ (d.count = c.count /\ NameLess(d.name, c.name))}
  IN  [k \in 1 .. Cardinality(counts) |-> CHOOSE c \in counts : Cardinality(Ahead(c)) = k - 1]
=============================================================================

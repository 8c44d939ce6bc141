--------------------------- MODULE WebhookHistory ----------------------------
(***************************************************************************)
(* WebhookHistory of internal/webhook/history.go: the list of deliveries,  *)
(* the map byID into it, retention, and the reads (filter, sort, pages,    *)
(* statistics).  A delivery is shared by pointer with the notifier that    *)
(* records it; its creation time is a number, given before it is recorded. *)
(***************************************************************************)
EXTENDS Naturals, SequencesExt

CONSTANTS
  Deliveries,      \* delivery ids, used in order of creation
  MaxHistory       \* RetentionConfig.MaxEntries

ASSUME HistoryAssumption == Deliveries \subseteq Nat /\ MaxHistory \in Nat

VARIABLES
  entries,         \* h.entries: ids in the order they were recorded
  byID,            \* keys of h.byID
  delivery         \* the WebhookDelivery of each id kept: webhook and status

historyVars == <<entries, byID, delivery>>

HistoryInit ==
  /\ entries = <<>> /\ byID = {}
  /\ delivery = [d \in {} |-> 0]

\* RecordDelivery of a delivery that was built, at its creation time d, before.
RecordDelivery(d, h) ==
  /\ entries' = Append(entries, d)
  /\ byID' = byID \cup {d}
  /\ delivery' = [i \in DOMAIN delivery \cup {d} |->
       IF i = d THEN [hook |-> h, status |-> "delivering"] ELSE delivery[i]]

\* A delivery that retention or Clear has removed is not written to.  Attempt
\* number, duration and response, some of them set by UpdateDeliveryAttempt, are
\* only reported.
UpdateDeliveryStatus(d, status) ==
  /\ delivery' = IF d \in byID THEN [delivery EXCEPT ![d].status = status] ELSE delivery
  /\ UNCHANGED <<entries, byID>>

\* MUTANT: the entries that go stay in the map.
IndexOf_Kept(list) == byID

IndexOf(list) == Range(list)

\* What is left of the deliveries when list is kept.
Keep(list) ==
  /\ entries' = list
  /\ byID' = IndexOf(list)
  /\ delivery' = Restrict(delivery, byID')

\* The entries younger than the cutoff.
Younger(cutoff) ==
  LET With(list, d) == IF d > cutoff THEN Append(list, d) ELSE list
      young[i \in 0 .. Len(entries)] ==
        IF i = 0 THEN <<>> ELSE With(young[i - 1], entries[i])
  IN  young[Len(entries)]

\* A tick of retentionLoop, which need not come: Stop may have ended the loop.
\* enforceRetention: of the entries younger than the cutoff, the first recorded.
EnforceRetention(cutoff) ==
  LET young == Younger(cutoff)
      kept  == SubSeq(young, 1, IF Len(young) < MaxHistory THEN Len(young) ELSE MaxHistory)
  IN  /\ entries # <<>>
      /\ Keep(kept)

Clear == entries # <<>> /\ Keep(<<>>)
-----------------------------------------------------------------------------
(* Reads *)

\* applyFilter by webhook and status, newest first.
Filtered(hooks, statuses) ==
  SortSeq(SelectSeq(entries, LAMBDA d : delivery[d].hook \in hooks /\ delivery[d].status \in statuses),
          LAMBDA c, d : c > d)

TotalPages(list, perPage) ==
  Len(list) \div perPage + IF Len(list) % perPage = 0 THEN 0 ELSE 1

\* MUTANT: a full page takes one entry too many.
PageEnd_OffByOne(list, page, perPage) ==
  IF page * perPage + 1 > Len(list) THEN Len(list) ELSE page * perPage + 1

PageEnd(list, page, perPage) ==
  IF page * perPage > Len(list) THEN Len(list) ELSE page * perPage

\* GetHistory with page and perPage in range; page 0 is page 1.
Page(list, page, perPage) ==
  LET start == (page - 1) * perPage
  IN  IF start >= Len(list) THEN <<>> ELSE SubSeq(list, start + 1, PageEnd(list, page, perPage))

\* GetRecentDeliveries.
Recent(limit) ==
  LET n == IF limit = 0 \/ limit > Len(entries) THEN Len(entries) ELSE limit
  IN  [i \in 1..n |-> entries[Len(entries) + 1 - i]]

\* GetWebhookStats counts four statuses, and "delivering" in the total only.
Counted == {"success", "failed", "retrying", "pending"}
CountDeliveries(h, statuses) ==
  Len(SelectSeq(entries, LAMBDA d : delivery[d].hook = h /\ delivery[d].status \in statuses))
=============================================================================

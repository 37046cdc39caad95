------------------------------- MODULE McpTail -------------------------------
(***************************************************************************)
(* The reading tools of the MCP server (waitbus/mcp.py): an agent pages    *)
(* through a lane of the table with tail_events or read_agent_messages,    *)
(* passing each next_cursor back, while producers commit, rows are pruned  *)
(* and an empty window is waited on through the daemon.                    *)
(*                                                                         *)
(* Rows are known by their place in seq order; a row's event_id is looked  *)
(* up in the table, so the cursor is the row, or nothing when it is gone.  *)
(***************************************************************************)
EXTENDS Integers, FiniteSetsExt, SequencesExt

CONSTANTS
  Types,      \* event types; "message" is agent_message
  Supported,  \* event_types_supported() of the server's process
  Limit,      \* rows of a page
  MaxRows,    \* bound: rows
  MaxCalls    \* bound: calls

(* event_types_supported() names the built-in sources' types too.          *)
ASSUME TailAssumption ==
  /\ Supported \subseteq Types /\ Supported \ {"message"} # {}
  /\ {"default", "inbox"} \cap Types = {}
  /\ Limit \in Nat \ {0}

VARIABLES
  lane,    \* what is read: "default", "inbox", or a set of types
  rows,    \* the types of the rows, in seq order
  gone,    \* rows that are pruned
  stage,   \* "idle", "subscribe", "parked", "woken", "expired"
  cursor,  \* the next_cursor the agent holds; 0 for none
  next,    \* the next row on the stream of the parked call
  pulled,  \* rows returned, by all calls (history)
  lost,    \* a call was made with a cursor whose row is pruned (history)
  calls    \* calls made

table == <<rows, gone>>
tailVars == <<lane, table, stage, cursor, next, pulled, lost, calls>>

(* _event_type_filter; read_agent_messages reads the messages.             *)
Wanted ==
  IF lane = "default" THEN Types \ {"message"}
  ELSE IF lane = "inbox" THEN {"message"} ELSE {lane}

(* _subscribe_event_types: an allow-list, and all types rather than none.  *)
SubscribeTypes ==
  LET keep == Supported \cap Wanted IN IF keep = {} THEN Supported ELSE keep

(* seq_for_event_id.                                                       *)
SinceSeq == IF cursor \in gone THEN 0 ELSE cursor

(* The rows above the cursor, in seq order.                                *)
Above == {i \in DOMAIN rows \ gone : i > SinceSeq /\ rows[i] \in Wanted}

InOrder(S) ==
  CHOOSE s \in [1 .. Cardinality(S) -> S] : \A k, l \in DOMAIN s : k < l => s[k] < s[l]

Page == SubSeq(InOrder(Above), 1, Min({Limit, Cardinality(Above)}))

-----------------------------------------------------------------------------

(* Mutant: next_cursor is the newest row, not the last of the page.        *)
ReturnNewest ==
  /\ pulled' = pulled \o Page
  /\ cursor' = IF Page = <<>> THEN cursor ELSE Len(rows)
  /\ lost' = (lost \/ cursor \in gone)
  /\ stage' = "idle"

(* _tail_events_read, _read_agent_messages_impl.                           *)
ReturnPage ==
  /\ pulled' = pulled \o Page
  /\ cursor' = IF Page = <<>> THEN cursor ELSE Last(Page)
  /\ lost' = (lost \/ cursor \in gone)
  /\ stage' = "idle"

(* The call, with or without a wait; the inbox has none.                   *)
Call(wait) ==
  /\ stage = "idle" /\ calls < MaxCalls
  /\ calls' = calls + 1
  /\ IF Page # <<>> \/ ~wait \/ lane = "inbox" THEN ReturnPage
     ELSE stage' = "subscribe" /\ UNCHANGED <<cursor, pulled, lost>>
  /\ UNCHANGED <<lane, table, next>>

(* _tail_events_blocking: open_subscriber, with the cursor as `since`;     *)
(* without the daemon, the empty result read before.                       *)
OpenSubscriber ==
  /\ stage = "subscribe"
  /\ \/ /\ stage' = "parked"
        /\ next' = 1 + IF cursor = 0 THEN Len(rows) ELSE SinceSeq
     \/ stage' = "idle" /\ UNCHANGED next
  /\ UNCHANGED <<lane, table, cursor, pulled, lost, calls>>

(* The daemon's next frame; it sends what the filter passes.               *)
Frame ==
  /\ stage = "parked" /\ next <= Len(rows)
  /\ next' = next + 1
  /\ stage' = IF next \notin gone /\ rows[next] \in SubscribeTypes THEN "woken" ELSE "parked"
  /\ UNCHANGED <<lane, table, cursor, pulled, lost, calls>>

(* The deadline, or the end of the connection.                             *)
Expire ==
  /\ stage = "parked"
  /\ stage' = "expired"
  /\ UNCHANGED <<lane, table, cursor, next, pulled, lost, calls>>

(* The daemon rejects the subscription: the tool call is an error.         *)
Rejected ==
  /\ stage = "parked"
  /\ stage' = "idle"
  /\ UNCHANGED <<lane, table, cursor, next, pulled, lost, calls>>

(* The row, not the frame, is what the call returns.                       *)
Reread ==
  /\ stage \in {"woken", "expired"}
  /\ ReturnPage
  /\ UNCHANGED <<lane, table, next, calls>>

-----------------------------------------------------------------------------
(* The table: emit_agent_message, and every other producer; db-prune.      *)

CommitRow(type) ==
  /\ Len(rows) < MaxRows
  /\ rows' = Append(rows, type)
  /\ UNCHANGED <<lane, gone, stage, cursor, next, pulled, lost, calls>>

(* Old by received_at, which need not follow seq.                          *)
Prune(i) ==
  /\ i \notin gone
  /\ gone' = gone \cup {i}
  /\ UNCHANGED <<lane, rows, stage, cursor, next, pulled, lost, calls>>

TailInit ==
  /\ lane \in {"default", "inbox"} \cup Types
  /\ rows = <<>> /\ gone = {} /\ stage = "idle" /\ cursor = 0 /\ next = 1
  /\ pulled = <<>> /\ lost = FALSE /\ calls = 0

TailNext ==
  \/ \E wait \in BOOLEAN : Call(wait)
  \/ OpenSubscriber \/ Frame \/ Expire \/ Rejected \/ Reread
  \/ \E type \in Types : CommitRow(type)
  \/ \E i \in DOMAIN rows : Prune(i)

TailSpec == TailInit /\ [][TailNext]_tailVars

-----------------------------------------------------------------------------
(* Properties.                                                             *)

(* Paging forward by next_cursor neither misses nor repeats a row of the   *)
(* lane, whatever commits between the pages, in the windows that are       *)
(* waited on included: what lies up to the cursor is pulled or pruned, and *)
(* nothing is pulled twice unless the cursor's own row is pruned           *)
(* (mcp.py:1841 "without missing or repeating events").                    *)
PagedExactly ==
  /\ \A i \in 1..cursor : rows[i] \in Wanted => i \in Range(pulled) \/ i \in gone
  /\ ~lost => \A k, l \in DOMAIN pulled : k < l => pulled[k] < pulled[l]

(* A call that waits, with a cursor, is woken by the rows it would return  *)
(* and by no others (mcp.py:828 "a spurious wake"): each that its          *)
(* subscription covers is still to come, and once one has come there is    *)
(* something to return.  Pruning may take it away again.                   *)
WakesForWhatItReturns ==
  lane = "default" \/ lane \in Supported =>
    /\ stage = "parked" /\ cursor \notin gone \cup {0} =>
         \A i \in Above : rows[i] \in Supported => i >= next
    /\ stage = "woken" /\ gone = {} => Page # <<>>

(* Both: an agent that reads its inbox by waiting and paging sees each row *)
(* of the lane and is woken for nothing else.                              *)
InboxIsExact == PagedExactly /\ WakesForWhatItReturns
=============================================================================

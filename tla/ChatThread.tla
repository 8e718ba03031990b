----------------------------- MODULE ChatThread -----------------------------
(***************************************************************************)
(* One direct chat: what it shows, what is stored of it, and the receipts  *)
(* that leave it (core/chats.rs, chat_receipts.rs, message_expiry.rs and   *)
(* the tables of core/storage/store.rs).                                   *)
(*                                                                         *)
(* Handlers run in batches: an action of the user in one of its own, events *)
(* of the core in one with any number of others.  At its end what has      *)
(* changed is saved, and then the receipts collected in it leave.  Some    *)
(* rows are written earlier: a message that arrives, so that notifications *)
(* find it; and some are deleted at once.  Delivered receipts are held     *)
(* back for a while by one timer; a second timer removes messages that     *)
(* expire.  The process may end anywhere; what it had not remembered as    *)
(* seen is delivered again.                                                *)
(***************************************************************************)
EXTENDS Naturals, FiniteSets

CONSTANTS
    Theirs,     \* messages of the peer
    Mine,       \* messages the user writes on this device
    Linked,     \* messages the user writes on another device
    Written,    \* Written[m]: when m was written, the order of the chat
    Expiry,     \* Expiry[m]: the second it expires, 0 if it does not
    Twice,      \* messages of the peer that reach this device in two events
    ReadThere,  \* those that another device of the user's reports as read
    LongEvents, \* whether several events may share a batch
    LastSecond, \* bound on time
    MaxInputs,  \* bound on actions of the user and events that arrive
    MaxEnds     \* bound on ends of the process

Rows == Theirs \cup Mine \cup Linked

ASSUME ChatAssumption ==
    /\ Theirs \cap (Mine \cup Linked) = {} /\ Mine \cap Linked = {}
    /\ IsFiniteSet(Rows) /\ LongEvents \in BOOLEAN
    /\ Written \in [Rows -> Nat] /\ Expiry \in [Rows -> Nat]
    /\ Twice \subseteq Theirs /\ ReadThere \subseteq Theirs

\* DeliveryState; Failed is never set.
Statuses == {"queued", "pending", "sent", "received", "seen"}

\* delivery_rank.
Rank == [queued |-> 0, pending |-> 1, sent |-> 2, received |-> 3, seen |-> 4]

\* Inner events: a message, the note of another device that it was read there, a
\* receipt of the peer; and the second event of a message.
Inner == [of : Rows, kind : {"message", "again", "read", "received", "seen"}]

Arrival(m, kind) == [of |-> m, kind |-> kind]

VARIABLES
    step,      \* where the actor is, see Steps
    now,       \* the second
    chat,       \* the actor's memory, see AppType
    table,     \* what is stored of it
    unsaved,   \* batch_dirty_persist
    opening,   \* OpenChatFinalize is in the mailbox
    pending,   \* pending_delivered_receipts
    flush,     \* their timer: a deadline is set, a task with the current token waits
    leaving,   \* pending_outgoing_receipts, of this batch
    gone,      \* history: receipts that have left, of messages that are still there
    alarm,     \* the second the current expiry timer waits for, or 0
    owed,      \* own messages in the publish queue, which is stored at once
    out,       \* own messages some server has
    fresh,     \* history: messages counted as unread that nobody has read since
    blurred,   \* history: an expired message that was read has been subtracted since
    overdue,   \* history: messages that came when they had expired
    inputs,    \* actions of the user and events that arrived so far
    ends       \* ends of the process so far

chatVars == <<step, now, chat, table, unsaved, opening, pending, flush, leaving, gone,
              alarm, owed, out, fresh, blurred, overdue, inputs, ends>>

\* idle; action, events: in a batch; saved: the batch has been saved, its receipts
\* have not left.
Steps == {"down", "idle", "action", "events", "saved"}

AppType == [rows : [Rows -> Statuses \cup {"none"}],  \* loaded or stored messages
            unread : Nat,
            accepted : BOOLEAN,                       \* accepted_owner_pubkeys has the peer
            receipts : BOOLEAN,                       \* send_read_receipts
            open : BOOLEAN,                           \* the chat is on the screen
            seen : SUBSET Inner]                      \* seen_event_order

Receipts == {"delivered", "seen"} \X Theirs

\* The types of the variables.  Only messages of the peer get receipts.
ChatTypeOK ==
    /\ step \in Steps /\ now \in Nat
    /\ chat \in AppType /\ table \in AppType
    /\ {unsaved, opening, blurred} \subseteq BOOLEAN
    /\ pending \subseteq Theirs
    /\ flush \in [set : BOOLEAN, waits : BOOLEAN]
    /\ leaving \subseteq Receipts /\ gone \subseteq Receipts
    /\ alarm \in Nat
    /\ owed \subseteq Mine /\ out \subseteq Mine \cup Linked
    /\ fresh \subseteq Theirs /\ overdue \subseteq Rows
    /\ inputs \in Nat /\ ends \in Nat

Nothing == [m \in Rows |-> "none"]

ChatInit ==
    /\ step = "idle" /\ now = 0
    \* The peer may have been accepted before.
    /\ \E accepted \in BOOLEAN :
           chat = [rows |-> Nothing, unread |-> 0, accepted |-> accepted, receipts |-> TRUE,
                  open |-> FALSE, seen |-> {}]
    /\ table = chat
    /\ unsaved = FALSE /\ opening = FALSE /\ blurred = FALSE
    /\ pending = {} /\ flush = [set |-> FALSE, waits |-> FALSE]
    /\ leaving = {} /\ gone = {}
    /\ alarm = 0 /\ owed = {} /\ out = {}
    /\ fresh = {} /\ overdue = {} /\ inputs = 0 /\ ends = 0

-----------------------------------------------------------------------------
(* What the handlers look at.                                              *)

Loaded == {m \in Rows : chat.rows[m] # "none"}
Stored == {m \in Rows : table.rows[m] # "none"}

\* is_message_request_thread, for a direct chat.
IsRequest(a) ==
    /\ ~a.accepted
    /\ \A m \in Mine \cup Linked : a.rows[m] = "none"
    /\ \E m \in Theirs : a.rows[m] # "none"

\* Mutant: the last receipt wins.
AdvancedAnyway(rows, m, status) ==
    IF rows[m] # "none" THEN [rows EXCEPT ![m] = status] ELSE rows

\* apply_receipt_to_messages, should_advance_delivery: a loaded row only rises.
Advanced(rows, m, status) ==
    IF rows[m] # "none" /\ Rank[status] > Rank[rows[m]]
    THEN [rows EXCEPT ![m] = status] ELSE rows

Expired(m) == Expiry[m] # 0 /\ Expiry[m] <= now

\* Mutant: only the messages in memory are looked at.
NextAlarmLoaded(a, t) ==
    LET later == {Expiry[m] : m \in {n \in Rows : a.rows[n] # "none"}} \ 0 .. now
    IN  IF later = {} THEN 0 ELSE CHOOSE x \in later : \A y \in later : x <= y

\* schedule_next_message_expiry: what is loaded or stored and expires later.
NextAlarm(a, t) ==
    LET later == {Expiry[m] : m \in {n \in Rows : a.rows[n] # "none" \/ t.rows[n] # "none"}}
                     \ 0 .. now
    IN  IF later = {} THEN 0 ELSE CHOOSE x \in later : \A y \in later : x <= y

\* An own message is settled when nothing of it is left to publish.
Settled(rows, left) ==
    [m \in Rows |-> IF m \in Mine \cup Linked /\ rows[m] \in {"pending", "queued"} /\ m \notin left
                    THEN "sent" ELSE rows[m]]

InEvents ==
    /\ step = "idle" \/ (step = "events" /\ LongEvents)
    /\ step' = "events"

Input == inputs < MaxInputs /\ inputs' = inputs + 1

InAction == step = "idle" /\ step' = "action" /\ Input

\* Handlers that leave the timers, the receipts and the publish queue alone.
NoReceipts == UNCHANGED <<pending, flush, leaving, gone>>
NoOutbox == UNCHANGED <<owed, out>>

\* Whatever marks the chat as read ends the history of what is new in it.
ReadNow == fresh' = {} /\ blurred' = FALSE
NotRead == UNCHANGED <<fresh, blurred>>

-----------------------------------------------------------------------------
(* Delivered receipts are held back.                                       *)

\* queue_delivered_receipt, schedule_pending_delivered_receipt_flush: entries come
\* in the order of their deadlines, so one that is set stays.
Armed(P, f) == IF P = {} THEN [f EXCEPT !.set = FALSE]
               ELSE IF f.set THEN f ELSE [set |-> TRUE, waits |-> TRUE]

\* Mutant: the settings are looked at again, the message is not.
ShouldSendAnyway(m) == chat.receipts /\ ~IsRequest(chat)

\* should_send_pending_delivered_receipt.
ShouldSend(m) ==
    chat.receipts /\ ~IsRequest(chat) /\ chat.rows[m] \notin {"none", "seen"}

\* handle_pending_delivered_receipt_flush: D is due; none may be, when the one the
\* timer was set for has been cancelled.
FlushFires ==
    /\ InEvents /\ flush.waits
    /\ \E D \in SUBSET pending :
           /\ leaving' = leaving \cup {<<"delivered", m>> : m \in {n \in D : ShouldSend(n)}}
           /\ pending' = pending \ D
           /\ flush' = Armed(pending', [set |-> FALSE, waits |-> FALSE])
    /\ NoOutbox /\ NotRead
    /\ UNCHANGED <<now, chat, table, unsaved, opening, gone, alarm, overdue, inputs, ends>>

\* Mutant: the token is advanced and the deadline stays.
CancelledKeepingDeadline(M) ==
    /\ pending' = pending \ M
    /\ flush' = IF pending \cap M # {} /\ pending' = {}
                THEN [flush EXCEPT !.waits = FALSE] ELSE flush

\* cancel_pending_delivered_receipts: the timer goes with the last entry.
Cancelled(M) ==
    /\ pending' = pending \ M
    /\ flush' = IF pending \cap M # {} /\ pending' = {}
                THEN [set |-> FALSE, waits |-> FALSE] ELSE flush

-----------------------------------------------------------------------------
(* Messages and receipts arrive.                                           *)

\* A message that was not there yet is a row at once, in memory and with the count
\* of unread messages in the table (push_incoming_message_from).
Inserted(m) == [chat EXCEPT !.rows[m] = "received", !.unread = IF chat.open THEN @ ELSE @ + 1]

\* Mutant: the row alone.
PreviewedRow(a, m) == [table EXCEPT !.rows[m] = "received"]

Previewed(a, m) == [table EXCEPT !.rows[m] = "received", !.unread = a.unread]

\* apply_decrypted_runtime_message_with_metadata: a message of the peer, in its first
\* event or in the second; a delivered receipt is queued for either.
ReceiveMessage(m, kind) ==
    LET new == m \notin Loaded \cup Stored
        a   == IF new THEN Inserted(m) ELSE chat
    IN  /\ m \in Theirs /\ (kind = "message" \/ (kind = "again" /\ m \in Twice))
        /\ InEvents /\ Input /\ Arrival(m, kind) \notin chat.seen
        /\ chat' = [a EXCEPT !.seen = @ \cup {Arrival(m, kind)}]
        /\ table' = IF new THEN Previewed(a, m) ELSE table
        /\ unsaved' = TRUE
        /\ fresh' = IF new /\ ~chat.open THEN fresh \cup {m} ELSE fresh
        /\ overdue' = IF new /\ Expired(m) THEN overdue \cup {m} ELSE overdue
        /\ alarm' = IF new /\ Expiry[m] # 0 THEN NextAlarm(a, table') ELSE alarm
        /\ pending' = IF chat.receipts /\ ~IsRequest(a) THEN pending \cup {m} ELSE pending
        /\ flush' = IF pending' = pending THEN flush ELSE Armed(pending', flush)
        /\ NoOutbox
        /\ UNCHANGED <<now, opening, leaving, gone, blurred, ends>>

\* apply_runtime_text_message, push_outgoing_message_with_id: the user's own message,
\* from another device.  Writing to the peer accepts it.
ReceiveLinked(m) ==
    /\ InEvents /\ Input /\ m \in Linked /\ Arrival(m, "message") \notin chat.seen
    /\ chat' = [chat EXCEPT !.rows[m] = "sent", !.accepted = @ \/ m \notin Loaded,
                          !.seen = @ \cup {Arrival(m, "message")}]
    /\ out' = out \cup {m}
    /\ unsaved' = TRUE
    /\ overdue' = IF m \notin Loaded /\ Expired(m) THEN overdue \cup {m} ELSE overdue
    /\ alarm' = IF m \notin Loaded /\ Expiry[m] # 0 THEN NextAlarm(chat', table) ELSE alarm
    /\ NoReceipts /\ NotRead
    /\ UNCHANGED <<now, table, opening, owed, ends>>

\* apply_receipt_to_messages, from another device of the user's: it was read there.
ReceiveRead(m) ==
    /\ InEvents /\ Input /\ m \in ReadThere /\ Arrival(m, "read") \notin chat.seen
    /\ chat' = [chat EXCEPT !.rows = Advanced(@, m, "seen"), !.unread = 0,
                          !.seen = @ \cup {Arrival(m, "read")}]
    /\ unsaved' = TRUE
    /\ ReadNow /\ NoReceipts /\ NoOutbox
    /\ UNCHANGED <<now, table, opening, alarm, overdue, ends>>

\* The same, from the peer, who has the message.
ReceiveReceipt(m, status) ==
    /\ InEvents /\ Input /\ m \in out /\ status \in {"received", "seen"}
    /\ Arrival(m, status) \notin chat.seen
    /\ chat' = [chat EXCEPT !.rows = Advanced(@, m, status), !.seen = @ \cup {Arrival(m, status)}]
    /\ unsaved' = TRUE
    /\ NoReceipts /\ NoOutbox /\ NotRead
    /\ UNCHANGED <<now, table, opening, alarm, overdue, ends>>

-----------------------------------------------------------------------------
(* What the user does.                                                     *)

\* send_message, send_direct_message: its events are in the publish queue at once.
SendMessage(m) ==
    /\ InAction /\ m \in Mine /\ m \notin Loaded \cup owed \cup out
    /\ chat' = [chat EXCEPT !.rows[m] = "pending", !.accepted = TRUE, !.open = TRUE]
    /\ owed' = owed \cup {m}
    /\ unsaved' = TRUE
    /\ alarm' = IF Expiry[m] # 0 THEN NextAlarm(chat', table) ELSE alarm
    /\ NoReceipts /\ NotRead
    /\ UNCHANGED <<now, table, opening, out, overdue, ends>>

\* open_chat: the stored page takes the place of the rows in memory.  Nothing is
\* saved before the finalize.
OpenChat ==
    /\ InAction
    /\ chat' = [chat EXCEPT !.rows = [m \in Rows |-> IF m \in Stored THEN table.rows[m] ELSE @[m]],
                          !.unread = 0, !.open = TRUE]
    /\ opening' = TRUE
    /\ ReadNow /\ NoReceipts /\ NoOutbox
    /\ UNCHANGED <<now, table, unsaved, alarm, overdue, ends>>

\* navigate_back, sync_active_chat_from_router.
LeaveChat ==
    /\ InAction /\ chat.open
    /\ chat' = [chat EXCEPT !.open = FALSE]
    /\ unsaved' = TRUE
    /\ NoReceipts /\ NoOutbox /\ NotRead
    /\ UNCHANGED <<now, table, opening, alarm, overdue, ends>>

\* mark_messages_seen, for the messages M a shell has shown; the linked devices are
\* told in any case, the peer only if the user wants that.
MarkSeen(M) ==
    LET ids == M \cap Loaded
    IN  /\ InAction /\ ids # {}
        /\ chat' = [chat EXCEPT !.rows = [m \in Rows |-> IF m \in ids THEN "seen" ELSE @[m]],
                              !.unread = 0]
        /\ unsaved' = (chat' # chat)
        /\ leaving' = {<<"seen", m>> : m \in {n \in ids : chat.receipts /\ ~IsRequest(chat)}}
        /\ Cancelled(ids)
        /\ ReadNow /\ NoOutbox
        /\ UNCHANGED <<now, table, opening, gone, alarm, overdue, ends>>

\* set_chat_unread.
SetUnread(mark) ==
    /\ InAction /\ Loaded # {} /\ (mark <=> chat.unread = 0)
    /\ chat' = [chat EXCEPT !.unread = IF mark THEN 1 ELSE 0]
    /\ unsaved' = TRUE
    /\ (IF mark THEN NotRead ELSE ReadNow) /\ NoReceipts /\ NoOutbox
    /\ UNCHANGED <<now, table, opening, alarm, overdue, ends>>

\* accept_message_request.
Accept ==
    /\ InAction /\ ~chat.accepted
    /\ chat' = [chat EXCEPT !.accepted = TRUE]
    /\ unsaved' = TRUE
    /\ NoReceipts /\ NoOutbox /\ NotRead
    /\ UNCHANGED <<now, table, opening, alarm, overdue, ends>>

\* set_read_receipts_enabled.
SetReceipts ==
    /\ InAction
    /\ chat' = [chat EXCEPT !.receipts = ~@]
    /\ unsaved' = TRUE
    /\ NoReceipts /\ NoOutbox /\ NotRead
    /\ UNCHANGED <<now, table, opening, alarm, overdue, ends>>

Without(rows, M) == [m \in Rows |-> IF m \in M THEN "none" ELSE rows[m]]

\* The history of rows that go.
Forgets(M) ==
    /\ gone' = {r \in gone : r[2] \notin M}
    /\ overdue' = overdue \ M

\* delete_local_message.
DeleteMessage(m) ==
    /\ InAction /\ m \in Loaded
    /\ chat' = [chat EXCEPT !.rows = Without(@, {m}), !.unread = IF chat.open THEN 0 ELSE @]
    /\ table' = [table EXCEPT !.rows = Without(@, {m})]
    /\ unsaved' = TRUE
    /\ Forgets({m})
    /\ IF chat.open THEN ReadNow ELSE fresh' = fresh \ {m} /\ UNCHANGED blurred
    /\ NoOutbox
    /\ UNCHANGED <<now, opening, pending, flush, leaving, alarm, ends>>

\* delete_chat: the thread goes with its rows; it is made anew when needed.
DeleteChat ==
    /\ InAction
    /\ chat' = [chat EXCEPT !.rows = Nothing, !.unread = 0, !.open = FALSE]
    /\ table' = [table EXCEPT !.rows = Nothing, !.unread = 0]
    /\ unsaved' = TRUE
    /\ Forgets(Rows) /\ ReadNow /\ NoOutbox
    /\ UNCHANGED <<now, opening, pending, flush, leaving, alarm, ends>>

-----------------------------------------------------------------------------
(* Messages expire.                                                        *)

Minus(a, b) == IF a < b THEN 0 ELSE a - b

\* prune_expired_messages: loaded messages of the peer that expire are taken from
\* the count, read or not.
Prune ==
    LET M    == {m \in Rows : Expired(m)}
        over == M \cap Loaded \cap Theirs
    IN  /\ chat' = [chat EXCEPT !.rows = Without(@, M), !.unread = Minus(@, Cardinality(over))]
        /\ table' = [table EXCEPT !.rows = Without(@, M)]
        /\ alarm' = NextAlarm(chat', table')
        /\ fresh' = fresh \ M
        /\ blurred' = (blurred \/ ~(over \subseteq fresh))
        /\ Forgets(M)

\* handle_prune_expired_messages, with the current token.
AlarmRings ==
    /\ InEvents /\ alarm # 0 /\ alarm <= now
    /\ Prune
    /\ unsaved' = (unsaved \/ chat.rows # chat'.rows \/ table.rows # table'.rows)
    /\ NoOutbox
    /\ UNCHANGED <<now, opening, pending, flush, leaving, inputs, ends>>

\* open_chat_finalize, unless the user has left.
OpenFinalized ==
    /\ InEvents /\ opening /\ opening' = FALSE
    /\ IF chat.open THEN Prune /\ unsaved' = TRUE
       ELSE UNCHANGED <<chat, table, alarm, gone, overdue, unsaved>> /\ NotRead
    /\ NoOutbox
    /\ UNCHANGED <<now, pending, flush, leaving, inputs, ends>>

Tick ==
    /\ step = "idle" /\ now < LastSecond
    /\ now' = now + 1
    /\ NoReceipts /\ NoOutbox /\ NotRead
    /\ UNCHANGED <<step, chat, table, unsaved, opening, alarm, overdue, inputs, ends>>

-----------------------------------------------------------------------------
(* The publish queue reports.                                              *)

\* handle_relay_publish_finished: a server has it, or has it without saying so, or
\* has not.
PublishSucceeds(m) ==
    /\ InEvents /\ m \in owed
    /\ owed' = owed \ {m} /\ out' = out \cup {m}
    /\ chat' = [chat EXCEPT !.rows = Settled(@, owed')]
    /\ unsaved' = TRUE
    /\ NoReceipts /\ NotRead
    /\ UNCHANGED <<now, table, opening, alarm, overdue, inputs, ends>>

PublishFails(m) ==
    /\ InEvents /\ m \in owed
    /\ out' \in {out, out \cup {m}}
    /\ chat' = IF m \in Loaded THEN [chat EXCEPT !.rows[m] = "queued"] ELSE chat
    /\ unsaved' = TRUE
    /\ NoReceipts /\ NotRead
    /\ UNCHANGED <<now, table, opening, alarm, owed, overdue, inputs, ends>>

-----------------------------------------------------------------------------
(* Batches and the process.                                                *)

\* exit_batch, save_state: every loaded row is written, the stored ones that are not
\* loaded stay.
EndBatch ==
    /\ step \in {"action", "events"} /\ step' = "saved"
    /\ table' = IF unsaved
                THEN [chat EXCEPT !.rows = [m \in Rows |-> IF m \in Loaded THEN @[m]
                                                         ELSE table.rows[m]]]
                ELSE table
    /\ unsaved' = FALSE
    /\ NoReceipts /\ NoOutbox /\ NotRead
    /\ UNCHANGED <<now, chat, opening, alarm, overdue, inputs, ends>>

\* The receipts collected in the batch leave.
ReceiptsLeave ==
    /\ step = "saved" /\ step' = "idle"
    /\ gone' = gone \cup leaving /\ leaving' = {}
    /\ NoOutbox /\ NotRead
    /\ UNCHANGED <<now, chat, table, unsaved, opening, pending, flush, alarm, overdue, inputs, ends>>

EndProcess ==
    /\ step # "down" /\ step' = "down"
    /\ ends < MaxEnds /\ ends' = ends + 1
    /\ chat' = table
    /\ unsaved' = FALSE /\ opening' = FALSE
    /\ pending' = {} /\ flush' = [set |-> FALSE, waits |-> FALSE] /\ leaving' = {}
    /\ alarm' = 0
    /\ NoOutbox /\ NotRead
    /\ UNCHANGED <<now, table, gone, overdue, inputs>>

\* load_persisted, load_threads: what has expired is deleted; of a chat that was
\* not open only the newest message is loaded.
StartProcess ==
    LET M      == {m \in Rows : Expired(m)}
        kept   == Stored \ M
        newest == {m \in kept : \A n \in kept : Written[n] <= Written[m]}
    IN  /\ step = "down" /\ step' = "action"
        /\ table' = [table EXCEPT !.rows = Without(@, M)]
        /\ chat' = [table' EXCEPT !.rows = Without(@, IF table.open THEN {} ELSE kept \ newest)]
        /\ alarm' = NextAlarm(chat', table')
        /\ unsaved' = TRUE
        /\ fresh' = fresh \ M
        /\ Forgets(M) /\ NoOutbox
        /\ UNCHANGED <<now, opening, pending, flush, leaving, blurred, inputs, ends>>

-----------------------------------------------------------------------------
Arrives(m) ==
    \/ \E kind \in {"message", "again"} : ReceiveMessage(m, kind)
    \/ ReceiveLinked(m) \/ ReceiveRead(m)
    \/ \E status \in {"received", "seen"} : ReceiveReceipt(m, status)

ChatNext ==
    \/ \E m \in Rows : Arrives(m) \/ SendMessage(m) \/ DeleteMessage(m) \/ PublishSucceeds(m) \/ PublishFails(m)
    \/ \E M \in SUBSET Theirs : MarkSeen(M)
    \/ \E mark \in BOOLEAN : SetUnread(mark)
    \/ OpenChat \/ LeaveChat \/ Accept \/ SetReceipts \/ DeleteChat
    \/ FlushFires \/ AlarmRings \/ OpenFinalized \/ Tick
    \/ EndBatch \/ ReceiptsLeave \/ EndProcess \/ StartProcess

ChatSpec == ChatInit /\ [][ChatNext]_chatVars

\* Batches end and the process is started again.  Timers ring between the batches of
\* others; the one of the receipts is at last late enough for all of them.
ChatFairness ==
    /\ WF_chatVars(EndBatch \/ ReceiptsLeave \/ StartProcess)
    /\ SF_chatVars(FlushFires /\ pending' = {}) /\ SF_chatVars(AlarmRings)

-----------------------------------------------------------------------------
(* Properties.                                                             *)

\* Both timers are there as long as they have work: cancelling some held receipts when
\* they are read, and queueing others, never leaves a deadline without the task for
\* it; and whatever is deleted, restored or comes in late, a message that expires
\* later, in memory or only in the table, has a timer no later than that.
TimersArmed ==
    /\ pending # {} => flush = [set |-> TRUE, waits |-> TRUE]
    /\ step # "down" =>
           \A m \in Loaded \cup Stored : Expiry[m] > now => alarm # 0 /\ alarm <= Expiry[m]

\* The badge of a chat does not go out while a message in it that came with the chat
\* closed has not been read on any device, wherever the process ended since.
\* (Messages that were read and then expire lower the count; see blurred.)
UnreadIsShown ==
    step # "down" /\ fresh \cap (Loaded \cup Stored) # {} => chat.unread > 0 \/ blurred

\* However timers, second events, restarts and batches interleave, a peer that was
\* told a message is seen is not told afterwards that it was delivered; and no receipt
\* leaves while receipts are switched off or, unless another event of its batch has
\* made it one, the chat is a request that the user has not accepted.
ReceiptsAreDue ==
    /\ \A m \in Theirs : <<"delivered", m>> \in leaving => <<"seen", m>> \notin gone \cup leaving
    /\ leaving # {} => chat.receipts /\ (LongEvents \/ ~IsRequest(chat))

\* The status of a loaded message falls only while one of its events is still owed to
\* the servers: not by receipts in any order, by its own copy from another device or
\* by the stored page that opening the chat loads over it.
StatusRises ==
    [][step' # "down" =>
           \A m \in Rows :
               chat.rows[m] # "none" /\ chat'.rows[m] # "none" /\ m \notin owed
                   => Rank[chat'.rows[m]] >= Rank[chat.rows[m]]]_chatVars

\* A message that came in time is gone from memory and the table after it expires, and
\* no delivered receipt is held back for ever, whatever cancels a timer or starts it
\* again.
TimersServe ==
    /\ \A m \in Rows : ~<>[](Expired(m) /\ m \notin overdue /\ m \in Loaded \cup Stored)
    /\ \A m \in Theirs : ~<>[](m \in pending)
=============================================================================

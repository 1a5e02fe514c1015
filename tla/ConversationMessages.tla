------------------------ MODULE ConversationMessages ------------------------
(***************************************************************************)
(* The messages of one conversation (FConversationsManager and the message *)
(* handlers of FPrivateSocketData): the rows of messages, MessagesDeque,   *)
(* which keeps the newest of them, newest first, posting, editing, soft    *)
(* deletion, pages of the history and the retention trim.                  *)
(*                                                                         *)
(* The caller is a participant; whether he is the author of a row is found *)
(* by the UPDATE alone, so that any caller may turn out not to be.         *)
(***************************************************************************)
EXTENDS Calls, SequencesExt

CONSTANTS MaxPosts,       \* bound: messages posted
          FirstPage,      \* 40: what a first download fetches
          MaxLookback,    \* 50: how far back a message may be edited
          Retained,       \* messages the trim leaves
          MaxPageOffset,  \* bound: how far back, and how much, a client asks for
          MaxPostFaults   \* bound: statements that fail or find no connection

ASSUME ConversationMessagesAssumption ==
    /\ {FirstPage, Retained, MaxPageOffset} \subseteq Nat \ {0}
    /\ {MaxPosts, MaxLookback, MaxPostFaults} \subseteq Nat

Statuses == {"Sent", "Edited", "Deleted"}
Entry(ids) == [id : ids, status : Statuses]

VARIABLES
    messages,      \* table: the status of the rows, by id
    cached,        \* is there an object for the conversation, and does it know the participants
    MessagesDeque, \* entries, newest first
    cm,            \* per thread: the call's arguments and local variables
    mixed_up,      \* history, since the start: a download or a page overlapped a change, another
                   \* download or page; two posts overlapped; or a row was inserted and not cached
    contested,     \* history, since the start: messages two calls changed at once
    post_faults    \* counted up to their bound

conversationDoubts == <<mixed_up, contested, post_faults>>
conversationVars == <<messages, cached, MessagesDeque, cm, conversationDoubts>>

NoMessage == [id |-> 0, offset |-> 0, count |-> 0, rows |-> <<>>, answer |-> <<>>, fetched |-> FALSE]

AddMessage == <<"insertMessage", "pushFront">>
EditMessage == <<"editable", "updateEdit", "showEdit">>
DeleteMessage == <<"editable", "updateDelete", "showDelete">>
GetConversationMessagesForRange == <<"range">>
FirstDownload == <<"missing", "participants", "firstPage", "pushFirstPage">>
FindOnly == <<"found">>

Changes == {"MessageEdit", "MessageDelete"}
Posts == {"Message"}
Reads == {"LoadMoreMessages", "GetConversations"}
MessageOps == Changes \cup Posts \cup Reads \cup {"AddConversation"}

MessageIds == 1..Len(messages)

\* A backend that has just started; the table is empty or has two messages.
ConversationMessagesInit ==
    /\ messages \in {<<>>, <<"Deleted", "Sent">>}
    /\ cached = "no"
    /\ MessagesDeque = <<>>
    /\ cm = [th \in Threads |-> NoMessage]
    /\ mixed_up = FALSE
    /\ contested = {}
    /\ post_faults = 0

PostFault == post_faults < MaxPostFaults /\ post_faults' = post_faults + 1

(***************************************************************************)
(* The handlers; arguments are chosen at the step that reads them first.   *)
(***************************************************************************)
BeginMessageCall(th, op, steps, overlap) ==
    /\ Enter(th, steps, op)
    /\ mixed_up' = (mixed_up \/ overlap)
    /\ UNCHANGED <<messages, cached, MessagesDeque, cm, contested, post_faults>>

OnMessageReceived_Message(th) ==
    /\ cached # "no"
    /\ BeginMessageCall(th, "Message", AddMessage, BusyIn(Posts \cup Reads))

OnMessageReceived_MessageEdit(th) ==
    /\ cached = "known"
    /\ BeginMessageCall(th, "MessageEdit", EditMessage, BusyIn(Reads))

OnMessageReceived_MessageDelete(th) ==
    /\ cached = "known"
    /\ BeginMessageCall(th, "MessageDelete", DeleteMessage, BusyIn(Reads))

\* The page is read and made without the conversation's lock.
OnMessageReceived_LoadMoreMessages(th) ==
    /\ cached = "known"
    /\ BeginMessageCall(th, "LoadMoreMessages", GetConversationMessagesForRange, BusyIn(Posts \cup Changes \cup Reads))

GetConversations(th) ==
    BeginMessageCall(th, "GetConversations", FirstDownload, BusyIn(Posts \cup Changes \cup Reads))

\* Of the conversation between two friends that is in the table already.
OpenConversation(th) ==
    BeginMessageCall(th, "AddConversation", FindOnly, FALSE)

MessageReply(th) ==
    /\ Busy(th) /\ Head(pc[th]) \in MessageOps
    /\ Finish(th)
    /\ cm' = [cm EXCEPT ![th] = NoMessage]
    /\ UNCHANGED <<messages, cached, MessagesDeque, conversationDoubts>>

SetLocal(th, rec) == cm' = [cm EXCEPT ![th] = rec]

(***************************************************************************)
(* Posting.                                                                *)
(***************************************************************************)
\* A failure of the INSERT, or of the statements after it: the row may be there all the
\* same, and nothing is cached.  The sender is told "sent" in any case.
UploadMessage(th) ==
    /\ AtStep(th, "insertMessage")
    /\ \/ /\ Len(messages) < MaxPosts
          /\ messages' = Append(messages, "Sent")
          /\ \/ SetLocal(th, [cm[th] EXCEPT !.id = Len(messages')]) /\ Advance(th) /\ UNCHANGED <<mixed_up, post_faults>>
             \/ Return(th) /\ PostFault /\ mixed_up' = TRUE /\ UNCHANGED cm
       \/ Return(th) /\ PostFault /\ UNCHANGED <<messages, cm, mixed_up>>
    /\ UNCHANGED <<cached, MessagesDeque, contested>>

PushFront(th) ==
    /\ AtStep(th, "pushFront")
    /\ MessagesDeque' = <<[id |-> cm[th].id, status |-> "Sent"]>> \o MessagesDeque
    /\ Advance(th)
    /\ UNCHANGED <<messages, cached, cm, conversationDoubts>>

\* Rows whose post has not reached the deque.
InFlight == {t \in Threads : AtStep(t, "pushFront")}

(***************************************************************************)
(* Editing and deleting.                                                   *)
(***************************************************************************)
Found(id) == SelectInSeq(MessagesDeque, LAMBDA m : m.id = id)
Passed(id) == SelectInSeq(MessagesDeque, LAMBDA m : m.id < id)

\* The search goes through the newest MaxLookback + 1 entries and ends at a smaller id.
Editable(id) ==
    /\ Found(id) \in 1..MaxLookback + 1
    /\ Passed(id) # 0 => Found(id) < Passed(id)

IsMessageInConversation(th, id) ==
    /\ AtStep(th, "editable")
    /\ IF Editable(id) THEN SetLocal(th, [cm[th] EXCEPT !.id = id]) /\ Advance(th)
       ELSE UNCHANGED cm /\ Return(th)
    /\ contested' = contested \cup
           {m \in {id} : \E t \in Threads \ {th} : Busy(t) /\ Op(t) \in Changes /\ cm[t].id = id}
    /\ UNCHANGED <<messages, cached, MessagesDeque, mixed_up, post_faults>>

\* No row is affected when the caller is not the author; a tombstone may be edited.
UpdateRow(th, step, status) ==
    /\ AtStep(th, step)
    /\ \/ messages' = [messages EXCEPT ![cm[th].id] = status] /\ Advance(th)
       \/ UNCHANGED messages /\ Return(th)
    /\ UNCHANGED <<cached, MessagesDeque, cm, conversationDoubts>>

UpdateMessageEditInDB(th) == UpdateRow(th, "updateEdit", "Edited")
UpdateMessageDeleteInDB(th) == UpdateRow(th, "updateDelete", "Deleted")

Shown(th, step, i, status) ==
    /\ AtStep(th, step)
    /\ MessagesDeque' = IF i = 0 THEN MessagesDeque ELSE [MessagesDeque EXCEPT ![i].status = status]
    /\ Advance(th)
    /\ UNCHANGED <<messages, cached, cm, conversationDoubts>>

\* An edit stops its search at a smaller id, a deletion does not.
ShowEdit(th) ==
    LET id == cm[th].id
    IN Shown(th, "showEdit", IF Passed(id) # 0 /\ Passed(id) < Found(id) THEN 0 ELSE Found(id), "Edited")

ShowDelete(th) == Shown(th, "showDelete", Found(cm[th].id), "Deleted")

(***************************************************************************)
(* Downloads.                                                              *)
(***************************************************************************)
FromTo(s, first, last) == SubSeq(s, first, IF last < Len(s) THEN last ELSE Len(s))

\* The SELECT ... ORDER BY id DESC LIMIT OFFSET.
DownloadConversationMessages(offset, limit) ==
    LET newest == [i \in MessageIds |-> [id |-> Len(messages) + 1 - i, status |-> messages[Len(messages) + 1 - i]]]
    IN FromTo(newest, offset + 1, offset + limit)

\* A SELECT that fails finds nothing.
SkipKnown(th) ==
    /\ AtStep(th, "missing")
    /\ \/ AdvanceIf(th, cached = "no") /\ UNCHANGED post_faults
       \/ Return(th) /\ PostFault
    /\ UNCHANGED <<messages, cached, MessagesDeque, cm, mixed_up, contested>>

\* Participants that could not be read are taken for none; an object that is there by now
\* is left as it is.
ReadParticipants(th) ==
    /\ AtStep(th, "participants")
    /\ \/ cached' = (IF cached = "no" THEN "known" ELSE cached) /\ UNCHANGED post_faults
       \/ PostFault /\ cached' = (IF cached = "no" THEN "unknown" ELSE cached)
    /\ Advance(th)
    /\ UNCHANGED <<messages, MessagesDeque, cm, mixed_up, contested>>

DownloadFirstPage(th) ==
    /\ AtStep(th, "firstPage")
    /\ \/ SetLocal(th, [cm[th] EXCEPT !.rows = DownloadConversationMessages(0, FirstPage)]) /\ UNCHANGED post_faults
       \/ PostFault /\ UNCHANGED cm
    /\ Advance(th)
    /\ UNCHANGED <<messages, cached, MessagesDeque, mixed_up, contested>>

PushFirstPage(th) ==
    /\ AtStep(th, "pushFirstPage")
    /\ MessagesDeque' = MessagesDeque \o cm[th].rows
    /\ Advance(th)
    /\ SetLocal(th, NoMessage)
    /\ UNCHANGED <<messages, cached, conversationDoubts>>

\* A conversation that is found is cached without its messages.
CacheFound(th) ==
    /\ AtStep(th, "found")
    /\ cached' = IF cached = "no" THEN "known" ELSE cached
    /\ Advance(th)
    /\ mixed_up' = (mixed_up \/ (cached = "no" /\ BusyIn({"GetConversations"})))
    /\ UNCHANGED <<messages, MessagesDeque, cm, contested, post_faults>>

(***************************************************************************)
(* Pages.                                                                  *)
(***************************************************************************)
GetRange(offset, count) == FromTo(MessagesDeque, offset + 1, offset + count)

ReadRange(th, offset, count) ==
    LET rec == [cm[th] EXCEPT !.offset = offset, !.count = count] IN
    /\ AtStep(th, "range")
    /\ IF Len(MessagesDeque) < offset + count
       THEN Insert(th, <<"selectRange">>) /\ SetLocal(th, rec)
       ELSE Return(th) /\ SetLocal(th, [rec EXCEPT !.answer = GetRange(offset, count), !.fetched = TRUE])
    /\ UNCHANGED <<messages, cached, MessagesDeque, conversationDoubts>>

\* What the deque lacks is downloaded, appended and put first in the answer; what it held of
\* the page, and more when there is, comes after it.
ExtendRange(th, offset, size, rows) ==
    /\ MessagesDeque' = MessagesDeque \o rows
    /\ SetLocal(th, [cm[th] EXCEPT !.answer =
           rows \o (IF size = offset THEN <<>> ELSE FromTo(MessagesDeque', offset + 1, offset + size)),
           !.fetched = TRUE])

\* Mutant: the page is what was downloaded.
DownloadRange_RowsOnly(th) ==
    LET offset == cm[th].offset size == Len(MessagesDeque)
    IN
    /\ AtStep(th, "selectRange")
    /\ ExtendRange(th, size, size, DownloadConversationMessages(size, offset + cm[th].count - size))
    /\ Return(th)
    /\ UNCHANGED <<messages, cached, conversationDoubts>>

DownloadRange(th) ==
    LET offset == cm[th].offset size == Len(MessagesDeque)
    IN
    /\ AtStep(th, "selectRange")
    /\ \/ /\ ExtendRange(th, offset, size, DownloadConversationMessages(size, offset + cm[th].count - size))
          /\ UNCHANGED conversationDoubts
       \/ /\ PostFault
          /\ SetLocal(th, [cm[th] EXCEPT !.answer = IF size = offset THEN <<>> ELSE GetRange(offset, size)])
          /\ UNCHANGED <<MessagesDeque, mixed_up, contested>>
    /\ Return(th)
    /\ UNCHANGED <<messages, cached>>

(***************************************************************************)
(* The engine tick's trim, and a restart.                                  *)
(***************************************************************************)
CleanupOldMessages ==
    /\ Len(MessagesDeque) > Retained
    /\ MessagesDeque' = SubSeq(MessagesDeque, 1, Retained)
    /\ mixed_up' = (mixed_up \/ BusyIn(Reads))
    /\ UNCHANGED <<pc, messages, cached, cm, contested, post_faults>>

ConversationMessagesRestart ==
    /\ pc' = Idle
    /\ cached' = "no"
    /\ MessagesDeque' = <<>>
    /\ cm' = [th \in Threads |-> NoMessage]
    /\ mixed_up' = FALSE
    /\ contested' = {}
    /\ UNCHANGED <<messages, post_faults>>

ConversationMessageStep(th) ==
    \/ UploadMessage(th) \/ PushFront(th)
    \/ (\E id \in MessageIds : IsMessageInConversation(th, id))
    \/ UpdateMessageEditInDB(th) \/ ShowEdit(th) \/ UpdateMessageDeleteInDB(th) \/ ShowDelete(th)
    \/ SkipKnown(th) \/ ReadParticipants(th) \/ DownloadFirstPage(th) \/ PushFirstPage(th)
    \/ CacheFound(th)
    \/ (\E offset, count \in 1..MaxPageOffset : ReadRange(th, offset, count))
    \/ DownloadRange(th)
    \/ MessageReply(th)

ConversationMessageCall(th) ==
    \/ OnMessageReceived_Message(th) \/ OnMessageReceived_MessageEdit(th)
    \/ OnMessageReceived_MessageDelete(th) \/ OnMessageReceived_LoadMoreMessages(th)
    \/ GetConversations(th) \/ OpenConversation(th)

ConversationMessagesNext ==
    \/ \E th \in Threads : ConversationMessageStep(th) \/ ConversationMessageCall(th)
    \/ CleanupOldMessages
    \/ ConversationMessagesRestart

ConversationMessagesSpec ==
    ConversationMessagesInit /\ pc = Idle /\ [][ConversationMessagesNext]_<<pc, conversationVars>>

(***************************************************************************)
(* Properties.                                                             *)
(***************************************************************************)
ConversationMessagesTypeOK ==
    /\ messages \in Seq(Statuses)
    /\ cached \in {"no", "known", "unknown"}
    /\ MessagesDeque \in Seq(Entry(MessageIds))
    /\ \A th \in Threads :
           /\ cm[th].id \in 0..Len(messages)
           /\ {cm[th].offset, cm[th].count} \subseteq Nat
           /\ cm[th].rows \in Seq(Entry(MessageIds))
           /\ cm[th].answer \in Seq(Entry(MessageIds))
           /\ cm[th].fetched \in BOOLEAN
    /\ mixed_up \in BOOLEAN
    /\ contested \subseteq MessageIds
    /\ post_faults \in 0..MaxPostFaults

\* ConversationsManager.cpp:74 "ordered newest-first": the deque is the newest rows of the
\* table, in order and none left out, through any posts, downloads, pages, trims and
\* restarts, unless posts or downloads overlapped or a row was not cached.  The offset
\* of a download and the early end of a search rely on it.
DequeIsNewest ==
    ~mixed_up => \A i \in DOMAIN MessagesDeque :
        MessagesDeque[i].id + i + Cardinality(InFlight) = Len(messages) + 1

\* Once no call changes a message, memory shows of it what the table says: its deletion
\* and its edits, also when it was posted, downloaded or edited meanwhile, unless
\* two calls changed it at once.
DequeShowsRows ==
    ~mixed_up => \A i \in DOMAIN MessagesDeque :
        LET id == MessagesDeque[i].id
        IN id \in contested
           \/ (\E th \in Threads : Busy(th) /\ Op(th) \in Changes /\ cm[th].id = id)
           \/ MessagesDeque[i].status = messages[id]

\* A page of the history has every message that was asked for, be it in memory,
\* in the table or in both.
PageHasAsked ==
    \A th \in Threads : cm[th].fetched /\ ~mixed_up =>
        {Len(messages) + 1 - i : i \in cm[th].offset + 1..cm[th].offset + cm[th].count} \cap MessageIds
            \subseteq {cm[th].answer[i].id : i \in DOMAIN cm[th].answer}

\* The deque, and the pages answered from it, are consistent with the table.
HistoryConsistent == ConversationMessagesTypeOK /\ DequeIsNewest /\ DequeShowsRows /\ PageHasAsked

\* servers_api.md:341 "limit: Number of messages to load": a page has no message twice.
PageWithoutRepetition ==
    \A th \in Threads : ~mixed_up =>
        Cardinality({cm[th].answer[i].id : i \in DOMAIN cm[th].answer}) = Len(cm[th].answer)
=============================================================================

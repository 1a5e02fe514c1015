--------------------------- MODULE ServerMessages ---------------------------
(***************************************************************************)
(* The messages of one text channel (FServersManager, FServer): the rows   *)
(* of server_messages, the vector ChannelMessages keeps of them in memory, *)
(* posting, soft deletion, pages of the history, and the retention trim.   *)
(*                                                                         *)
(* The vector is meant to hold the newest messages, oldest first; a page   *)
(* is read from its end and, when the vector has nothing to offer, after a *)
(* download has appended rows to it.  The server is loaded and the caller  *)
(* a member: one who is not is turned away before anything happens.        *)
(***************************************************************************)
EXTENDS Calls, SequencesExt

CONSTANTS MaxMessages,   \* bound: messages posted
          Limit,         \* page size a client asks for
          RetainCount,   \* messages the trim leaves
          MessageFaults  \* TRUE: a statement may fail

ASSUME MessagesAssumption ==
    /\ MaxMessages \in Nat
    /\ {Limit, RetainCount} \subseteq Nat \ {0}
    /\ MessageFaults \in BOOLEAN

VARIABLES
    server_messages, \* table: the rows by id, each with its created_at and whether it is a tombstone
    clock,           \* system_clock: the last time stamp given out
    ChannelMessages, \* the vector: ids, with whether the entry is a tombstone
    ml,              \* per thread: the call's arguments and local variables
    mixed,           \* history, since the start: a download overlapped a post, a deletion,
                     \* a trim or another download
    crossed,         \* history: two posts overlapped
    downloaded       \* history, since the start: rows were downloaded

messageVars == <<server_messages, clock, ChannelMessages, ml, mixed, crossed, downloaded>>

MessageIds == 1..Len(server_messages)
Posts == {"ServerMessage"}
MessageOps == {"ServerMessage", "ServerMessageDelete", "GetServerMessages"}

AddMessage == <<"stamp", "upload", "push">>
DeleteMessage == <<"owner", "tombstone", "mark">>
GetChannelMessages == <<"page">>
Download == <<"selectPage", "append", "pageAgain">>

NoMessageCall == [id |-> 0, at |-> 0, before |-> 0, rows |-> <<>>, answer |-> <<>>, fetched |-> FALSE]

\* A thread between the page it missed in memory and the one it reads after the download.
Downloading(th) == Busy(th) /\ Op(th) = "GetServerMessages" /\ Len(pc[th]) > 1 /\ Head(pc[th]) # "page"
SomeDownload == \E th \in Threads : Downloading(th)

MessagesInit ==
    /\ server_messages = <<>>
    /\ clock = 0
    /\ ChannelMessages = <<>>
    /\ ml = [th \in Threads |-> NoMessageCall]
    /\ mixed = FALSE
    /\ crossed = FALSE
    /\ downloaded = FALSE

(***************************************************************************)
(* The handlers; arguments are chosen at the step that reads them first.   *)
(***************************************************************************)
BeginMessageCall(th, op, steps) ==
    /\ Enter(th, steps, op)
    /\ UNCHANGED <<server_messages, clock, ChannelMessages, ml, downloaded>>

ServerMessage(th) ==
    /\ BeginMessageCall(th, "ServerMessage", AddMessage)
    /\ crossed' = (crossed \/ BusyIn(Posts))
    /\ mixed' = (mixed \/ SomeDownload)

HandleServerMessageDelete(th) ==
    /\ BeginMessageCall(th, "ServerMessageDelete", DeleteMessage)
    /\ mixed' = (mixed \/ SomeDownload)
    /\ UNCHANGED crossed

HandleGetServerMessages(th) ==
    /\ BeginMessageCall(th, "GetServerMessages", GetChannelMessages)
    /\ UNCHANGED <<mixed, crossed>>

MessageReply(th) ==
    /\ Busy(th) /\ Head(pc[th]) \in MessageOps
    /\ Finish(th)
    /\ ml' = [ml EXCEPT ![th] = NoMessageCall]
    /\ UNCHANGED <<server_messages, clock, ChannelMessages, mixed, crossed, downloaded>>

Local(th, rec) == ml' = [ml EXCEPT ![th] = rec]

(***************************************************************************)
(* Posting.                                                                *)
(***************************************************************************)
\* CreatedAt is taken before the row is inserted.
StampMessage(th) ==
    /\ AtStep(th, "stamp")
    /\ clock < MaxMessages
    /\ clock' = clock + 1
    /\ Local(th, [ml[th] EXCEPT !.at = clock'])
    /\ Advance(th)
    /\ UNCHANGED <<server_messages, ChannelMessages, mixed, crossed, downloaded>>

UploadMessageToDB(th) ==
    /\ AtStep(th, "upload")
    /\ \/ /\ server_messages' = Append(server_messages, [at |-> ml[th].at, deleted |-> FALSE])
          /\ Local(th, [ml[th] EXCEPT !.id = Len(server_messages')])
          /\ Advance(th)
       \/ MessageFaults /\ Return(th) /\ UNCHANGED <<server_messages, ml>>
    /\ UNCHANGED <<clock, ChannelMessages, mixed, crossed, downloaded>>

PushMessage(th) ==
    /\ AtStep(th, "push")
    /\ ChannelMessages' = Append(ChannelMessages, [id |-> ml[th].id, deleted |-> FALSE])
    /\ Advance(th)
    /\ UNCHANGED <<server_messages, clock, ml, mixed, crossed, downloaded>>

\* Rows whose post has not reached the vector: no client knows their ids yet.
OnTheirWay == {ml[th].id : th \in {t \in Threads : AtStep(t, "push")}}

(***************************************************************************)
(* Deletion: the author or the owner, of a message of the channel.         *)
(***************************************************************************)
GetServerMessageOwnerFromDB(th, id, allowed) ==
    /\ AtStep(th, "owner")
    /\ id \in MessageIds \ OnTheirWay
    /\ IF allowed THEN Local(th, [ml[th] EXCEPT !.id = id]) /\ Advance(th)
       ELSE UNCHANGED ml /\ Return(th)
    /\ UNCHANGED <<server_messages, clock, ChannelMessages, mixed, crossed, downloaded>>

\* The row could not be read, or there is none.
MessageNotFound(th) ==
    /\ AtStep(th, "owner")
    /\ Return(th)
    /\ UNCHANGED messageVars

\* No row is affected when it is a tombstone already: the deletion fails.
MarkMessageDeletedInDB(th) ==
    LET id == ml[th].id IN
    /\ AtStep(th, "tombstone")
    /\ \/ /\ ~server_messages[id].deleted
          /\ server_messages' = [server_messages EXCEPT ![id].deleted = TRUE]
          /\ Advance(th)
       \/ /\ server_messages[id].deleted \/ MessageFaults
          /\ Return(th)
          /\ UNCHANGED server_messages
    /\ UNCHANGED <<clock, ChannelMessages, ml, mixed, crossed, downloaded>>

\* The first entry with the id, if there is one.
MarkMessageDeleted(th) ==
    LET i == SelectInSeq(ChannelMessages, LAMBDA m : m.id = ml[th].id) IN
    /\ AtStep(th, "mark")
    /\ ChannelMessages' = IF i = 0 THEN ChannelMessages
                          ELSE [ChannelMessages EXCEPT ![i].deleted = TRUE]
    /\ Advance(th)
    /\ UNCHANGED <<server_messages, clock, ml, mixed, crossed, downloaded>>

(***************************************************************************)
(* Pages.                                                                  *)
(***************************************************************************)
Older(id, before) == before = 0 \/ server_messages[id].at < before

\* The list, greatest first, of the Limit greatest numbers of S, or of all when they are fewer.
Newest(S) ==
    {s \in UNION {[1..n -> S] : n \in 0..Limit} :
        /\ \A i, j \in DOMAIN s : i < j => s[j] < s[i]
        /\ \A x \in S : \/ \E i \in DOMAIN s : s[i] = x
                        \/ Len(s) = Limit /\ \A i \in DOMAIN s : x < s[i]}

\* Mutant: the filter runs over the first entries only.
CachedPages_FilterLast(before) ==
    {SelectSeq([i \in DOMAIN s |-> ChannelMessages[s[i]]], LAMBDA m : Older(m.id, before)) :
        s \in Newest(DOMAIN ChannelMessages)}

\* FServer::GetChannelMessages: from the end, those before the time stamp, at most Limit.
OlderEntries(before) == {i \in DOMAIN ChannelMessages : Older(ChannelMessages[i].id, before)}
CachedPages(before) ==
    {[i \in DOMAIN s |-> ChannelMessages[s[i]]] : s \in Newest(OlderEntries(before))}

\* The rows the SELECT returns: newest id first.
OlderRows(before) == {id \in MessageIds : Older(id, before)}
TablePages(before) ==
    {[i \in DOMAIN s |-> [id |-> s[i], deleted |-> server_messages[s[i]].deleted]] :
        s \in Newest(OlderRows(before))}

ReadPage(th, before) ==
    /\ AtStep(th, "page")
    /\ \E page \in CachedPages(before) :
           /\ Local(th, [ml[th] EXCEPT !.before = before, !.answer = page])
           /\ IF page # <<>>
              THEN Advance(th) /\ UNCHANGED mixed
              ELSE /\ pc' = [pc EXCEPT ![th] = Download \o Tail(@)]
                   /\ mixed' = (mixed \/ SomeDownload \/ BusyIn({"ServerMessage", "ServerMessageDelete"}))
    /\ UNCHANGED <<server_messages, clock, ChannelMessages, crossed, downloaded>>

\* A SELECT that fails leaves nothing to append.
DownloadMessagesFromDB(th) ==
    /\ AtStep(th, "selectPage")
    /\ \/ \E rows \in TablePages(ml[th].before) : Local(th, [ml[th] EXCEPT !.rows = rows, !.fetched = TRUE])
       \/ MessageFaults /\ UNCHANGED ml
    /\ Advance(th)
    /\ UNCHANGED <<server_messages, clock, ChannelMessages, mixed, crossed, downloaded>>

\* Mutant: the last row is left out.
AppendRow_NotLast(th) ==
    /\ AtStep(th, "append")
    /\ IF Len(ml[th].rows) <= 1
       THEN Advance(th) /\ UNCHANGED <<ChannelMessages, ml, downloaded>>
       ELSE /\ ChannelMessages' = Append(ChannelMessages, Head(ml[th].rows))
            /\ Local(th, [ml[th] EXCEPT !.rows = Tail(@)])
            /\ downloaded' = TRUE
            /\ UNCHANGED pc
    /\ UNCHANGED <<server_messages, clock, mixed, crossed>>

\* Row by row, each under its own lock.
AppendRow(th) ==
    /\ AtStep(th, "append")
    /\ IF ml[th].rows = <<>>
       THEN Advance(th) /\ UNCHANGED <<ChannelMessages, ml, downloaded>>
       ELSE /\ ChannelMessages' = Append(ChannelMessages, Head(ml[th].rows))
            /\ Local(th, [ml[th] EXCEPT !.rows = Tail(@)])
            /\ downloaded' = TRUE
            /\ UNCHANGED pc
    /\ UNCHANGED <<server_messages, clock, mixed, crossed>>

ReadPageAgain(th) ==
    /\ AtStep(th, "pageAgain")
    /\ \E page \in CachedPages(ml[th].before) : Local(th, [ml[th] EXCEPT !.answer = page])
    /\ Advance(th)
    /\ UNCHANGED <<server_messages, clock, ChannelMessages, mixed, crossed, downloaded>>

(***************************************************************************)
(* The engine tick's trim, and a restart.                                  *)
(***************************************************************************)
TrimChannelMessagesToCount ==
    /\ Len(ChannelMessages) > RetainCount
    /\ ChannelMessages' = SubSeq(ChannelMessages, Len(ChannelMessages) - RetainCount + 1, Len(ChannelMessages))
    /\ mixed' = (mixed \/ SomeDownload)
    /\ UNCHANGED <<pc, server_messages, clock, ml, crossed, downloaded>>

MessagesRestart ==
    /\ pc' = Idle
    /\ ChannelMessages' = <<>>
    /\ ml' = [th \in Threads |-> NoMessageCall]
    /\ mixed' = FALSE
    /\ downloaded' = FALSE
    /\ UNCHANGED <<server_messages, clock, crossed>>

MessageStep(th) ==
    \/ StampMessage(th) \/ UploadMessageToDB(th) \/ PushMessage(th)
    \/ (\E id \in MessageIds, allowed \in BOOLEAN : GetServerMessageOwnerFromDB(th, id, allowed))
    \/ MessageNotFound(th) \/ MarkMessageDeletedInDB(th) \/ MarkMessageDeleted(th)
    \/ (\E before \in 0..MaxMessages : ReadPage(th, before))
    \/ DownloadMessagesFromDB(th) \/ AppendRow(th) \/ ReadPageAgain(th)
    \/ MessageReply(th)

MessageCall(th) == ServerMessage(th) \/ HandleServerMessageDelete(th) \/ HandleGetServerMessages(th)

MessagesNext ==
    \/ \E th \in Threads : MessageStep(th) \/ MessageCall(th)
    \/ TrimChannelMessagesToCount
    \/ MessagesRestart

MessagesSpec == MessagesInit /\ pc = Idle /\ [][MessagesNext]_<<pc, messageVars>>

(***************************************************************************)
(* Properties.                                                             *)
(***************************************************************************)
EntryOf(ids) == [id : ids, deleted : BOOLEAN]

MessagesTypeOK ==
    /\ server_messages \in Seq([at : 1..clock, deleted : BOOLEAN])
    /\ clock \in 0..MaxMessages
    /\ ChannelMessages \in Seq(EntryOf(MessageIds))
    /\ \A th \in Threads :
           /\ ml[th].id \in 0..Len(server_messages)
           /\ ml[th].at \in 0..clock
           /\ ml[th].before \in 0..MaxMessages
           /\ ml[th].rows \in Seq(EntryOf(MessageIds))
           /\ ml[th].answer \in Seq(EntryOf(MessageIds))
           /\ ml[th].fetched \in BOOLEAN
    /\ {mixed, crossed, downloaded} \subseteq BOOLEAN

\* servers_api.md "content is replaced with a CONTENT DELETED tombstone": once the deletion
\* of a message is over, no copy of it in memory shows its content, unless a download
\* overlapped a post, a deletion, a trim or another download since the start.
DeletedHidden ==
    ~mixed => \A i \in DOMAIN ChannelMessages :
        server_messages[ChannelMessages[i].id].deleted /\ ~BusyIn({"ServerMessageDelete"}) =>
            ChannelMessages[i].deleted

\* A message is in memory at most once: a page is downloaded only when memory holds
\* nothing of it, and a post adds only its own row.
NoDuplicates ==
    ~mixed => \A i, j \in DOMAIN ChannelMessages : ChannelMessages[i].id = ChannelMessages[j].id => i = j

\* Server.cpp:193 "Messages arrive in monotonic MessageId order": until rows are downloaded,
\* memory holds the newest messages of the channel that were posted since the start, oldest
\* first and none left out, through any deletions, trims and restarts, unless posts overlap.
MemoryIsRecent ==
    ~downloaded /\ ~crossed =>
        \A i \in DOMAIN ChannelMessages :
            ChannelMessages[i].id + Len(ChannelMessages) - i + Cardinality(OnTheirWay) = Len(server_messages)

\* What memory holds of a channel is consistent with the table.
MessagesConsistent == MessagesTypeOK /\ DeletedHidden /\ NoDuplicates /\ MemoryIsRecent

IdsOf(page) == {page[i].id : i \in DOMAIN page}

\* A page that had to be downloaded holds the newest rows older than its time stamp, as
\* many as there are up to the limit, whatever memory held before it.
DownloadedPageComplete ==
    [][\A th \in Threads :
           AtStep(th, "pageAgain") /\ pc'[th] = Tail(pc[th]) /\ ml[th].fetched /\ ~mixed =>
               \E rows \in TablePages(ml[th].before) : IdsOf(ml'[th].answer) = IdsOf(rows)]_<<pc, ml>>

\* Server.cpp:307 "Iterate in REVERSE for newest-first semantics": a page lists its
\* messages newest first.
NewestFirst ==
    \A th \in Threads : \A i, j \in DOMAIN ml[th].answer :
        i < j /\ ~crossed /\ ~mixed => ml[th].answer[j].id < ml[th].answer[i].id
=============================================================================

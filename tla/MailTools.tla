----------------------------- MODULE MailTools -----------------------------
(***************************************************************************)
(* The v4 server's tools that change mail: src/tools/email_tools.py,       *)
(* email_tools_draft.py, attachment_tools.py and folder_tools.py, on a     *)
(* mailbox at Exchange that other clients change too.                      *)
(*                                                                         *)
(* A tool finds the item it is about (Look), fetches the attachments it    *)
(* copies one by one (Fetch), and then makes one request that changes      *)
(* Exchange (the action named after the tool).  These steps block the      *)
(* event loop, so a worker is a server process; between them another       *)
(* process or another client may move, change or delete the item.  A call  *)
(* whose lookup fails, or whose arguments are wrong, changes nothing and   *)
(* is left out, as are bodies, subjects, recipients, flags and names of    *)
(* folders.                                                                *)
(***************************************************************************)
EXTENDS Naturals, FiniteSets

CONSTANTS
  Msgs,        (* messages, as people tell them apart                      *)
  Files,       (* names of files                                           *)
  Custom,      (* folders a user may create                                *)
  Workers,
  Repeats,     (* how often a request may be carried out: it may fail, and *)
               (* the transport may repeat it (FaultTolerance)             *)
  MaxId, MaxCalls, MaxOutlook,   (* bounds of the checked instances        *)
  NoItem, NoJob, Unborn, Destroyed

VARIABLES
  items,    (* Exchange: item ids to items                                 *)
  parent,   (* Exchange: the tree of the user's own folders                *)
  nextId,   (* Exchange gives every item, copy and moved item a new id     *)
  job,      (* the call a worker is in                                     *)
  calls, outlook,   (* numbers of calls and of changes by other clients    *)
  made,     (* history: mails sent and drafts made from another message    *)
  known,    (* history: messages that were ever in the mailbox             *)
  asked,    (* history: messages somebody asked to destroy                 *)
  untrashed (* history: messages of folders manage_folder was asked to put *)
            (* into Deleted Items, and destroyed                           *)

mailbox == <<items, parent, nextId>>
vars == <<mailbox, job, calls, outlook, made, known, asked, untrashed>>

Standard == {"inbox", "drafts", "sent", "trash"}
Folder == Standard \union Custom
Ids == 1..MaxId

(* FileAttachment, inline or not, and ItemAttachment, an embedded mail.     *)
Attachment == [kind : {"file"}, name : Files] \union [kind : {"mail"}, name : Msgs]
File(f) == [kind |-> "file", name |-> f]
Embedded(m) == [kind |-> "mail", name |-> m]

Item == [msg : Msgs, at : Folder, files : SUBSET Attachment]

Derived == {"reply_email", "forward_email", "create_reply_draft", "create_forward_draft"}
OnAttachments == {"add_attachment", "delete_attachment"}
Tools == Derived \union OnAttachments
         \union {"delete_email", "move_email", "copy_email", "attach_email_to_draft"}
Jobs == [tool : Tools, id : Ids, seen : Item, extra : SUBSET Attachment,
         copied : SUBSET Attachment, cut : BOOLEAN]

(* What the constants have to be: the standard folders are not the user's,  *)
(* and what stands for nothing is none of the things.                       *)
ConstantsOK ==
  /\ Custom \cap Standard = {}
  /\ NoItem \notin Item /\ NoJob \notin Jobs
  /\ {Unborn, Destroyed} \cap Folder = {}
  /\ Repeats \subseteq Nat /\ MaxId \in Nat \ {0} /\ MaxCalls \in Nat /\ MaxOutlook \in Nat

Alive(id) == id < nextId /\ items[id] # NoItem
Held == {items[id].msg : id \in {x \in Ids : Alive(x)}}

LiveFolder(f) == f \in Custom => parent[f] \notin {Unborn, Destroyed}
Under(f) ==
  LET below[n \in Nat] ==
        IF n = 0 THEN {f}
        ELSE below[n - 1] \union {g \in Custom : parent[g] \in below[n - 1]}
  IN below[Cardinality(Custom)]

Init ==
  /\ \E m \in Msgs : \E A \in SUBSET (Attachment \ {Embedded(m)}) :
       /\ items = [id \in Ids |-> IF id = 1 THEN [msg |-> m, at |-> "inbox", files |-> A]
                                  ELSE NoItem]
       /\ known = {m}
  /\ parent = [f \in Custom |-> Unborn]
  /\ nextId = 2
  /\ job = [w \in Workers |-> NoJob]
  /\ calls = 0 /\ outlook = 0
  /\ made = {} /\ asked = {} /\ untrashed = {}

-----------------------------------------------------------------------------
(* What tools are made of *)

Rests(w) == job[w] = NoJob
At(w, tool) == ~Rests(w) /\ job[w].tool = tool
Ends(w) == job' = [job EXCEPT ![w] = NoJob]

(* Mutant: the name of the folder instead of the folder                     *)
Deleted == "deleted"

(* get_standard_folder_map: "deleted" is account.trash.                     *)
Trash == "trash"

(* n new items, as CreateItem, CopyItem and MoveItem make them.             *)
Created(n, item, old) ==
  /\ nextId + n <= MaxId + 1
  /\ items' = [id \in Ids |-> IF id \in nextId..(nextId + n - 1) THEN item
                              ELSE IF id \in old THEN NoItem ELSE items[id]]
  /\ nextId' = nextId + n
  /\ known' = IF n > 0 THEN known \union {item.msg} ELSE known

(* attach_inline_files and the files named by path: at most one here.       *)
Given == {{}} \union {{File(f)} : f \in Files}

(* The instance check in copy_attachments_to_message: files, inline or not. *)
Copyable(item) == {a \in item.files : a.kind # "mail"}

(* What the arguments of a call name besides the item.                      *)
Extras(tool, item) ==
  CASE tool \in Derived                 -> Given
    [] tool = "add_attachment"          -> {{File(f)} : f \in Files}
    [] tool = "delete_attachment"       -> {{a} : a \in item.files}
    [] tool = "attach_email_to_draft"   -> {{Embedded(m)} : m \in Held}
    [] OTHER                            -> {{}}

-----------------------------------------------------------------------------
(* Calls *)

(* find_message_for_account finds a live item wherever it is; the tools on  *)
(* attachments search three folders.  attach_email_to_draft asks for no     *)
(* draft, and has its source in memory from here on (build_embedded_message).*)
Look(w, tool, id) ==
  /\ Rests(w) /\ calls < MaxCalls
  /\ Alive(id)
  /\ tool \in OnAttachments => items[id].at \in {"drafts", "inbox", "sent"}
  /\ \E extra \in Extras(tool, items[id]) :
       job' = [job EXCEPT ![w] = [tool |-> tool, id |-> id, seen |-> items[id],
                                  extra |-> extra, copied |-> {}, cut |-> FALSE]]
  /\ calls' = calls + 1
  /\ UNCHANGED <<mailbox, outlook, made, known, asked, untrashed>>

(* copy_attachments_to_message reads att.content, which asks Exchange: the  *)
(* item and the attachment must still be there, or the call ends.  An       *)
(* AttributeError or TypeError ends the loop instead, and the call goes on  *)
(* with what has been copied (email_tools.py:631).                          *)
Fetch(w, a) ==
  /\ ~Rests(w) /\ job[w].tool \in Derived /\ ~job[w].cut
  /\ a \in Copyable(job[w].seen) \ job[w].copied
  /\ \/ job' = IF Alive(job[w].id) /\ a \in items[job[w].id].files
               THEN [job EXCEPT ![w].copied = @ \union {a}]
               ELSE [job EXCEPT ![w] = NoJob]
     \/ job' = [job EXCEPT ![w].cut = TRUE]
  /\ UNCHANGED <<mailbox, calls, outlook, made, known, asked, untrashed>>

(* The new message of a reply or a forward: what was copied, then what was  *)
(* given.                                                                   *)
Built(w, folder) == [msg |-> job[w].seen.msg, at |-> folder,
                     files |-> job[w].copied \union job[w].extra]

(* Message.send, which leaves copies in Sent Items, and Message.save.       *)
Issue(w, folder) ==
  /\ \E n \in Repeats :
       /\ Created(n, Built(w, folder), {})
       /\ made' = IF n = 0 THEN made
                  ELSE made \union {[tool |-> job[w].tool, had |-> job[w].seen.files,
                                     given |-> job[w].extra, files |-> Built(w, folder).files,
                                     cut |-> job[w].cut]}
  /\ Ends(w)
  /\ UNCHANGED <<parent, calls, outlook, asked, untrashed>>

(* Mutant: an attachment that cannot be fetched any more is passed over     *)
CompleteWithoutGone(w) ==
  \A a \in Copyable(job[w].seen) \ job[w].copied :
    Alive(job[w].id) => a \notin items[job[w].id].files

Complete(w) == job[w].cut \/ job[w].copied = Copyable(job[w].seen)

ReplyEmail(w)         == At(w, "reply_email") /\ Complete(w) /\ Issue(w, "sent")
ForwardEmail(w)       == At(w, "forward_email") /\ Complete(w) /\ Issue(w, "sent")
CreateReplyDraft(w)   == At(w, "create_reply_draft") /\ Complete(w) /\ Issue(w, "drafts")
CreateForwardDraft(w) == At(w, "create_forward_draft") /\ Complete(w) /\ Issue(w, "drafts")

(* send_email and create_draft read nothing; a dry run ends before send.    *)
SendEmail(m) ==
  /\ calls < MaxCalls /\ calls' = calls + 1
  /\ \E n \in Repeats, given \in Given : Created(n, [msg |-> m, at |-> "sent", files |-> given], {})
  /\ UNCHANGED <<parent, job, outlook, made, asked, untrashed>>

CreateDraft(m) ==
  /\ calls < MaxCalls /\ calls' = calls + 1
  /\ \E n \in Repeats, given \in Given : Created(n, [msg |-> m, at |-> "drafts", files |-> given], {})
  /\ UNCHANGED <<parent, job, outlook, made, asked, untrashed>>

(* A request on the item that was found: carried out if the item is there,  *)
(* refused otherwise, and perhaps refused anyway.                           *)
Refused(w) == Ends(w) /\ UNCHANGED <<mailbox, calls, outlook, made, known, asked, untrashed>>

Moved(id, f) == Created(1, [items[id] EXCEPT !.at = f], {id})

(* Mutant: the default is exchangelib's delete, which destroys              *)
DeleteHard(w, permanent) ==
  /\ At(w, "delete_email")
  /\ \/ Refused(w)
     \/ /\ Alive(job[w].id)
        /\ items' = [items EXCEPT ![job[w].id] = NoItem]
        /\ asked' = IF permanent THEN asked \union {items[job[w].id].msg} ELSE asked
        /\ Ends(w)
        /\ UNCHANGED <<parent, nextId, calls, outlook, made, known, untrashed>>

(* delete_email, permanent (or hard_delete) or not.                         *)
DeleteEmail(w, permanent) ==
  /\ At(w, "delete_email")
  /\ \/ Refused(w)
     \/ /\ Alive(job[w].id)
        /\ Ends(w)
        /\ \/ /\ permanent
              /\ items' = [items EXCEPT ![job[w].id] = NoItem]
              /\ asked' = asked \union {items[job[w].id].msg}
              /\ UNCHANGED <<nextId, known>>
           \/ /\ ~permanent
              /\ Moved(job[w].id, Trash)
              /\ UNCHANGED asked
        /\ UNCHANGED <<parent, calls, outlook, made, untrashed>>

(* The destination was resolved just before (resolve_folder_for_account,    *)
(* find_folder_by_id).                                                      *)
MoveEmail(w, f) ==
  /\ At(w, "move_email")
  /\ \/ Refused(w)
     \/ /\ Alive(job[w].id) /\ LiveFolder(f)
        /\ Moved(job[w].id, f)
        /\ Ends(w)
        /\ UNCHANGED <<parent, calls, outlook, made, asked, untrashed>>

CopyEmail(w, f) ==
  /\ At(w, "copy_email")
  /\ \/ Refused(w)
     \/ /\ Alive(job[w].id) /\ LiveFolder(f)
        /\ \E n \in Repeats : Created(n, [items[job[w].id] EXCEPT !.at = f], {})
        /\ Ends(w)
        /\ UNCHANGED <<parent, calls, outlook, made, asked, untrashed>>

(* Item.attach and Item.detach, which ask Exchange at once.                 *)
SetFiles(w, A) ==
  /\ items' = [items EXCEPT ![job[w].id].files = A]
  /\ Ends(w)
  /\ UNCHANGED <<parent, nextId, calls, outlook, made, known, asked, untrashed>>

AddAttachment(w) ==
  /\ At(w, "add_attachment")
  /\ Refused(w) \/ (Alive(job[w].id) /\ SetFiles(w, items[job[w].id].files \union job[w].extra))

DeleteAttachment(w) ==
  /\ At(w, "delete_attachment")
  /\ Refused(w) \/ (Alive(job[w].id) /\ SetFiles(w, items[job[w].id].files \ job[w].extra))

AttachEmailToDraft(w) ==
  /\ At(w, "attach_email_to_draft")
  /\ Refused(w) \/ (Alive(job[w].id) /\ SetFiles(w, items[job[w].id].files \union job[w].extra))

-----------------------------------------------------------------------------
(* manage_folder: each action finds its folder and makes one request.       *)

Manage(f) ==
  /\ calls < MaxCalls /\ calls' = calls + 1
  /\ parent[f] \notin {Unborn, Destroyed}
  /\ UNCHANGED <<nextId, job, outlook, made, known>>

CreateFolder(f, p) ==
  /\ calls < MaxCalls /\ calls' = calls + 1
  /\ parent[f] = Unborn /\ LiveFolder(p)
  /\ parent' = [parent EXCEPT ![f] = p]
  /\ UNCHANGED <<items, nextId, job, outlook, made, known, asked, untrashed>>

(* Folder.delete takes the folder with all that is under it.                *)
Removed(f) ==
  /\ parent' = [g \in Custom |-> IF g \in Under(f) THEN Destroyed ELSE parent[g]]
  /\ items' = [id \in Ids |-> IF Alive(id) /\ items[id].at \in Under(f) THEN NoItem ELSE items[id]]

MessagesUnder(f) == {items[id].msg : id \in {x \in Ids : Alive(x) /\ items[x].at \in Under(f)}}

(* A folder of exchangelib need not have move_to_trash, and the default     *)
(* takes one that has none with delete, permanently (folder_tools.py:597).  *)
DeleteFolder(f, permanent) ==
  /\ Manage(f)
  /\ \/ /\ permanent
        /\ Removed(f)
        /\ asked' = asked \union MessagesUnder(f)
        /\ UNCHANGED untrashed
     \/ /\ ~permanent
        /\ parent' = [parent EXCEPT ![f] = Trash]
        /\ UNCHANGED <<items, asked, untrashed>>
     \/ /\ ~permanent
        /\ Removed(f)
        /\ untrashed' = untrashed \union MessagesUnder(f)
        /\ UNCHANGED asked

(* Exchange refuses a folder under itself.                                  *)
MoveFolder(f, p) ==
  /\ Manage(f)
  /\ LiveFolder(p) /\ p \notin Under(f)
  /\ parent' = [parent EXCEPT ![f] = p]
  /\ UNCHANGED <<items, asked, untrashed>>

-----------------------------------------------------------------------------
(* Other clients, and processes that end *)

Outlook ==
  /\ outlook < MaxOutlook /\ outlook' = outlook + 1
  /\ UNCHANGED <<job, calls, made, untrashed>>

Receive(m, A) ==
  /\ Outlook
  /\ Created(1, [msg |-> m, at |-> "inbox", files |-> A], {})
  /\ UNCHANGED <<parent, asked>>

OutlookMoves(id, f) ==
  /\ Outlook
  /\ Alive(id) /\ LiveFolder(f)
  /\ Moved(id, f)
  /\ UNCHANGED <<parent, asked>>

OutlookDetaches(id, a) ==
  /\ Outlook
  /\ Alive(id) /\ a \in items[id].files
  /\ items' = [items EXCEPT ![id].files = @ \ {a}]
  /\ UNCHANGED <<parent, nextId, known, asked>>

OutlookDestroys(id) ==
  /\ Outlook
  /\ Alive(id)
  /\ items' = [items EXCEPT ![id] = NoItem]
  /\ asked' = asked \union {items[id].msg}
  /\ UNCHANGED <<parent, nextId, known>>

Crash(w) == ~Rests(w) /\ Refused(w)

Next ==
  \/ \E w \in Workers, tool \in Tools, id \in Ids : Look(w, tool, id)
  \/ \E w \in Workers : \/ \E a \in Attachment : Fetch(w, a)
                        \/ ReplyEmail(w) \/ ForwardEmail(w)
                        \/ CreateReplyDraft(w) \/ CreateForwardDraft(w)
                        \/ AddAttachment(w) \/ DeleteAttachment(w) \/ AttachEmailToDraft(w)
                        \/ \E permanent \in BOOLEAN : DeleteEmail(w, permanent)
                        \/ \E f \in Folder : MoveEmail(w, f) \/ CopyEmail(w, f)
                        \/ Crash(w)
  \/ \E m \in Msgs : SendEmail(m) \/ CreateDraft(m)
  \/ \E f \in Custom : \/ \E p \in Folder : CreateFolder(f, p) \/ MoveFolder(f, p)
                       \/ \E permanent \in BOOLEAN : DeleteFolder(f, permanent)
  \/ \E m \in Msgs, A \in Given : Receive(m, A)
  \/ \E id \in Ids : \/ \E f \in Folder : OutlookMoves(id, f)
                     \/ \E a \in Attachment : OutlookDetaches(id, a)
                     \/ OutlookDestroys(id)

Spec == Init /\ [][Next]_vars

-----------------------------------------------------------------------------
(* Properties *)

TypeOK ==
  /\ items \in [Ids -> Item \union {NoItem}]
  /\ parent \in [Custom -> Folder \union {Unborn, Destroyed}]
  /\ nextId \in 1..(MaxId + 1)
  /\ job \in [Workers -> Jobs \union {NoJob}]
  /\ calls \in 0..MaxCalls /\ outlook \in 0..MaxOutlook
  /\ made \subseteq [tool : Derived, had : SUBSET Attachment, given : SUBSET Attachment,
                     files : SUBSET Attachment, cut : BOOLEAN]
  /\ known \subseteq Msgs /\ asked \subseteq Msgs /\ untrashed \subseteq Msgs

(* Nothing is lost that nobody asked to destroy: a message that was ever in  *)
(* the mailbox is still in one of its folders, Deleted Items included,       *)
(* unless a permanent deletion was asked for, of it or of its folder.  The   *)
(* one exception is a folder without move_to_trash, which the default of     *)
(* manage_folder destroys with all that is in it.  Whatever the tree has     *)
(* become, no message is in a folder that is gone.                           *)
Recoverable ==
  /\ known \ (asked \union untrashed) \subseteq Held
  /\ \A id \in Ids : Alive(id) => LiveFolder(items[id].at)

(* A reply, a forward or a draft of one carries exactly the files the        *)
(* original had when it was found, and the ones that were given: never less, *)
(* though somebody may have deleted the message or one of its attachments    *)
(* while they were copied one by one, and nothing of another message.  The   *)
(* one exception is a copy that was cut short by an AttributeError or        *)
(* TypeError: it carries what was given and some of the files, no others.    *)
AllOrNothing ==
  \A e \in made :
    LET whole == Copyable([files |-> e.had]) \union e.given
    IN IF e.cut THEN e.given \subseteq e.files /\ e.files \subseteq whole
       ELSE e.files = whole
=============================================================================

--------------------------------- MODULE Msg ---------------------------------
(***************************************************************************)
(* msgService.SendMsg and sendUserMegs (service/msg.go), the notification *)
(* collaborator, with the read-status writes of userMsgService            *)
(* (service/user_msg.go).                                                  *)
(*                                                                         *)
(* SendMsg reads, with db.DB, the subscription of the message, the users *)
(* subscribed to it, their user settings and the enabled message         *)
(* accounts, decides the receivers of each channel and starts the        *)
(* goroutine sendUserMegs, which creates the Msg row, a Local UserMsg per *)
(* receiver, and then, channel by channel, sends through the channel's   *)
(* client and creates that channel's UserMsgs.                           *)
(*                                                                         *)
(* A subscription is what the caller's read finds: NoSub or a record of  *)
(* its subscribed users and enabled channels.  Message contents, titles  *)
(* and templates are left out: a Msg is its sequence number.             *)
(***************************************************************************)
EXTENDS Naturals, Sequences, FiniteSets

CONSTANTS
    Users,          \* user ids
    HasSetting,     \* users with a UserSetting row
    Reach,          \* [Users -> SUBSET Channels]: channels whose account
                    \* is set and whose receive is enabled in the setting
    Accounts,       \* channels with an enabled MsgAccount row
    MaxMsgs         \* bound on the messages sent in a behaviour

Channels == {"email", "workWeiXin", "dingTalk"}
Local == "local"

\* A subscription as SendMsg reads it; NoSub: First found no row.
Sub == [users : SUBSET Users, conf : SUBSET (Channels \cup {Local})]
NoSub == [users |-> {}, conf |-> {"none"}]

MsgIds == 1..MaxMsgs
UserMsg == [msg : MsgIds, user : Users, type : Channels \cup {Local},
            status : {"success", "failed"}]
Job == [pc : {"create", "local", "channels", "done"},
        receivers : [Channels \cup {Local} -> SUBSET Users],
        todo : SUBSET Channels]

VARIABLES
    nmsg,           \* messages SendMsg has handed to sendUserMegs
    job,            \* [1..nmsg -> Job]: the sendUserMegs goroutines
    msgs,           \* ids of the Msg rows
    userMsgs,       \* the UserMsg rows
    read            \* UserMsg rows whose ReadStatus is Read

msgVars == <<nmsg, job, msgs, userMsgs, read>>

MsgTypeOK ==
    /\ nmsg \in 0..MaxMsgs
    /\ job \in [1..nmsg -> Job]
    /\ msgs \subseteq MsgIds
    /\ userMsgs \subseteq UserMsg
    /\ read \subseteq userMsgs

MsgInit ==
    /\ nmsg = 0
    /\ job = <<>>
    /\ msgs = {}
    /\ userMsgs = {}
    /\ read = {}

-----------------------------------------------------------------------------
(***************************************************************************)
(* SendMsg.                                                                *)
(***************************************************************************)

\* The receivers of each channel: a channel whose account is enabled and
\* which the subscription enables goes to the subscribed users with a
\* setting that reaches them by it; Local, when enabled, to every
\* subscribed user with a setting.
Receivers(sub) ==
    LET settings == sub.users \cap HasSetting
    IN  [c \in Channels \cup {Local} |->
            IF c = Local
            THEN IF Local \in sub.conf THEN settings ELSE {}
            ELSE IF c \in Accounts /\ c \in sub.conf
                 THEN {u \in settings : c \in Reach[u]}
                 ELSE {}]

\* The channels with a client to create: those with an enabled account
\* that the subscription enables (msgAccounts).
SendChannels(sub) == {c \in Accounts : c \in sub.conf}

\* SendMsg with the subscription sub that its First read.  A missing
\* subscription returns the error; no subscribed user, or no user
\* setting, returns nil; otherwise the goroutine is started.  A failing
\* read of the users, settings or accounts returns its error.
SendMsg(sub) ==
    \/ /\ \/ sub = NoSub
          \/ sub.users \cap HasSetting = {}
       /\ UNCHANGED msgVars
    \/ /\ sub /= NoSub
       /\ sub.users \cap HasSetting /= {}
       /\ \/ UNCHANGED msgVars
          \/ /\ nmsg < MaxMsgs
             /\ nmsg' = nmsg + 1
             /\ job' = Append(job, [pc |-> "create",
                                    receivers |-> Receivers(sub),
                                    todo |-> SendChannels(sub)])
             /\ UNCHANGED <<msgs, userMsgs, read>>

-----------------------------------------------------------------------------
(***************************************************************************)
(* The goroutine sendUserMegs of message i.                                *)
(***************************************************************************)

\* db.DB.Create(&msg): its error is only logged, and the UserMsgs are
\* created with the message's id all the same.
CreateMsg(i) ==
    /\ job[i].pc = "create"
    /\ msgs' \in {msgs, msgs \cup {i}}
    /\ job' = [job EXCEPT ![i].pc = "local"]
    /\ UNCHANGED <<nmsg, userMsgs, read>>

\* A Local UserMsg, SendSuccess and UnRead, per Local receiver.
CreateLocal(i) ==
    /\ job[i].pc = "local"
    /\ userMsgs' = userMsgs \cup
         {[msg |-> i, user |-> u, type |-> Local, status |-> "success"] :
            u \in job[i].receivers[Local]}
    /\ job' = [job EXCEPT ![i].pc = "channels"]
    /\ UNCHANGED <<nmsg, msgs, read>>

\* One iteration over msgAccounts, in map order.  NewMsgClient or
\* GetMsgContent failing, or no receivers, skips the channel; a failing
\* client.Send marks every UserMsg of the channel SendFailed; then they
\* are created.
SendChannel(i, c) ==
    /\ job[i].pc = "channels"
    /\ c \in job[i].todo
    /\ \/ UNCHANGED userMsgs
       \/ /\ job[i].receivers[c] /= {}
          /\ \E st \in {"success", "failed"} :
               userMsgs' = userMsgs \cup
                 {[msg |-> i, user |-> u, type |-> c, status |-> st] :
                    u \in job[i].receivers[c]}
    /\ job' = [job EXCEPT ![i].todo = @ \ {c}]
    /\ UNCHANGED <<nmsg, msgs, read>>

\* The loop is over.
EndSend(i) ==
    /\ job[i].pc = "channels"
    /\ job[i].todo = {}
    /\ job' = [job EXCEPT ![i].pc = "done"]
    /\ UNCHANGED <<nmsg, msgs, userMsgs, read>>

-----------------------------------------------------------------------------
(***************************************************************************)
(* userMsgService.                                                         *)
(***************************************************************************)

\* UpdateLocalMsg: Find the user's row by id, set Read, Save the row.
UpdateLocalMsg(u, m) ==
    /\ m \in userMsgs
    /\ m.user = u
    /\ read' = read \cup {m}
    /\ UNCHANGED <<nmsg, job, msgs, userMsgs>>

\* MarkAllRead: one Updates of every row of the user, of every type.
MarkAllRead(u) ==
    /\ read' = read \cup {m \in userMsgs : m.user = u}
    /\ UNCHANGED <<nmsg, job, msgs, userMsgs>>

\* A step of a sendUserMegs goroutine or of a user.
MsgStep ==
    \/ \E i \in 1..nmsg :
         \/ CreateMsg(i) \/ CreateLocal(i) \/ EndSend(i)
         \/ \E c \in Channels : SendChannel(i, c)
    \/ \E u \in Users :
         \/ MarkAllRead(u)
         \/ \E m \in userMsgs : UpdateLocalMsg(u, m)

=============================================================================
